-------------------------------- MODULE Server --------------------------------
(***************************************************************************)
(* The server's threads, the connections they share, and how they stop.    *)
(*                                                                         *)
(*   main      server_start: start the others, tick, join the chat thread  *)
(*   acceptor  accept_connections: accept, Connection, epoll, push_back    *)
(*   worker    NetworkWorker::listen: epoll_wait, handle, disconnect       *)
(*   chat      chat_thread: server_stop on "stop"                          *)
(*   signal    the SIGTERM/SIGABRT handler, on the main thread             *)
(*                                                                         *)
(*   src/server.cpp, src/network/tcpserver.cpp, src/network/worker.cpp,    *)
(*   example/main.cpp                                                      *)
(*                                                                         *)
(* What a connection sends is abstract here: bytes that a handler accepts  *)
(* or that make it throw, and the end of the stream.  Framing has the rest.*)
(*                                                                         *)
(* "connections" is a std::vector that every thread uses without a lock.   *)
(* Each operation on it has a first and a last step; two that overlap are  *)
(* a data race.  Undefined behaviour, or a signal that kills the process,  *)
(* sets "fault" and the model stops.                                       *)
(***************************************************************************)
EXTENDS Integers, FiniteSets

CONSTANTS
  Clients,        \* the clients that may connect, each once
  MaxEvents,      \* MAX_EVENTS of epoll_wait
  KernelMayFail   \* may accept, eventfd and the epoll calls fail?

ASSUME ServerAssumption ==
  /\ MaxEvents \in Nat \ {0}
  /\ KernelMayFail \in BOOLEAN
  /\ "nullptr" \notin Clients

VARIABLES
  running,      \* the atomic flag of server.cpp
  listening,    \* server_fd: "none", "open", "shut" or "closed"
  backlog,      \* clients whose TCP connection waits to be accepted
  input,        \* input[c]: what recv() would find on c's socket
  heap,         \* heap[c]: c's Connection object
  interest,     \* the epoll interest list
  wakeup,       \* the eventfd with the null event is in the interest list
  connections,  \* the connections vector
  inside,       \* threads in the middle of an operation on connections
  workers,      \* the array of NetworkWorkers: "none", "live", "no_epoll" when its
                \* one worker's epoll_create1 failed, or "freed"
  mainPc, accPc, accConn, workPc, workConn, batch,
  stopPc,       \* stopPc[s]: where thread s is in server_stop
  victims,      \* what disconnect_all still has to delete
  fault,        \* the undefined behaviour or deadly signal, if any
  unruly        \* history: clients that hung up or broke the protocol

clientVars == <<backlog, input, unruly>>
accVars    == <<accPc, accConn>>
workVars   == <<workPc, workConn, batch>>
stopVars   == <<stopPc, victims>>
sockVars   == <<listening, backlog>>
connVars   == <<heap, interest, connections, inside>>
vars == <<running, listening, clientVars, connVars, wakeup, workers, mainPc,
          accVars, workVars, stopVars, fault>>

Stoppers == {"chat", "signal"}
NoConn   == "nullptr"

Freed  == {c \in Clients : heap[c] = "freed"}
Live   == {c \in Clients : heap[c] = "live"}

\* A thread begins an operation on the vector.
BeginOp(t) == inside = {} /\ inside' = {t}
Collides   == inside # {}
------------------------------------------------------------------------------
(* The clients. *)

ClientConnects(c) ==
  /\ listening = "open"
  /\ heap[c] = "none" /\ c \notin backlog /\ accConn # c
  /\ input[c] = "none"
  /\ backlog' = backlog \cup {c}
  /\ UNCHANGED <<running, listening, input, unruly, connVars, wakeup, workers,
                 mainPc, accVars, workVars, stopVars, fault>>

\* A client may write, and may close or reset, before it is even accepted.
ClientSends(c) ==
  /\ c \in backlog \cup Live \cup {accConn}
  /\ input[c] = "none"
  /\ input' = [input EXCEPT ![c] = "bytes"]
  /\ UNCHANGED <<running, sockVars, unruly, connVars, wakeup, workers,
                 mainPc, accVars, workVars, stopVars, fault>>

ClientCloses(c) ==
  /\ c \in backlog \cup Live \cup {accConn}
  /\ input[c] # "eof"
  /\ input' = [input EXCEPT ![c] = "eof"]
  /\ unruly' = unruly \cup {c}
  /\ UNCHANGED <<running, sockVars, connVars, wakeup, workers,
                 mainPc, accVars, workVars, stopVars, fault>>
------------------------------------------------------------------------------
(* accept_connections *)

\* while (is_running())
AccLoop ==
  /\ accPc = "loop"
  /\ accPc' = IF running THEN "accept" ELSE "done"
  /\ UNCHANGED <<running, listening, clientVars, connVars, wakeup, workers,
                 mainPc, accConn, workVars, stopVars, fault>>

\* accept() returns a client, or -1: always once the socket was shut down.
Accept ==
  /\ accPc = "accept"
  /\ \/ /\ listening = "open"
        /\ \E c \in backlog : accConn' = c /\ backlog' = backlog \ {c}
        /\ accPc' = "connect"
     \/ /\ listening \in {"shut", "closed"} \/ KernelMayFail
        /\ accPc' = "loop"
        /\ UNCHANGED <<accConn, backlog>>
  /\ UNCHANGED <<running, listening, input, unruly, connVars, wakeup, workers,
                 mainPc, workVars, stopVars, fault>>

\* next_worker().connect(client_fd): from here on the worker may see events.
Connect ==
  /\ accPc = "connect" /\ workers = "live"
  /\ heap' = [heap EXCEPT ![accConn] = "live"]
  /\ interest' = interest \cup {accConn}
  /\ accPc' = "push"
  /\ UNCHANGED <<running, listening, clientVars, connections, inside, wakeup,
                 workers, mainPc, accConn, workVars, stopVars, fault>>

\* The worker array is gone, or epoll_ctl fails, as it must without an epoll
\* instance, and connect() disconnects a connection that is not in the vector:
\* erase(end()).
ConnectFails ==
  /\ accPc = "connect"
  /\ \/ workers = "freed" /\ fault' = "freed_worker"
     \/ /\ workers = "no_epoll" \/ (KernelMayFail /\ workers = "live")
        /\ fault' = "erase_end"
  /\ UNCHANGED <<running, listening, clientVars, connVars, wakeup, workers,
                 mainPc, accVars, workVars, stopVars>>

\* connections.push_back(conn)
PushBegin ==
  /\ accPc = "push"
  /\ BeginOp("acceptor")
  /\ accPc' = "pushing"
  /\ UNCHANGED <<running, listening, clientVars, heap, interest, connections,
                 wakeup, workers, mainPc, accConn, workVars, stopVars, fault>>

\* Mutation: the connection is not pushed.
PushEndLost ==
  /\ accPc = "pushing"
  /\ inside' = inside \ {"acceptor"}
  /\ accPc' = "loop"
  /\ accConn' = NoConn
  /\ UNCHANGED <<running, listening, clientVars, connections, heap, interest, wakeup,
                 workers, mainPc, workVars, stopVars, fault>>

PushEnd ==
  /\ accPc = "pushing"
  /\ connections' = connections \cup {accConn}
  /\ inside' = inside \ {"acceptor"}
  /\ accPc' = "loop"
  /\ accConn' = NoConn
  /\ UNCHANGED <<running, listening, clientVars, heap, interest, wakeup,
                 workers, mainPc, workVars, stopVars, fault>>
------------------------------------------------------------------------------
(* NetworkWorker::listen *)

WorkLoop ==
  /\ workPc = "loop"
  /\ workPc' = IF running THEN "epoll" ELSE "done"
  /\ UNCHANGED <<running, listening, clientVars, connVars, wakeup, workers,
                 mainPc, accVars, workConn, batch, stopVars, fault>>

Readable == {c \in interest : input[c] # "none"}
             \cup (IF wakeup THEN {NoConn} ELSE {})

\* epoll_wait() returns what is readable, MaxEvents at most.
EpollWait ==
  /\ workPc = "epoll"
  /\ Readable # {}
  /\ batch' \in {b \in SUBSET Readable : b = Readable \/ Cardinality(b) = MaxEvents}
  /\ Cardinality(batch') <= MaxEvents
  /\ workPc' = "events"
  /\ UNCHANGED <<running, listening, clientVars, connVars, wakeup, workers,
                 mainPc, accVars, workConn, stopVars, fault>>

\* epoll_wait() returns -1: it was interrupted, or there is no epoll instance.
EpollFails ==
  /\ workPc = "epoll"
  /\ KernelMayFail
  /\ workPc' = "loop"
  /\ UNCHANGED <<running, listening, clientVars, connVars, wakeup, workers,
                 mainPc, accVars, workConn, batch, stopVars, fault>>

\* Mutation: the null connection is processed like any other.
NextEventUnchecked ==
  /\ workPc = "events"
  /\ \/ /\ batch = {}
        /\ workPc' = "loop"
        /\ UNCHANGED <<batch, workConn>>
     \/ \E c \in batch :
        /\ workConn' = c
        /\ batch' = batch \ {c}
        /\ workPc' = "process"
  /\ UNCHANGED <<running, listening, clientVars, connVars, wakeup, workers,
                 mainPc, accVars, stopVars, fault>>

\* The next event of the batch; a null connection is the order to stop.
NextEvent ==
  /\ workPc = "events"
  /\ \/ /\ batch = {}
        /\ workPc' = "loop"
        /\ UNCHANGED <<batch, workConn>>
     \/ /\ NoConn \in batch
        /\ workPc' = "done"
        /\ UNCHANGED <<batch, workConn>>
     \/ \E c \in batch \ {NoConn} :
        /\ workConn' = c
        /\ batch' = batch \ {c}
        /\ workPc' = "process"
  /\ UNCHANGED <<running, listening, clientVars, connVars, wakeup, workers,
                 mainPc, accVars, stopVars, fault>>

\* conn->process_events(conn): recv(), and what it leads to.
Process ==
  /\ workPc = "process" /\ workConn \notin Freed
  /\ workPc' = IF input[workConn] = "bytes" THEN "handle" ELSE "disconnect"
  /\ input' = IF input[workConn] = "bytes" THEN [input EXCEPT ![workConn] = "none"] ELSE input
  /\ UNCHANGED <<running, sockVars, unruly, connVars, wakeup, workers, mainPc,
                 accVars, workConn, batch, stopVars, fault>>

\* Mutation: every handler ends the connection.
HandleOnce ==
  /\ workPc = "handle" /\ workConn \notin Freed
  /\ workPc' = "disconnect"
  /\ UNCHANGED <<running, listening, clientVars, connVars, wakeup, workers,
                 mainPc, accVars, workConn, batch, stopVars, fault>>

\* parsers[...](conn, rbuf) and conn->reset(), or an exception.
Handle ==
  /\ workPc = "handle" /\ workConn \notin Freed
  /\ \/ workPc' = "events" /\ UNCHANGED unruly
     \/ workPc' = "disconnect" /\ unruly' = unruly \cup {workConn}
  /\ UNCHANGED <<running, sockVars, input, connVars, wakeup, workers, mainPc,
                 accVars, workConn, batch, stopVars, fault>>

\* write_wbuf: a reply to a client that has reset the connection raises SIGPIPE,
\* for which there is no handler.
ReplyAfterReset ==
  /\ workPc = "handle" /\ workConn \notin Freed
  /\ input[workConn] = "eof"
  /\ fault' = "sigpipe"
  /\ UNCHANGED <<running, listening, clientVars, connVars, wakeup, workers,
                 mainPc, accVars, workVars, stopVars>>

\* Another thread has deleted the connection that the worker is busy with.
UseAfterFree ==
  /\ workPc \in {"process", "handle"} /\ workConn \in Freed
  /\ fault' = "use_after_free"
  /\ UNCHANGED <<running, listening, clientVars, connVars, wakeup, workers,
                 mainPc, accVars, workVars, stopVars>>

\* disconnect(conn): erase(find(conn)), then delete, which closes the socket
\* and so takes it out of the interest list.
DisconnectBegin ==
  /\ workPc = "disconnect"
  /\ workConn \in connections
  /\ BeginOp("worker")
  /\ workPc' = "erasing"
  /\ UNCHANGED <<running, listening, clientVars, heap, interest, connections,
                 wakeup, workers, mainPc, accVars, workConn, batch, stopVars, fault>>

DisconnectMissing ==
  /\ workPc = "disconnect"
  /\ workConn \notin connections /\ ~ Collides
  /\ fault' = "erase_end"
  /\ UNCHANGED <<running, listening, clientVars, connVars, wakeup, workers,
                 mainPc, accVars, workVars, stopVars>>

\* Mutation: the socket is not closed.
InterestKept(gone) == interest

InterestWithout(gone) == interest \ gone

DisconnectEnd ==
  /\ workPc = "erasing"
  /\ connections' = connections \ {workConn}
  /\ inside' = inside \ {"worker"}
  /\ heap' = [heap EXCEPT ![workConn] = "freed"]
  /\ interest' = InterestWithout({workConn})
  /\ workPc' = "events"
  /\ UNCHANGED <<running, listening, clientVars, wakeup, workers, mainPc,
                 accVars, workConn, batch, stopVars, fault>>
------------------------------------------------------------------------------
(* server_stop and tcp_stop, on the thread s that calls them *)

At(s, from, to) == stopPc[s] = from /\ stopPc' = [stopPc EXCEPT ![s] = to]

\* Mutation: the flag is left set.
StopBeginsRunning(s) ==
  /\ At(s, "idle", "shutdown")
  /\ s = "signal" => mainPc # "returned"
  /\ UNCHANGED <<running, listening, clientVars, connVars, wakeup, workers, mainPc,
                 accVars, workVars, victims, fault>>

\* "stop" on the console, or SIGTERM.
StopBegins(s) ==
  /\ \/ At(s, "idle", "shutdown")
     \* exit() destroys chat_runner, which nobody has joined: terminate() ends
     \* in abort(), and the handler of SIGABRT is the same function.
     \/ s = "signal" /\ At(s, "exit", "shutdown") /\ stopPc["chat"] # "off"
  /\ s = "signal" => mainPc # "returned"
  /\ running' = FALSE
  /\ UNCHANGED <<listening, clientVars, connVars, wakeup, workers, mainPc,
                 accVars, workVars, victims, fault>>

\* shutdown(server_fd): accept() fails from now on, and the clients still in
\* the backlog are reset.
StopListening(s) ==
  /\ At(s, "shutdown", IF listening = "none" THEN "delete" ELSE "disconnect")
  /\ IF listening = "open"
     THEN listening' = "shut" /\ backlog' = {}
     ELSE UNCHANGED sockVars
  /\ UNCHANGED <<running, input, unruly, connVars, wakeup, workers, mainPc,
                 accVars, workVars, victims, fault>>

\* disconnect_all(): delete every connection of the vector, then clear it.
DisconnectAllBegin(s) ==
  /\ At(s, "disconnect", "deleting")
  /\ BeginOp(s)
  /\ victims' = connections
  /\ UNCHANGED <<running, listening, clientVars, heap, interest, connections,
                 wakeup, workers, mainPc, accVars, workVars, fault>>

DeleteOne(s) ==
  /\ stopPc[s] = "deleting"
  /\ \E c \in victims :
       /\ victims' = victims \ {c}
       /\ heap' = [heap EXCEPT ![c] = "freed"]
       /\ interest' = InterestWithout({c})
  /\ UNCHANGED <<running, listening, clientVars, connections, inside, wakeup,
                 workers, mainPc, accVars, workVars, stopPc, fault>>

\* Mutation: the vector is not cleared.
DisconnectAllEndUncleared(s) ==
  /\ At(s, "deleting", "close")
  /\ victims = {}
  /\ inside' = inside \ {s}
  /\ UNCHANGED <<running, listening, clientVars, heap, interest, connections,
                 wakeup, workers, mainPc, accVars, workVars, victims, fault>>

DisconnectAllEnd(s) ==
  /\ At(s, "deleting", "close")
  /\ victims = {}
  /\ connections' = {}
  /\ inside' = inside \ {s}
  /\ UNCHANGED <<running, listening, clientVars, heap, interest, wakeup,
                 workers, mainPc, accVars, workVars, victims, fault>>

StopClose(s) ==
  /\ At(s, "close", "delete")
  /\ listening' = "closed"
  /\ UNCHANGED <<running, clientVars, connVars, wakeup, workers, mainPc,
                 accVars, workVars, victims, fault>>

\* delete[] workers: ~NetworkWorker puts an eventfd in the interest list to
\* wake the worker, and joins it whether or not that worked.  Without an epoll
\* instance it does neither, and destroying the std::thread of a worker that was
\* started is std::terminate().
DeleteWorkers(s) ==
  /\ stopPc[s] = "delete"
  /\ \/ /\ workers = "none"
        /\ At(s, "delete", "join_acceptor")
        /\ UNCHANGED <<wakeup, workers, fault>>
     \/ /\ workers = "live" /\ workPc # "off"
        /\ At(s, "delete", "join_worker")
        /\ wakeup' \in IF KernelMayFail THEN BOOLEAN ELSE {TRUE}
        /\ UNCHANGED <<workers, fault>>
     \/ /\ workers = "no_epoll" /\ workPc = "off"
        /\ At(s, "delete", "join_acceptor")
        /\ workers' = "freed"
        /\ UNCHANGED <<wakeup, fault>>
     \/ /\ \/ workers = "live" /\ workPc = "off" /\ fault' = "bad_join"
           \/ workers = "no_epoll" /\ workPc # "off" /\ fault' = "terminate"
           \/ workers = "freed" /\ fault' = "double_free"
        /\ UNCHANGED <<wakeup, workers, stopPc>>
  /\ UNCHANGED <<running, listening, clientVars, connVars, mainPc,
                 accVars, workVars, victims>>

\* Mutation: ~NetworkWorker does not wait for its thread.
WorkerLeft == TRUE

WorkerJoined == workPc = "done"

JoinWorker(s) ==
  /\ At(s, "join_worker", "join_acceptor")
  /\ WorkerJoined
  /\ IF workers = "freed"
     THEN fault' = "double_free" /\ UNCHANGED workers
     ELSE workers' = "freed" /\ UNCHANGED fault
  /\ UNCHANGED <<running, listening, clientVars, connVars, wakeup, mainPc,
                 accVars, workVars, victims>>

\* runner.join(): a thread that never ran, or was joined before, cannot be.
JoinAcceptor(s) ==
  /\ \/ /\ accPc = "done"
        /\ At(s, "join_acceptor", IF s = "signal" THEN "exit" ELSE "done")
        /\ accPc' = "joined"
        /\ UNCHANGED fault
     \/ /\ stopPc[s] = "join_acceptor"
        /\ accPc \in {"off", "joined"}
        /\ fault' = "bad_join"
        /\ UNCHANGED <<accPc, stopPc>>
  /\ UNCHANGED <<running, listening, clientVars, connVars, wakeup, workers,
                 mainPc, accConn, workVars, victims>>

\* The chat thread reads another line once the server has stopped running.
ChatQuits ==
  /\ At("chat", "idle", "done")
  /\ ~ running
  /\ UNCHANGED <<running, listening, clientVars, connVars, wakeup, workers,
                 mainPc, accVars, workVars, victims, fault>>

\* Two threads are inside the vector at once.
WantsVector(t) ==
  CASE t = "acceptor" -> accPc = "push"
    [] t = "worker"   -> workPc = "disconnect"
    [] OTHER          -> stopPc[t] = "disconnect"

Race ==
  /\ Collides
  /\ \E t \in {"acceptor", "worker"} \cup Stoppers : WantsVector(t)
  /\ fault' = "race"
  /\ UNCHANGED <<running, listening, clientVars, connVars, wakeup, workers,
                 mainPc, accVars, workVars, stopVars>>
------------------------------------------------------------------------------
(* server_start, on the main thread, which a signal handler suspends *)

MainAt(from, to) ==
  mainPc = from /\ mainPc' = to /\ stopPc["signal"] = "idle"

SetRunning ==
  /\ MainAt("begin", "socket")
  /\ running' = TRUE
  /\ UNCHANGED <<listening, clientVars, connVars, wakeup, workers, accVars,
                 workVars, stopVars, fault>>

\* tcp_init, up to listen(): it may fail, and running stays as it is.
InitSocket ==
  /\ \/ MainAt("socket", "workers") /\ listening' = "open"
     \/ MainAt("socket", "returned") /\ UNCHANGED listening
  /\ UNCHANGED <<running, clientVars, connVars, wakeup, workers, accVars,
                 workVars, stopVars, fault>>

\* Mutation: start_workers() is forgotten.
InitWorkersOnly ==
  /\ MainAt("workers", "start_acceptor")
  /\ workers' = "live"
  /\ UNCHANGED <<running, listening, clientVars, connVars, wakeup, accVars,
                 workVars, stopVars, fault>>

\* new NetworkWorker[1]: epoll_create1() may fail, and the server goes on.
InitWorkers ==
  /\ MainAt("workers", "start_workers")
  /\ workers' \in {"live"} \cup (IF KernelMayFail THEN {"no_epoll"} ELSE {})
  /\ UNCHANGED <<running, listening, clientVars, connVars, wakeup, accVars,
                 workVars, stopVars, fault>>

StartWorkers ==
  /\ MainAt("start_workers", "start_acceptor")
  /\ workPc' = "loop"
  /\ UNCHANGED <<running, listening, clientVars, connVars, wakeup, workers,
                 accVars, workConn, batch, stopVars, fault>>

StartAcceptor ==
  /\ MainAt("start_acceptor", "start_chat")
  /\ accPc' = "loop"
  /\ UNCHANGED <<running, listening, clientVars, connVars, wakeup, workers,
                 accConn, workVars, stopVars, fault>>

StartChat ==
  /\ MainAt("start_chat", "tick")
  /\ stopPc' = [stopPc EXCEPT !["chat"] = "idle"]
  /\ UNCHANGED <<running, listening, clientVars, connVars, wakeup, workers,
                 accVars, workVars, victims, fault>>

LoopEnds ==
  /\ MainAt("tick", "join_chat")
  /\ ~ running
  /\ UNCHANGED <<running, listening, clientVars, connVars, wakeup, workers,
                 accVars, workVars, stopVars, fault>>

JoinChat ==
  /\ MainAt("join_chat", "returned")
  /\ stopPc["chat"] = "done"
  /\ UNCHANGED <<running, listening, clientVars, connVars, wakeup, workers,
                 accVars, workVars, stopVars, fault>>
------------------------------------------------------------------------------
Init ==
  /\ running = FALSE
  /\ listening = "none"
  /\ backlog = {}
  /\ input = [c \in Clients |-> "none"]
  /\ heap = [c \in Clients |-> "none"]
  /\ interest = {}
  /\ wakeup = FALSE
  /\ connections = {}
  /\ inside = {}
  /\ workers = "none"
  /\ mainPc = "begin"
  /\ accPc = "off" /\ accConn = NoConn
  /\ workPc = "off" /\ workConn = NoConn /\ batch = {}
  /\ stopPc = [chat |-> "off", signal |-> "idle"]
  /\ victims = {}
  /\ fault = "none"
  /\ unruly = {}

Client   == \E c \in Clients : ClientConnects(c) \/ ClientSends(c) \/ ClientCloses(c)
Acceptor == AccLoop \/ Accept \/ Connect \/ ConnectFails \/ PushBegin \/ PushEnd
Worker   == WorkLoop \/ EpollWait \/ EpollFails \/ NextEvent \/ Process \/ Handle \/ ReplyAfterReset
            \/ UseAfterFree \/ DisconnectBegin \/ DisconnectMissing \/ DisconnectEnd
Stop(s)  == StopListening(s) \/ DisconnectAllBegin(s) \/ DeleteOne(s)
            \/ DisconnectAllEnd(s) \/ StopClose(s) \/ DeleteWorkers(s)
            \/ JoinWorker(s) \/ JoinAcceptor(s)
Main     == SetRunning \/ InitSocket \/ InitWorkers \/ StartWorkers
            \/ StartAcceptor \/ StartChat \/ LoopEnds \/ JoinChat

Next ==
  /\ fault = "none"
  /\ \/ Client \/ Acceptor \/ Worker \/ Main \/ ChatQuits \/ Race
     \/ \E s \in Stoppers : StopBegins(s) \/ Stop(s)

Spec == Init /\ [][Next]_vars

\* Blocked in accept(), or in epoll_wait(), with nothing there to return.
AcceptBlocks == accPc = "accept" /\ listening = "open" /\ backlog = {}
EpollBlocks  == workPc = "epoll" /\ workers # "no_epoll" /\ Readable = {}

\* Each thread is scheduled, but nobody owes one that is blocked anything: clients,
\* the operator and signals do not, nor does the kernel owe it an error.
AcceptorRuns == fault = "none" /\ ~ AcceptBlocks /\ Acceptor
WorkerRuns   == fault = "none" /\ ~ EpollBlocks /\ Worker
MainRuns     == fault = "none" /\ Main
StopRuns(s)  == fault = "none" /\ Stop(s)

FairSpec ==
  /\ Spec
  /\ WF_vars(AcceptorRuns) /\ WF_vars(WorkerRuns) /\ WF_vars(MainRuns)
  /\ \A s \in Stoppers : WF_vars(StopRuns(s))
------------------------------------------------------------------------------
ServerTypeOK ==
  /\ running \in BOOLEAN /\ wakeup \in BOOLEAN
  /\ listening \in {"none", "open", "shut", "closed"}
  /\ backlog \subseteq Clients /\ interest \subseteq Clients
  /\ connections \subseteq Clients /\ victims \subseteq Clients /\ unruly \subseteq Clients
  /\ input \in [Clients -> {"none", "bytes", "eof"}]
  /\ heap \in [Clients -> {"none", "live", "freed"}]
  /\ inside \subseteq {"acceptor", "worker"} \cup Stoppers
  /\ workers \in {"none", "live", "no_epoll", "freed"}
  /\ mainPc \in {"begin", "socket", "workers", "start_workers", "start_acceptor",
                 "start_chat", "tick", "join_chat", "returned"}
  /\ accPc \in {"off", "loop", "accept", "connect", "push", "pushing", "done", "joined"}
  /\ accConn \in Clients \cup {NoConn} /\ workConn \in Clients \cup {NoConn}
  /\ workPc \in {"off", "loop", "epoll", "events", "process", "handle",
                 "disconnect", "erasing", "done"}
  /\ workPc \in {"process", "handle", "disconnect", "erasing"} => workConn \in Clients
  /\ batch \subseteq Clients \cup {NoConn}
  /\ stopPc \in [Stoppers -> {"off", "idle", "shutdown", "disconnect", "deleting", "close",
                              "delete", "join_worker", "join_acceptor", "exit", "done"}]
  /\ fault \in {"none", "race", "erase_end", "use_after_free", "freed_worker",
                "double_free", "bad_join", "terminate", "sigpipe"}

\* Between two operations the vector holds exactly the live connections, except
\* the one the acceptor has yet to push: nothing is leaked and nothing dangles
\* (connect, push_back, disconnect, disconnect_all).
VectorExact ==
  inside = {} /\ fault = "none"
    => connections = Live \ (IF accPc = "push" THEN {accConn} ELSE {})

\* What a running server can run into, and what each of it takes: the acceptor
\* pushes while the worker erases, for which a client must have hung up or made its
\* handler throw; a reply to one that hung up; and erase(end()), where epoll_ctl
\* failed or the client to push was gone before push_back (connect, disconnect,
\* write_wbuf).  So the worker never touches a connection that was deleted.
RunningFaults ==
  running =>
    /\ fault \in {"none", "race", "sigpipe", "erase_end"}
    /\ fault = "race" => /\ unruly # {}
                         /\ \/ accPc = "push" /\ workPc = "erasing"
                            \/ accPc = "pushing" /\ workPc = "disconnect"
    /\ fault = "sigpipe" => workConn \in unruly
    /\ fault = "erase_end" =>
         \/ accPc = "connect" /\ KernelMayFail
         \/ accPc = "push" /\ workPc = "disconnect" /\ accConn = workConn /\ unruly # {}

\* A stop on the console alone neither deletes the workers twice nor joins a thread
\* that was never started or is joined already, whatever the clients do; and
\* std::terminate takes an epoll_create1 that failed (tcp_stop, ~NetworkWorker).
StopFaults ==
  /\ fault \in {"double_free", "bad_join"} => stopPc["signal"] # "idle"
  /\ fault = "terminate" => workers = "no_epoll" /\ ~ running

\* Every fault has its cause.
FaultsNeedCause == RunningFaults /\ StopFaults

\* ~NetworkWorker: the worker's memory outlives its thread, if it has one.
WorkerOutlived == workers = "freed" => workPc \in {"off", "done"}

\* The acceptor, or the worker, does not have to wait for anybody.
AcceptorMoves ==
  \/ accPc \in {"loop", "pushing"}
  \/ accPc = "accept" /\ (listening \in {"shut", "closed"} \/ backlog # {})
  \/ accPc = "connect" /\ workers # "none"
  \/ accPc = "push" /\ inside = {}

WorkerMoves ==
  \/ workPc \in {"loop", "events", "process", "handle", "erasing"}
  \/ workPc = "epoll" /\ Readable # {}
  \/ workPc = "disconnect" /\ inside = {}

\* Whoever a stop on the console waits for can move, or waits for one who can: the
\* acceptor does not stay in accept(), nor the worker in epoll_wait() unless the
\* eventfd failed, and at the end the main thread gets out of its loop and of
\* chat_runner's join() (tcp_stop, ~NetworkWorker, server_start).
StopGoesOn ==
  fault = "none" /\ stopPc["signal"] = "idle" =>
    /\ stopPc["chat"] = "disconnect" => inside = {} \/ accPc = "pushing" \/ workPc = "erasing"
    /\ stopPc["chat"] = "join_worker" /\ wakeup
         => workPc = "done" \/ WorkerMoves \/ accPc = "pushing"
    /\ stopPc["chat"] = "join_acceptor" => accPc = "done" \/ AcceptorMoves
    /\ stopPc["chat"] = "done"
         => mainPc = "returned" \/ (mainPc \in {"tick", "join_chat"} /\ ~ running)

\* A join ends when its thread has, and not before; and its thread is not held up.
JoinsEnd == WorkerOutlived /\ StopGoesOn

\* Stopping a server that nobody has connected to goes wrong in two ways only: its
\* worker has no epoll instance, or a signal stops the server before all threads
\* were started, together with the console, or a second time (tcp_stop, shutdown,
\* ~NetworkWorker).  The console's stop alone is safe.
QuietStopSafe ==
  Live \cup Freed = {} /\ accConn = NoConn /\ fault # "none" =>
    \/ fault = "terminate" /\ workers = "no_epoll"
    \/ fault \in {"race", "double_free", "bad_join"} /\ stopPc["signal"] # "idle"

\* "stop" on the console ends the process, if no fault does: shutdown() wakes the
\* acceptor, the eventfd wakes the worker, and each join returns.  Only where the eventfd could
\* not be had may the worker stay in epoll_wait, and the stop in join().
StopFinishes ==
  stopPc["chat"] = "shutdown"
    ~> \/ mainPc = "returned" \/ fault # "none" \/ stopPc["signal"] # "idle"
       \/ stopPc["chat"] = "join_worker" /\ ~ wakeup

\* The life that an operator sees: the process has stopped once tcp_stop has
\* joined both of its threads.
Threads == (IF accPc \in {"off", "done", "joined"} THEN {} ELSE {"acceptor"})
            \cup (IF workPc \in {"off", "done"} THEN {} ELSE {"worker"})

LifeOf ==
  CASE accPc = "joined"                 -> "stopped"
    [] running                          -> "up"
    [] ~ running /\ mainPc = "begin" /\ stopPc["signal"] = "idle" -> "down"
    [] OTHER                            -> "stopping"

PlaceOf == [c \in Clients |->
              CASE heap[c] = "none" -> "outside" [] heap[c] = "live" -> "inside" [] OTHER -> "left"]

Life == INSTANCE ServerLife WITH life <- LifeOf, threads <- Threads, place <- PlaceOf

\* Until a fault, the threads together live the life of ServerLife: no client is
\* taken in without an acceptor or after the stop, none is let go twice or comes
\* back, no thread is started twice or once the server goes down, and the stop ends
\* with both threads (tcp_start, tcp_stop, connect, disconnect, disconnect_all).
ImplementsLife == Life!LifeSpec

(***************************************************************************)
(* What the code says of itself.                                           *)
(***************************************************************************)
\* tcpserver.cpp:234: tcp_stop disconnects "all current clients" (disconnect_all,
\* while the acceptor still has a client to push).
StopLeavesNoClient ==
  stopPc["chat"] \in {"close", "delete", "join_worker", "join_acceptor", "done"} => Live = {}
==============================================================================
