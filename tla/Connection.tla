------------------------------ MODULE Connection ------------------------------
(***************************************************************************)
(* One connection: the protocol session on top of the receive path.        *)
(*                                                                         *)
(* The client writes its packets one behind the other into a TCP stream;   *)
(* Framing cuts them out again and each one that it cuts out exactly goes  *)
(* to its handler in Session.  A packet that the receive path steps over   *)
(* is lost to the session; when it stops in the middle of one, what the    *)
(* handlers get from then on is no packet of the client's.                 *)
(*                                                                         *)
(*   src/network/worker.cpp      the loop of NetworkWorker::listen         *)
(*   src/network/connection.cpp  Connection                                *)
(*                                                                         *)
(* All packets have the same length and fit in primary; hang-ups are left  *)
(* to Framing and Server.                                                  *)
(***************************************************************************)
EXTENDS Session

CONSTANTS
  PrimarySize,  \* PRIMARY_BUFFER_SIZE
  PacketSize    \* bytes of a packet, its prefix of one byte included

ASSUME ConnectionAssumption ==
  /\ PacketSize \in Nat /\ PrimarySize \in Nat
  /\ 1 < PacketSize /\ PacketSize <= PrimarySize

VARIABLES
  arrived, peer, taken, base, wpos, rpos, hdr, len, allowed, phase, target,
  sec, pc, frames, fault, hazards,  \* as in Framing
  lost,   \* packets that the receive path has stepped over
  early   \* history: the client wrote before its last packet was handled

pathVars == <<arrived, peer, taken, base, wpos, rpos, hdr, len, allowed, phase,
              target, sec, pc, frames, fault, hazards>>
connVars == <<vars, pathVars, lost, early>>

\* The handshake, two acknowledgements, and what is sent unasked.
NumPackets == MaxPackets + 3

StartOf == [i \in 1 .. NumPackets + 1 |-> (i - 1) * PacketSize]

Path == INSTANCE Framing WITH
          MaxHeader <- 1, Window <- NumPackets, Stray <- {},
          Start <- StartOf, HdrLen <- [p \in 1 .. NumPackets |-> 1]

\* The packet at the head of toServer, and the ones the client has written.
Turn    == Len(frames) + lost + 1
Written == Len(frames) + lost + Len(toServer)

\* The receive path takes the middle of a packet for the beginning of one.
Derailed == Path!From % PacketSize # 0

\* It takes the beginning of a later packet for that of the next one.
Behind == ~ Derailed /\ Path!From > StartOf[Turn]
------------------------------------------------------------------------------
ClientStep(A) ==
  /\ A
  /\ early' = (early \/ (toServer # << >> /\ toServer' # toServer))
  /\ UNCHANGED <<pathVars, lost>>

\* TCP brings what the client has written, as long as there is a connection.
Deliver ==
  /\ open
  /\ Path!Arrive
  /\ arrived' <= StartOf[Written + 1]
  /\ UNCHANGED <<vars, lost, early>>

Serving == open /\ ~ Derailed /\ ~ Behind

\* process_events, and ready() when it says no.
Receive ==
  /\ Serving
  /\ Path!Worker
  /\ UNCHANGED <<frames, vars, lost, early>>

\* parsers[state][id](conn, rbuf), and reset().
Handle ==
  /\ Serving
  /\ Path!Dispatch
  /\ Server
  /\ UNCHANGED <<lost, early>>

\* The packet that reset() has stepped over is gone.
Lose ==
  /\ Behind
  /\ lost' = lost + 1
  /\ toServer' = Tail(toServer)
  /\ UNCHANGED <<serverVars, toClient, clientVars, pathVars, early>>

Worker == Receive \/ Handle \/ Lose

ConnInit == Init /\ Path!Init /\ lost = 0 /\ early = FALSE

ConnNext ==
  \/ ClientStep(ClientHandshake) \/ ClientStep(ClientSends) \/ ClientStep(ClientReceives)
  \/ Deliver \/ Worker

\* The network delivers, the worker serves what has arrived, and the client
\* reads what it is sent; it sends nothing that it does not want to.
ConnSpec ==
  /\ ConnInit /\ [][ConnNext]_connVars
  /\ WF_connVars(Deliver) /\ WF_connVars(Worker) /\ WF_connVars(ClientStep(ClientReceives))
------------------------------------------------------------------------------
\* As long as no packet is stepped over, the session is what it would be over a
\* wire that never loses anything: each packet of a client that keeps to the
\* protocol is given to its own handler, and each such client has its one player
\* (listen, reset, parsers, login_start).
HandlersKept == lost = 0 => RightHandler /\ OnePlayer

\* Then, too, both sides agree on the state when nothing is under way, every
\* reply finds the client in its state unless one was cut, and a client that logs
\* in is only left waiting when the answer to it could not be written (set_state,
\* the senders, write_wbuf).
StatesKept == lost = 0 => StatesAgree /\ RepliesInState /\ LoginsSettle

\* A packet is only lost, the stream only cut in the wrong place, and a buffer
\* only left, after one recv() returned the end of a packet and the beginning of
\* the next.
LossNeedsReadAhead ==
  lost > 0 \/ Derailed \/ fault # "none" => "read_ahead" \in hazards

\* That only happens to a client that writes one packet before the last was
\* handled.
ReadAheadNeedsHaste == "read_ahead" \in hazards => early

\* Until it happens, each handler gets one packet of the client's, all of it and
\* in order, and none that arrived completely is left in the buffers when the
\* worker waits for more.
PacketsWhole ==
  "read_ahead" \notin hazards =>
    /\ \A i \in DOMAIN frames : Path!Exact(i)
    /\ pc = "epoll" /\ taken = arrived =>
         \A p \in Path!Packets : arrived >= StartOf[p + 1] => p <= Len(frames)

\* So a client that waits loses nothing, and one that does not loses nothing
\* either while every recv() ends within its packet.  Of handshake and
\* login_acknowledged, which have no answer, no client can know that they were
\* handled (resolve_length, reset, listen).
PatientClientSafe == LossNeedsReadAhead /\ ReadAheadNeedsHaste /\ PacketsWhole

\* A client that logs in is taken to CONFIG, and one that then gives its
\* information to PLAY, if the network delivers what was written, none of it is
\* stepped over, and writev() takes the one reply that it waits for (listen,
\* login_start, client_information, write_wbuf).
LoginAdvances ==
  LET broken == strayed \/ lost > 0 \/ Derailed \/ fault # "none"
  IN  /\ "login_start" \in asked ~>
            client \notin {"HANDSHAKE", "LOGIN"} \/ "login_success" \in unsent \/ broken
      /\ "client_information" \in asked ~>
            client \in {"PLAY", "CONFUSED"} \/ "finish_config" \in unsent \/ broken
==============================================================================
