-------------------------------- MODULE Session --------------------------------
(***************************************************************************)
(* The protocol session of one connection: the client and the server each  *)
(* keep a protocol state, and nothing on the wire says which state a       *)
(* packet belongs to.  Its id alone selects a handler, out of the table of *)
(* the state the server is in when the packet's turn comes.                *)
(*                                                                         *)
(*   src/network/worker.cpp      the handlers and the tables "parsers"     *)
(*   src/network/connection.cpp  init_player and the senders               *)
(*                                                                         *)
(* The client is external: it follows the protocol, sends as early as the  *)
(* protocol lets it, and may send what the server never asked for.  The    *)
(* wire is two queues; Connection puts Framing below the first one.        *)
(***************************************************************************)
EXTENDS Integers, Sequences

CONSTANTS
  Intents,    \* what the client's handshake may ask for
  MaxPackets  \* bound on the packets that the client sends unasked

ASSUME SessionAssumption ==
  /\ Intents \subseteq {"STATUS", "LOGIN", "TRANSFER"}
  /\ MaxPackets \in Nat

VARIABLES
  state,     \* server: Connection::state
  players,   \* server: how many Players init_player made for this connection
  open,      \* server: the connection is neither deleted nor misused
  toServer,  \* packets under way to the server
  toClient,  \* what is under way to the client of each reply
  unsent,    \* history: the replies that writev() did not take whole, and "part"
             \* when it took part of one
  client,    \* client: its protocol state, or "CONFUSED"
  asked,     \* client: the packets it has sent so far
  sent,      \* client: how many it sent unasked
  strayed,   \* history: the client did what the server does not support
  again,     \* history: the client sent client_information twice
  misread,   \* history: a packet went to the handler of another one
  outside    \* history: a packet id lay outside the table

serverVars == <<state, players, open, unsent, misread, outside>>
clientVars == <<client, asked, sent, strayed, again>>
vars == <<serverVars, toServer, toClient, clientVars>>

States == {"HANDSHAKE", "STATUS", "LOGIN", "CONFIG", "PLAY"}

\* packet_parser* parsers[5].  All handlers of play are empty.
parsers == [
  HANDSHAKE |-> <<"handshake">>,
  STATUS    |-> <<"status_request", "ping_request">>,
  LOGIN     |-> <<"login_start", "encryption_response", "login_plugin_response",
                  "login_acknowledged", "cookie_response">>,
  CONFIG    |-> <<"client_information", "cookie_response_config", "plugin_message",
                  "acknowledge_finish_config", "keep_alive_config", "pong",
                  "resource_pack_response", "known_packs">>,
  PLAY      |-> [id \in 1 .. 64 |-> "play"]]

\* Handlers that log their packet, and nothing else.
Inert == {"encryption_response", "login_plugin_response", "cookie_response",
          "cookie_response_config", "plugin_message", "keep_alive_config", "pong",
          "resource_pack_response", "known_packs", "play"}

\* Handlers that read from the packet.
Reading == {"handshake", "ping_request", "login_start", "encryption_response",
            "client_information", "plugin_message"}

Effective == {"handshake", "status_request", "ping_request", "login_start",
              "login_acknowledged", "client_information", "acknowledge_finish_config"}

Wants  == {"STATUS", "LOGIN", "TRANSFER"}
Packet == [name : Inert \cup Effective, id : 1 .. 64, want : Wants \cup {"none"}]

Replies == {"status_response", "pong_response", "login_success",
            "plugin_message_config", "feature_flags", "finish_config"}

\* What is left of a reply when writev() fails.
Remains == {"part", "nothing"}

\* The state of the client that a reply is meant for.
ReplyState(r) ==
  CASE r \in {"status_response", "pong_response"} -> "STATUS"
    [] r = "login_success"                        -> "LOGIN"
    [] OTHER                                      -> "CONFIG"
------------------------------------------------------------------------------
(* The client. *)

Put(id, want) ==
  /\ toServer' = Append(toServer, [name |-> parsers[client][id], id |-> id, want |-> want])
  /\ asked' = asked \cup {parsers[client][id]}

\* handshake; the next state begins with it, so that more may follow at once.
ClientHandshake ==
  /\ client = "HANDSHAKE"
  /\ \E want \in Intents :
       /\ Put(1, want)
       /\ client' = IF want = "STATUS" THEN "STATUS" ELSE "LOGIN"
       /\ strayed' = (want = "TRANSFER")
  /\ UNCHANGED <<serverVars, toClient, sent, again>>

\* The acknowledgements are not sent unasked.  Of the play packets, which all
\* do nothing, the first and the last stand for all.
Unasked ==
  CASE client = "STATUS" -> {1, 2}
    [] client = "LOGIN"  -> IF "login_start" \in asked THEN {2, 3, 5} ELSE {1}
    [] client = "CONFIG" -> {1, 2, 3, 5, 6, 7, 8}
    [] client = "PLAY"   -> {1, 64}
    [] OTHER             -> {}

\* A status client that goes on after its ping strays.
ClientSends ==
  /\ sent < MaxPackets
  /\ sent' = sent + 1
  /\ \E id \in Unasked :
       /\ Put(id, "none")
       /\ again' = (again \/ (parsers[client][id] = "client_information"
                              /\ "client_information" \in asked))
  /\ strayed' = (strayed \/ "ping_request" \in asked)
  /\ UNCHANGED <<serverVars, toClient, client>>

\* login_success and finish_config are acknowledged, and change the state; a
\* packet of another state ends the session on the client's side, and so does
\* part of a packet: what follows is taken for the rest of it.
ClientReceives ==
  /\ client # "CONFUSED"
  /\ toClient # << >>
  /\ toClient' = Tail(toClient)
  /\ LET r == Head(toClient)
     IN  \/ /\ r = "nothing"
            /\ UNCHANGED <<toServer, client, asked>>
         \/ /\ r = "part" \/ (r \in Replies /\ ReplyState(r) # client)
            /\ client' = "CONFUSED"
            /\ UNCHANGED <<toServer, asked>>
         \/ /\ ReplyState(r) = client
            /\ r = "login_success"
            /\ Put(4, "none")
            /\ client' = "CONFIG"
         \/ /\ ReplyState(r) = client
            /\ r = "finish_config"
            /\ Put(4, "none")
            /\ client' = "PLAY"
         \/ /\ r \in Replies /\ ReplyState(r) = client
            /\ r \notin {"login_success", "finish_config"}
            /\ UNCHANGED <<toServer, client, asked>>
  /\ UNCHANGED <<serverVars, sent, strayed, again>>
------------------------------------------------------------------------------
(* The server: parsers[conn->get_state()][packet_id](conn, conn->rbuf) *)

\* The next packet is given to the handler h.
Take(h) ==
  /\ open
  /\ toServer # << >>
  /\ Head(toServer).id \in DOMAIN parsers[state]
  /\ parsers[state][Head(toServer).id] = h
  /\ toServer' = Tail(toServer)
  /\ misread' = (misread \/ Head(toServer).name # h)

\* Each reply is written on its own.  When writev() fails, the rest of that one is
\* dropped: the client gets part of it, or nothing, and whatever is sent later.
Reply(rs) ==
  \E took \in [DOMAIN rs -> {"whole"} \cup Remains] :
    /\ toClient' = toClient \o [i \in DOMAIN rs |-> IF took[i] = "whole" THEN rs[i] ELSE took[i]]
    /\ unsent' = unsent \cup {rs[i] : i \in {j \in DOMAIN rs : took[j] # "whole"}}
                         \cup {"part" : i \in {j \in DOMAIN rs : took[j] = "part"}}

\* The id is not checked against the table.
OutOfTable ==
  /\ open
  /\ toServer # << >>
  /\ Head(toServer).id \notin DOMAIN parsers[state]
  /\ outside' = TRUE
  /\ open' = FALSE
  /\ UNCHANGED <<state, players, unsent, misread, toServer, toClient, clientVars>>

\* Reading another packet's bytes may run out of them.  Behind primary the reader
\* follows iv[1].buf, which points nowhere, and only behind iv[2] does it throw,
\* so that the worker disconnects.
Kick ==
  /\ \E h \in Reading : Take(h) /\ Head(toServer).name # h
  /\ open' = FALSE
  /\ UNCHANGED <<state, players, unsent, outside, toClient, clientVars>>

\* The state that handshake reads from its packet.
NextStates ==
  IF Head(toServer).name = "handshake" THEN {Head(toServer).want} ELSE Wants

\* Mutation: the intent becomes the state, whatever it is.
handshake_any ==
  /\ Take("handshake")
  /\ state' \in NextStates
  /\ UNCHANGED <<players, open, unsent, outside, toClient, clientVars>>

handshake ==
  /\ Take("handshake")
  /\ \E want \in NextStates : state' = IF want \in States THEN want ELSE state
  /\ UNCHANGED <<players, open, unsent, outside, toClient, clientVars>>

status_request ==
  /\ Take("status_request")
  /\ Reply(<<"status_response">>)
  /\ UNCHANGED <<state, players, open, outside, clientVars>>

ping_request ==
  /\ Take("ping_request")
  /\ Reply(<<"pong_response">>)
  /\ state' = "HANDSHAKE"
  /\ UNCHANGED <<players, open, outside, clientVars>>

\* Mutation: no player is made.
login_start_unnamed ==
  /\ Take("login_start")
  /\ Reply(<<"login_success">>)
  /\ UNCHANGED <<state, players, open, outside, clientVars>>

login_start ==
  /\ Take("login_start")
  /\ players' = players + 1
  /\ Reply(<<"login_success">>)
  /\ UNCHANGED <<state, open, outside, clientVars>>

\* Mutation: the state is left.
login_acknowledged_only ==
  /\ Take("login_acknowledged")
  /\ UNCHANGED <<state, players, open, unsent, outside, toClient, clientVars>>

login_acknowledged ==
  /\ Take("login_acknowledged")
  /\ state' = "CONFIG"
  /\ UNCHANGED <<players, open, unsent, outside, toClient, clientVars>>

\* Mutations: finish_config is sent first, or not at all.
FinishFirst == <<"finish_config", "plugin_message_config", "feature_flags">>
FinishNever == <<"plugin_message_config", "feature_flags">>

Configuration == <<"plugin_message_config", "feature_flags", "finish_config">>

client_information ==
  /\ Take("client_information")
  /\ Reply(Configuration)
  /\ UNCHANGED <<state, players, open, outside, clientVars>>

\* Mutation: the state is left.
acknowledge_only ==
  /\ Take("acknowledge_finish_config")
  /\ UNCHANGED <<state, players, open, unsent, outside, toClient, clientVars>>

acknowledge_finish_config ==
  /\ Take("acknowledge_finish_config")
  /\ state' = "PLAY"
  /\ UNCHANGED <<players, open, unsent, outside, toClient, clientVars>>

inert ==
  /\ \E h \in Inert : Take(h)
  /\ UNCHANGED <<state, players, open, unsent, outside, toClient, clientVars>>
------------------------------------------------------------------------------
Init ==
  /\ state = "HANDSHAKE"
  /\ players = 0
  /\ open = TRUE
  /\ toServer = << >>
  /\ toClient = << >>
  /\ unsent = {}
  /\ client = "HANDSHAKE"
  /\ asked = {}
  /\ sent = 0
  /\ strayed = FALSE
  /\ again = FALSE
  /\ misread = FALSE
  /\ outside = FALSE

Client == ClientHandshake \/ ClientSends \/ ClientReceives

Server == handshake \/ status_request \/ ping_request \/ login_start
          \/ login_acknowledged \/ client_information \/ acknowledge_finish_config
          \/ inert \/ Kick \/ OutOfTable

Next == Client \/ Server

Spec == Init /\ [][Next]_vars
------------------------------------------------------------------------------
SessionTypeOK ==
  /\ state \in States
  /\ players \in Nat
  /\ open \in BOOLEAN
  /\ toServer \in Seq(Packet)
  /\ toClient \in Seq(Replies \cup Remains)
  /\ unsent \subseteq Replies \cup {"part"}
  /\ client \in States \cup {"CONFUSED"}
  /\ asked \subseteq Inert \cup Effective
  /\ sent \in 0 .. MaxPackets
  /\ {strayed, again, misread, outside} \subseteq BOOLEAN

\* Every packet of a client that keeps to the protocol is given to its own
\* handler, however many are under way when the state changes (parsers,
\* set_state): the server is always in the state the client was in.
RightHandler == ~ strayed => ~ misread /\ ~ outside

\* A client that is being configured, or plays, has one player, and nobody's
\* player is ever replaced (login_start, init_player, login_acknowledged).
OnePlayer ==
  ~ strayed => /\ state \in {"CONFIG", "PLAY"} => players = 1
               /\ players <= 1

\* When nothing is under way to the server, both sides are in the same state;
\* only a pinged status session starts over on the server's side.
StatesAgree ==
  ~ strayed /\ client # "CONFUSED" /\ toServer = << >>
    => state = client \/ ("ping_request" \in asked /\ state = "HANDSHAKE")

\* Everything the server sends arrives while the client is in the state it is
\* meant for, even when replies before it were dropped, as long as none was cut
\* and the client gives its information once: each further client_information is
\* answered with another finish_config (client_information, send_finish_config,
\* write_wbuf).
RepliesInState == ~ strayed /\ ~ again /\ "part" \notin unsent => client # "CONFUSED"

\* What the client asked for is only ever forgotten when the one reply that it
\* waits for was not written: once nothing is under way in either direction, a
\* client that sent login_start has left LOGIN, or login_success was dropped, and
\* one that gave its information plays, or finish_config was, or it was confused
\* (login_start, client_information, write_wbuf, the acknowledgements).
LoginsSettle ==
  ~ strayed /\ toServer = << >> /\ toClient = << >>
    => /\ "login_start" \in asked =>
            client \notin {"HANDSHAKE", "LOGIN"} \/ "login_success" \in unsent
       /\ "client_information" \in asked =>
            client \in {"PLAY", "CONFUSED"} \/ "finish_config" \in unsent
==============================================================================
