------------------------------ MODULE SessionProof ------------------------------
(***************************************************************************)
(* Theorems about Connection, for any number of packets sent unasked and   *)
(* any sizes of packets and buffer: what holds of the session of a client  *)
(* that keeps to the protocol, as long as no packet is stepped over; where *)
(* the receive path stands in the stream of any client; that a client that *)
(* waits loses no packet; and that the connection is Framing below and, as *)
(* long as nothing is lost, Session above.                                 *)
(***************************************************************************)
EXTENDS Connection, TLAPS

\* The state that the client is in when it sends p, and the state that the
\* server is in when it has handled p.
Before(p) ==
  CASE p.name = "handshake" -> "HANDSHAKE"
    [] p.name \in {"status_request", "ping_request"} -> "STATUS"
    [] p.name \in {"login_start", "encryption_response", "login_plugin_response",
                   "login_acknowledged", "cookie_response"} -> "LOGIN"
    [] p.name = "play" -> "PLAY"
    [] OTHER -> "CONFIG"

After(p) ==
  CASE p.name = "handshake" -> p.want
    [] p.name = "ping_request" -> "HANDSHAKE"
    [] p.name = "login_acknowledged" -> "CONFIG"
    [] p.name = "acknowledge_finish_config" -> "PLAY"
    [] OTHER -> Before(p)

\* The table of its own state gives p to its own handler.
Fits(p) == p.id \in DOMAIN parsers[Before(p)] /\ parsers[Before(p)][p.id] = p.name

ToServer == 1 .. Len(toServer)
ToClient == 1 .. Len(toClient)

Pinged == "ping_request" \in asked

\* The state of the server once everything under way has been handled.
End == IF toServer = << >> THEN state ELSE After(toServer[Len(toServer)])

\* The packets under way form a chain of states, from the server's to the client's.
ChainInv ==
  /\ \A i \in ToServer : Fits(toServer[i]) /\ toServer[i].name \in asked
  /\ toServer # << >> => Before(toServer[1]) = state
  /\ \A i \in ToServer : i + 1 \in ToServer => Before(toServer[i + 1]) = After(toServer[i])
  /\ client \in {End, "CONFUSED"} \/ (client = "STATUS" /\ Pinged /\ End = "HANDSHAKE")
  /\ \A i \in ToServer : toServer[i].name = "ping_request" => i = Len(toServer)
  /\ Pinged => client \in {"STATUS", "CONFUSED"}
  /\ \A i \in ToServer : toServer[i].name = "handshake" => toServer[i].want \in {"STATUS", "LOGIN"}
  /\ ~ misread /\ ~ outside

\* What only happens after the player was made.
LoggedIn ==
  \/ state \in {"CONFIG", "PLAY"} \/ client \in {"CONFIG", "PLAY"}
  \/ \E i \in ToClient : toClient[i] = "login_success"
  \/ \E i \in ToServer : \/ Before(toServer[i]) \in {"CONFIG", "PLAY"}
                         \/ toServer[i].name = "login_acknowledged"

PlayerInv ==
  /\ players \in {0, 1}
  /\ players = 1 => "login_start" \in asked
  /\ \A i \in ToServer : toServer[i].name = "login_start" => players = 0
  /\ \A i, j \in ToServer :
       toServer[i].name = "login_start" /\ toServer[j].name = "login_start" => i = j
  /\ LoggedIn => players = 1

ConfigReplies == {"plugin_message_config", "feature_flags", "finish_config"}

\* What only happens in a status session.
AsksStatus ==
  \/ state = "STATUS"
  \/ \E i \in ToServer : "STATUS" \in {Before(toServer[i]), After(toServer[i])}
  \/ \E i \in ToClient : toClient[i] \in {"status_response", "pong_response"}

\* The packets that are answered are under way one at a time, and so are the
\* answers; the client stays in its state until the last of them.
ReplyInv ==
  /\ client # "CONFUSED"
  /\ AsksStatus => client = "STATUS"
  /\ \A i \in ToClient : toClient[i] = "login_success" => client = "LOGIN"
  /\ \A i, j \in ToClient : toClient[i] = "login_success" /\ toClient[j] = "login_success" => i = j
  /\ \A i \in ToServer : toServer[i].name = "login_start" => client = "LOGIN"
  /\ \A i \in ToServer : toServer[i].name = "client_information" =>
       client = "CONFIG" /\ \A j \in ToClient : toClient[j] \notin ConfigReplies
  /\ \A i, j \in ToServer :
       toServer[i].name = "client_information" /\ toServer[j].name = "client_information" => i = j
  /\ \A i \in ToClient : toClient[i] \in ConfigReplies =>
       client = "CONFIG" /\ "client_information" \in asked
  /\ \A i \in ToClient : toClient[i] = "finish_config" => i = Len(toClient)

\* Who asked to log in, or gave its information, has its packet or the last of
\* the answers to it under way, or has read that answer, unless it was not written.
LoginUnderWay ==
  \/ \E i \in ToServer : toServer[i].name = "login_start"
  \/ \E i \in ToClient : toClient[i] = "login_success"
  \/ "login_success" \in unsent

ConfigUnderWay ==
  \/ \E i \in ToServer : toServer[i].name = "client_information"
  \/ \E i \in ToClient : toClient[i] = "finish_config"
  \/ "finish_config" \in unsent

PendingInv ==
  /\ "login_start" \in asked => client \notin {"HANDSHAKE", "LOGIN"} \/ LoginUnderWay
  /\ "client_information" \in asked => client \in {"PLAY", "CONFUSED"} \/ ConfigUnderWay

\* A reply that was cut is on record.
PartInv == \A i \in ToClient : toClient[i] = "part" => "part" \in unsent

\* Before its handshake the client has done nothing, right or wrong.
FreshInv == client = "HANDSHAKE" => ~ strayed /\ ~ again

SessionInv ==
  /\ SessionTypeOK
  /\ FreshInv
  /\ PartInv
  /\ ~ strayed => ChainInv /\ PlayerInv /\ PendingInv
  /\ ~ strayed /\ ~ again /\ "part" \notin unsent => ReplyInv
------------------------------------------------------------------------------
(* Queues. *)

\* What the rest of a queue holds, and how long it is.
LEMMA TailFacts ==
  ASSUME NEW S, NEW q \in Seq(S), q # << >>
  PROVE  /\ Tail(q) \in Seq(S) /\ Head(q) = q[1] /\ Head(q) \in S
         /\ Len(q) \in Nat \ {0} /\ Len(Tail(q)) = Len(q) - 1
         /\ \A i \in 1 .. Len(q) - 1 : Tail(q)[i] = q[i + 1]
  OBVIOUS

\* What a queue with one more element holds, and how long it is.
LEMMA AppendFacts ==
  ASSUME NEW S, NEW q \in Seq(S), NEW e \in S
  PROVE  /\ Append(q, e) \in Seq(S) /\ Append(q, e) # << >>
         /\ Len(q) \in Nat /\ Len(Append(q, e)) = Len(q) + 1
         /\ Append(q, e)[Len(q) + 1] = e
         /\ \A i \in 1 .. Len(q) : Append(q, e)[i] = q[i]
  OBVIOUS

\* A queue is empty when its length is zero.
LEMMA EmptyFacts ==
  ASSUME NEW S, NEW q \in Seq(S)
  PROVE  Len(q) \in Nat /\ (q = << >> <=> Len(q) = 0)
  OBVIOUS
------------------------------------------------------------------------------
(* The tables. *)

\* What the client sends of its own accord in each of its states.
LEMMA UnaskedNames ==
  ASSUME NEW id \in Unasked
  PROVE  /\ client \in States \ {"HANDSHAKE"}
         /\ id \in 1 .. 64 /\ id \in DOMAIN parsers[client]
         /\ client = "STATUS" => parsers[client][id] \in {"status_request", "ping_request"}
         /\ client = "LOGIN" =>
              \/ parsers[client][id] \in
                   {"encryption_response", "login_plugin_response", "cookie_response"}
              \/ parsers[client][id] = "login_start" /\ "login_start" \notin asked
         /\ client = "CONFIG" =>
              parsers[client][id] \in
                {"client_information", "cookie_response_config", "plugin_message",
                 "keep_alive_config", "pong", "resource_pack_response", "known_packs"}
         /\ client = "PLAY" => parsers[client][id] = "play"
<1>1. CASE client = "STATUS"
  BY <1>1 DEF Unasked, parsers, States
<1>2. CASE client = "LOGIN"
  BY <1>2 DEF Unasked, parsers, States
<1>3. CASE client = "CONFIG"
  BY <1>3 DEF Unasked, parsers, States
<1>4. CASE client = "PLAY"
  BY <1>4 DEF Unasked, parsers, States
<1>5. QED
  BY <1>1, <1>2, <1>3, <1>4 DEF Unasked

\* The packets with an answer or a new state.
LEMMA NamedPackets ==
  /\ 1 \in DOMAIN parsers["HANDSHAKE"] /\ parsers["HANDSHAKE"][1] = "handshake"
  /\ 4 \in DOMAIN parsers["LOGIN"] /\ parsers["LOGIN"][4] = "login_acknowledged"
  /\ 4 \in DOMAIN parsers["CONFIG"] /\ parsers["CONFIG"][4] = "acknowledge_finish_config"
BY DEF parsers
------------------------------------------------------------------------------
(* The client adds a packet at the end of the chain. *)

\* Putting a packet that the client's state knows, and whose name is new to none
\* of the invariants but the chain.
LEMMA ChainPut ==
  ASSUME SessionTypeOK, ChainInv, client \in States, ~ Pinged,
         NEW p \in Packet, Fits(p), Before(p) = client,
         p.name = "handshake" => p.want \in {"STATUS", "LOGIN"},
         toServer' = Append(toServer, p), asked' = asked \cup {p.name},
         UNCHANGED serverVars,
         client' = IF p.name = "ping_request" THEN client ELSE After(p)
  PROVE  ChainInv'
<1> DEFINE n == Len(toServer)
<1>1. /\ toServer' # << >> /\ n \in Nat /\ Len(toServer') = n + 1 /\ toServer'[n + 1] = p
      /\ \A i \in ToServer : toServer'[i] = toServer[i]
      /\ toServer = << >> <=> n = 0
  BY AppendFacts, EmptyFacts DEF SessionTypeOK, ToServer
<1> HIDE DEF n
<1>2. ToServer = 1 .. n /\ ToServer' = 1 .. n + 1
  BY <1>1 DEF ToServer, n
<1>3. End = client
  BY DEF ChainInv, States
<1>4. \A i \in ToServer : toServer[i].name # "ping_request"
  BY DEF ChainInv, Pinged
<1>5. UNCHANGED <<state, misread, outside>>
  BY DEF serverVars
<1>6. \A i \in ToServer' : Fits(toServer'[i]) /\ toServer'[i].name \in asked'
  BY <1>1, <1>2 DEF ChainInv
<1>7. Before(toServer'[1]) = state'
  BY <1>1, <1>2, <1>3, <1>5 DEF ChainInv, End
<1>8. ASSUME NEW i \in ToServer', i + 1 \in ToServer'
      PROVE  Before(toServer'[i + 1]) = After(toServer'[i])
  <2>1. CASE i = n
    BY <1>1, <1>2, <1>3, <1>8, <2>1 DEF End, n
  <2>2. CASE i # n
    BY <1>1, <1>2, <1>8, <2>2 DEF ChainInv
  <2>3. QED
    BY <2>1, <2>2
<1>9. End' = After(p)
  BY <1>1 DEF End
<1>10. p.name = "ping_request" => After(p) = "HANDSHAKE" /\ Before(p) = "STATUS"
  BY DEF After, Before
<1>11. Pinged' <=> p.name = "ping_request"
  BY DEF Pinged
<1>12. client' \in {End', "CONFUSED"} \/ (client' = "STATUS" /\ Pinged' /\ End' = "HANDSHAKE")
  BY <1>9, <1>10, <1>11
<1>13. \A i \in ToServer' : toServer'[i].name = "ping_request" => i = Len(toServer')
  BY <1>1, <1>2, <1>4
<1>14. Pinged' => client' \in {"STATUS", "CONFUSED"}
  BY <1>10, <1>11
<1>15. QED
  BY <1>1, <1>2, <1>5, <1>6, <1>7, <1>8, <1>12, <1>13, <1>14 DEF ChainInv

\* The name of a packet tells its two states.
LEMMA TwoStates ==
  ASSUME NEW p \in Packet
  PROVE  /\ p.name = "handshake" => Before(p) = "HANDSHAKE" /\ After(p) = p.want
         /\ p.name = "status_request" => Before(p) = "STATUS" /\ After(p) = "STATUS"
         /\ p.name = "ping_request" => Before(p) = "STATUS" /\ After(p) = "HANDSHAKE"
         /\ p.name = "login_start" => Before(p) = "LOGIN" /\ After(p) = "LOGIN"
         /\ p.name = "login_acknowledged" => Before(p) = "LOGIN" /\ After(p) = "CONFIG"
         /\ p.name = "client_information" => Before(p) = "CONFIG" /\ After(p) = "CONFIG"
         /\ p.name = "acknowledge_finish_config" => Before(p) = "CONFIG" /\ After(p) = "PLAY"
         /\ p.name \in Inert => After(p) = Before(p) /\ Before(p) \in {"LOGIN", "CONFIG", "PLAY"}
BY DEF Before, After, Inert

\* The packet that is handled has come to its own handler.
LEMMA TakeFits ==
  ASSUME SessionTypeOK, ChainInv, toServer # << >>
  PROVE  /\ Head(toServer) = toServer[1] /\ Head(toServer) \in Packet
         /\ 1 \in ToServer /\ Before(Head(toServer)) = state
         /\ Head(toServer).id \in DOMAIN parsers[state]
         /\ parsers[state][Head(toServer).id] = Head(toServer).name
<1>1. Head(toServer) = toServer[1] /\ Head(toServer) \in Packet /\ 1 \in ToServer
  BY TailFacts DEF SessionTypeOK, ToServer
<1>2. QED
  BY <1>1 DEF ChainInv, Fits

\* Handling the first packet leaves the rest of the chain, if its handler sets
\* the state as the client expects.
LEMMA ChainTake ==
  ASSUME SessionTypeOK, ChainInv, toServer # << >>, toServer' = Tail(toServer),
         state' = After(Head(toServer)),
         UNCHANGED <<client, asked, misread, outside>>
  PROVE  ChainInv'
<1> DEFINE n == Len(toServer)
<1>1. n = Len(toServer)
  OBVIOUS
<1>2. /\ toServer' \in Seq(Packet) /\ n \in Nat \ {0} /\ Len(toServer') = n - 1
      /\ \A i \in 1 .. n - 1 : toServer'[i] = toServer[i + 1]
      /\ Head(toServer) = toServer[1]
  BY TailFacts DEF SessionTypeOK
<1> HIDE DEF n
<1>3. toServer' = << >> <=> n = 1
  <2>1. toServer' = << >> <=> Len(toServer') = 0
    BY <1>2, EmptyFacts
  <2>2. n - 1 = 0 <=> n = 1
    BY <1>2
  <2> QED
    BY <1>2, <2>1, <2>2
<1>4. ToServer = 1 .. n /\ ToServer' = 1 .. n - 1
  BY <1>1 DEF ToServer, n
<1>5. \A i \in ToServer' : Fits(toServer'[i]) /\ toServer'[i].name \in asked'
  BY <1>2, <1>3, <1>4 DEF ChainInv
<1>6. toServer' # << >> => Before(toServer'[1]) = state'
  BY <1>2, <1>3, <1>4 DEF ChainInv
<1>7. \A i \in ToServer' : i + 1 \in ToServer' => Before(toServer'[i + 1]) = After(toServer'[i])
  BY <1>2, <1>3, <1>4 DEF ChainInv
<1>8. End' = End
  <2>1. CASE n = 1
    BY <1>2, <1>3, <2>1 DEF End, n
  <2>2. CASE n # 1
    BY <1>2, <1>3, <2>2 DEF End, n
  <2>3. QED
    BY <2>1, <2>2
<1>9. \A i \in ToServer' : toServer'[i].name = "ping_request" => i = Len(toServer')
  BY <1>1, <1>2, <1>3, <1>4 DEF ChainInv
<1>10. \A i \in ToServer' : toServer'[i].name = "handshake" =>
         toServer'[i].want \in {"STATUS", "LOGIN"}
  BY <1>2, <1>3, <1>4 DEF ChainInv
<1>11. QED
  BY <1>5, <1>6, <1>7, <1>8, <1>9, <1>10 DEF ChainInv, Pinged

\* A handler takes the packet that was meant for it.
LEMMA TakeOwn ==
  ASSUME SessionTypeOK, ChainInv, NEW h, Take(h)
  PROVE  /\ toServer # << >> /\ toServer' = Tail(toServer) /\ misread' = misread
         /\ Head(toServer).name = h /\ Head(toServer) \in Packet
         /\ Before(Head(toServer)) = state
BY TakeFits DEF Take, ChainInv, SessionTypeOK

\* The first packet is taken from the queue.
LEMMA RestFacts ==
  ASSUME SessionTypeOK, toServer # << >>, toServer' = Tail(toServer)
  PROVE  /\ toServer' \in Seq(Packet)
         /\ 1 \in ToServer /\ Head(toServer) = toServer[1] /\ Head(toServer) \in Packet
         /\ \A i \in ToServer' : i + 1 \in ToServer /\ i + 1 # 1 /\ toServer'[i] = toServer[i + 1]
         /\ ToServer \subseteq Int /\ ToServer' \subseteq Int
BY TailFacts DEF SessionTypeOK, ToServer

\* One more packet is under way.
LEMMA MoreFacts ==
  ASSUME SessionTypeOK, NEW p \in Packet, toServer' = Append(toServer, p)
  PROVE  /\ toServer' \in Seq(Packet)
         /\ \A i \in ToServer' : \/ i \in ToServer /\ toServer'[i] = toServer[i]
                                 \/ i = Len(toServer) + 1 /\ toServer'[i] = p
BY AppendFacts DEF SessionTypeOK, ToServer

\* The replies rs, or what is left of each, are behind those that were under way.
Adds(rs) ==
  /\ Len(toClient') = Len(toClient) + Len(rs)
  /\ Len(toClient) \in Nat /\ Len(rs) \in Nat
  /\ \A i \in ToClient' : \/ i \in ToClient /\ toClient'[i] = toClient[i]
                          \/ /\ i - Len(toClient) \in 1 .. Len(rs)
                             /\ toClient'[i] \in {rs[i - Len(toClient)]} \cup Remains

\* Replies are added to the ones under way, and those not written are recorded.
LEMMA ReplyFacts ==
  ASSUME SessionTypeOK, NEW rs \in Seq(Replies), Reply(rs)
  PROVE  /\ toClient' \in Seq(Replies \cup Remains) /\ Adds(rs)
         /\ unsent \subseteq unsent' /\ unsent' \subseteq Replies \cup {"part"}
         /\ \A i \in ToClient : i \in ToClient' /\ toClient'[i] = toClient[i]
         /\ \A k \in 1 .. Len(rs) : \/ \E i \in ToClient' : toClient'[i] = rs[k]
                                   \/ rs[k] \in unsent'
         /\ PartInv => PartInv'
<1>1. PICK took \in [DOMAIN rs -> {"whole"} \cup Remains] :
        /\ toClient' = toClient \o [i \in DOMAIN rs |-> IF took[i] = "whole" THEN rs[i] ELSE took[i]]
        /\ unsent' = unsent \cup {rs[i] : i \in {j \in DOMAIN rs : took[j] # "whole"}}
                            \cup {"part" : i \in {j \in DOMAIN rs : took[j] = "part"}}
  BY DEF Reply
<1> DEFINE q == [i \in DOMAIN rs |-> IF took[i] = "whole" THEN rs[i] ELSE took[i]]
           n == Len(toClient)
<1>2. /\ Len(rs) \in Nat /\ DOMAIN rs = 1 .. Len(rs)
      /\ \A k \in 1 .. Len(rs) : rs[k] \in Replies
      /\ toClient \in Seq(Replies \cup Remains) /\ n \in Nat
  BY DEF SessionTypeOK
<1>3. q \in Seq(Replies \cup Remains) /\ Len(q) = Len(rs)
  <2>1. q \in [1 .. Len(rs) -> Replies \cup Remains]
    BY <1>2
  <2>2. QED
    BY <1>2, <2>1
<1>4. \A k \in 1 .. Len(rs) : \/ took[k] = "whole" /\ q[k] = rs[k]
                              \/ took[k] \in Remains /\ q[k] = took[k] /\ rs[k] \in unsent'
  BY <1>1, <1>2
<1>5. \A k \in 1 .. Len(rs) : took[k] = "part" => "part" \in unsent'
  BY <1>1, <1>2
<1>6. unsent \subseteq unsent' /\ unsent' \subseteq Replies \cup {"part"}
  BY <1>1, <1>2 DEF SessionTypeOK
<1>7. toClient' = toClient \o q
  BY <1>1
<1> HIDE DEF q, n
<1>8. /\ toClient' \in Seq(Replies \cup Remains) /\ Len(toClient') = n + Len(rs)
      /\ \A i \in 1 .. n : toClient'[i] = toClient[i]
      /\ \A k \in 1 .. Len(rs) : toClient'[n + k] = q[k]
  <2>1. /\ toClient \o q \in Seq(Replies \cup Remains) /\ Len(toClient \o q) = n + Len(q)
        /\ \A i \in 1 .. n : (toClient \o q)[i] = toClient[i]
        /\ \A k \in 1 .. Len(q) : (toClient \o q)[n + k] = q[k]
    BY <1>2, <1>3 DEF n
  <2>2. QED
    BY <1>3, <1>7, <2>1, Zenon
<1>9. ToClient = 1 .. n /\ ToClient' = 1 .. n + Len(rs)
  BY <1>8 DEF ToClient, n
<1>10. \A i \in ToClient : i \in ToClient' /\ toClient'[i] = toClient[i]
  BY <1>2, <1>8, <1>9
<1>11. ASSUME NEW i \in ToClient', i \notin ToClient
       PROVE  i - n \in 1 .. Len(rs) /\ toClient'[i] = q[i - n]
  <2>1. i - n \in 1 .. Len(rs) /\ n + (i - n) = i
    BY <1>2, <1>9, <1>11
  <2>2. QED
    BY <1>8, <2>1
<1>12. Adds(rs)
  BY <1>2, <1>4, <1>8, <1>10, <1>11 DEF Adds, n
<1>13. ASSUME NEW k \in 1 .. Len(rs)
       PROVE  (\E i \in ToClient' : toClient'[i] = rs[k]) \/ rs[k] \in unsent'
  <2>1. n + k \in ToClient' /\ toClient'[n + k] = q[k]
    BY <1>2, <1>8, <1>9
  <2>2. QED
    BY <1>4, <2>1
<1>14. ASSUME PartInv PROVE PartInv'
  <2>1. SUFFICES ASSUME NEW i \in ToClient', toClient'[i] = "part" PROVE "part" \in unsent'
    BY DEF PartInv
  <2>2. CASE i \in ToClient
    BY <1>6, <1>10, <1>14, <2>1, <2>2 DEF PartInv
  <2>3. CASE i \notin ToClient
    <3>1. i - n \in 1 .. Len(rs) /\ q[i - n] = "part"
      BY <1>11, <2>1, <2>3
    <3>2. took[i - n] = "part"
      BY <1>2, <1>4, <3>1 DEF Replies
    <3>3. QED
      BY <1>5, <3>1, <3>2
  <2>4. QED
    BY <2>2, <2>3
<1>15. QED
  BY <1>6, <1>8, <1>10, <1>12, <1>13, <1>14

\* The client has read the first reply.
LEMMA ReadFacts ==
  ASSUME SessionTypeOK, toClient # << >>, toClient' = Tail(toClient)
  PROVE  /\ toClient' \in Seq(Replies \cup Remains)
         /\ 1 \in ToClient /\ Head(toClient) = toClient[1]
         /\ Head(toClient) \in Replies \cup Remains
         /\ Len(toClient) \in Nat /\ Len(toClient') = Len(toClient) - 1
         /\ \A i \in ToClient' : i + 1 \in ToClient /\ i + 1 # 1 /\ toClient'[i] = toClient[i + 1]
         /\ ToClient \subseteq Int /\ ToClient' \subseteq Int
BY TailFacts DEF SessionTypeOK, ToClient
------------------------------------------------------------------------------
(* The client's packets. *)

\* What a Put puts, in the state s the client knows and with an id of its table.
LEMMA PutFacts ==
  ASSUME SessionTypeOK, NEW id \in 1 .. 64, NEW want \in Wants \cup {"none"}, Put(id, want),
         client \in States, id \in DOMAIN parsers[client],
         parsers[client][id] \in Inert \cup Effective
  PROVE  \E p \in Packet : /\ p.name = parsers[client][id] /\ p.id = id /\ p.want = want
                           /\ toServer' = Append(toServer, p)
                           /\ asked' = asked \cup {p.name}
<1> DEFINE p == [name |-> parsers[client][id], id |-> id, want |-> want]
<1>1. p \in Packet
  BY DEF Packet
<1>2. QED
  BY <1>1 DEF Put

\* p joins the queue, from a client that is in its state.
Puts(p) ==
  /\ client \in States /\ Before(p) = client /\ Fits(p)
  /\ toServer' = Append(toServer, p) /\ asked' = asked \cup {p.name}

\* The handshake puts one packet, and sets the client's state by what it wants.
LEMMA HandshakeFacts ==
  ASSUME SessionTypeOK, ClientHandshake
  PROVE  /\ client = "HANDSHAKE" /\ client' \in {"STATUS", "LOGIN"}
         /\ UNCHANGED <<serverVars, toClient, sent, again>>
         /\ strayed' \in BOOLEAN
         /\ \E p \in Packet : /\ Puts(p) /\ p.name = "handshake"
                              /\ ~ strayed' => p.want \in {"STATUS", "LOGIN"} /\ client' = p.want
<1>1. PICK want \in Intents :
        /\ Put(1, want)
        /\ client' = IF want = "STATUS" THEN "STATUS" ELSE "LOGIN"
        /\ strayed' = (want = "TRANSFER")
  BY DEF ClientHandshake
<1>2. want \in Wants \cup {"none"} /\ want \in {"STATUS", "LOGIN", "TRANSFER"}
  BY SessionAssumption DEF SessionAssumption, Wants
<1>3. client = "HANDSHAKE" /\ 1 \in DOMAIN parsers[client] /\ parsers[client][1] = "handshake"
  BY NamedPackets DEF ClientHandshake
<1>4. PICK p \in Packet : /\ p.name = "handshake" /\ p.id = 1 /\ p.want = want
                          /\ toServer' = Append(toServer, p) /\ asked' = asked \cup {p.name}
  BY <1>1, <1>2, <1>3, PutFacts DEF States, Effective
<1>5. Puts(p)
  BY <1>3, <1>4, TwoStates DEF Puts, Fits, States
<1>6. strayed' \in BOOLEAN
  BY <1>1
<1>7. ~ strayed' => want # "TRANSFER"
  BY <1>1
<1>8. ~ strayed' => p.want \in {"STATUS", "LOGIN"} /\ client' = p.want
  BY <1>1, <1>2, <1>4, <1>7
<1>9. QED
  BY <1>1, <1>3, <1>4, <1>5, <1>6, <1>8 DEF ClientHandshake

\* What a client sends unasked is one packet of its state, and neither the
\* handshake nor an acknowledgement; it logs in once.
LEMMA SendsFacts ==
  ASSUME SessionTypeOK, ClientSends
  PROVE  /\ client \in States \ {"HANDSHAKE"} /\ UNCHANGED <<serverVars, toClient, client>>
         /\ sent' = sent + 1 /\ sent < MaxPackets
         /\ strayed' \in BOOLEAN /\ again' \in BOOLEAN
         /\ ~ strayed' => ~ strayed /\ ~ Pinged
         /\ ~ again' => ~ again
         /\ \E p \in Packet :
              /\ Puts(p)
              /\ p.name \notin {"handshake", "login_acknowledged", "acknowledge_finish_config"}
              /\ p.name = "login_start" => "login_start" \notin asked
              /\ p.name = "client_information" /\ ~ again' => "client_information" \notin asked
<1>1. PICK id \in Unasked :
        /\ Put(id, "none")
        /\ again' = (again \/ (parsers[client][id] = "client_information"
                                 /\ "client_information" \in asked))
  BY DEF ClientSends
<1> DEFINE name == parsers[client][id]
<1>2. /\ client \in States \ {"HANDSHAKE"} /\ id \in 1 .. 64 /\ id \in DOMAIN parsers[client]
      /\ name \in Inert \cup Effective
      /\ name \notin {"handshake", "login_acknowledged", "acknowledge_finish_config"}
      /\ name = "login_start" => "login_start" \notin asked
  BY UnaskedNames DEF Inert, Effective, States
<1>3. PICK p \in Packet : /\ p.name = name /\ p.id = id
                          /\ toServer' = Append(toServer, p) /\ asked' = asked \cup {p.name}
  BY <1>1, <1>2, PutFacts
<1>4. Before(p) = client
  BY <1>2, <1>3, UnaskedNames DEF Before, States
<1>5. Puts(p)
  BY <1>2, <1>3, <1>4 DEF Puts, Fits
<1>6. /\ ~ again' => ~ again
      /\ name = "client_information" /\ ~ again' => "client_information" \notin asked
      /\ again' \in BOOLEAN
  BY <1>1 DEF SessionTypeOK
<1>7. strayed' \in BOOLEAN /\ (~ strayed' => ~ strayed /\ ~ Pinged)
  BY DEF ClientSends, Pinged, SessionTypeOK
<1>8. QED
  BY <1>2, <1>3, <1>5, <1>6, <1>7 DEF ClientSends

\* The client reads what came of one reply: it is confused by it, answers it, or
\* goes on.
LEMMA ReceivesFacts ==
  ASSUME SessionTypeOK, ClientReceives
  PROVE  /\ client # "CONFUSED" /\ toClient # << >> /\ toClient' = Tail(toClient)
         /\ UNCHANGED <<serverVars, sent, strayed, again>>
         /\ \/ /\ client' = "CONFUSED" /\ UNCHANGED <<toServer, asked>>
               /\ Head(toClient) = "part"
                    \/ (Head(toClient) \in Replies /\ ReplyState(Head(toClient)) # client)
            \/ /\ UNCHANGED <<client, toServer, asked>>
               /\ Head(toClient) \notin {"login_success", "finish_config"}
            \/ /\ Head(toClient) = "login_success" /\ client = "LOGIN" /\ client' = "CONFIG"
               /\ \E p \in Packet : Puts(p) /\ p.name = "login_acknowledged"
            \/ /\ Head(toClient) = "finish_config" /\ client = "CONFIG" /\ client' = "PLAY"
               /\ \E p \in Packet : Puts(p) /\ p.name = "acknowledge_finish_config"
<1> DEFINE r == Head(toClient)
<1>0. r \in Replies \cup Remains
  BY ReadFacts DEF ClientReceives
<1>1. CASE r = "nothing" \/ r = "part" \/ (r \in Replies /\ ReplyState(r) # client)
  BY <1>1 DEF ClientReceives, Replies
<1>2. CASE ReplyState(r) = client /\ r = "login_success"
  <2>1. client = "LOGIN" /\ Put(4, "none") /\ client' = "CONFIG"
    BY <1>2 DEF ClientReceives, ReplyState
  <2>2. 4 \in DOMAIN parsers[client] /\ parsers[client][4] = "login_acknowledged"
    BY <2>1, NamedPackets
  <2>3. PICK p \in Packet : /\ p.name = "login_acknowledged" /\ p.id = 4
                            /\ toServer' = Append(toServer, p) /\ asked' = asked \cup {p.name}
    BY <2>1, <2>2, PutFacts DEF States, Effective
  <2>4. Puts(p)
    BY <2>1, <2>2, <2>3, TwoStates DEF Puts, Fits, States
  <2>5. QED
    BY <1>2, <2>1, <2>3, <2>4 DEF ClientReceives
<1>3. CASE ReplyState(r) = client /\ r = "finish_config"
  <2>1. client = "CONFIG" /\ Put(4, "none") /\ client' = "PLAY"
    BY <1>3 DEF ClientReceives, ReplyState
  <2>2. 4 \in DOMAIN parsers[client] /\ parsers[client][4] = "acknowledge_finish_config"
    BY <2>1, NamedPackets
  <2>3. PICK p \in Packet : /\ p.name = "acknowledge_finish_config" /\ p.id = 4
                            /\ toServer' = Append(toServer, p) /\ asked' = asked \cup {p.name}
    BY <2>1, <2>2, PutFacts DEF States, Effective
  <2>4. Puts(p)
    BY <2>1, <2>2, <2>3, TwoStates DEF Puts, Fits, States
  <2>5. QED
    BY <1>3, <2>1, <2>3, <2>4 DEF ClientReceives
<1>4. CASE r \in Replies /\ ReplyState(r) = client /\ r \notin {"login_success", "finish_config"}
  BY <1>4 DEF ClientReceives, Replies
<1>5. QED
  BY <1>0, <1>1, <1>2, <1>3, <1>4 DEF Remains
------------------------------------------------------------------------------
(* Each part of the invariant, step by step. *)

\* The three packets of the configuration, in the order they are sent.
LEMMA ConfigurationFacts ==
  /\ Configuration \in Seq(Replies) /\ Len(Configuration) = 3
  /\ Configuration[1] = "plugin_message_config" /\ Configuration[2] = "feature_flags"
  /\ Configuration[3] = "finish_config"
BY DEF Configuration, Replies

\* A reply of a single packet.
LEMMA OneReply ==
  ASSUME NEW r \in Replies
  PROVE  <<r>> \in Seq(Replies) /\ Len(<<r>>) = 1 /\ <<r>>[1] = r
OBVIOUS

\* What each handler replies with.
LEMMA HandlerReplies ==
  ASSUME SessionTypeOK, Server
  PROVE  \/ UNCHANGED <<toClient, unsent>>
         \/ \E rs \in Seq(Replies) : Reply(rs)
<1> USE ConfigurationFacts, OneReply DEF Replies
<1>1. CASE status_request
  BY <1>1 DEF status_request
<1>2. CASE ping_request
  BY <1>2 DEF ping_request
<1>3. CASE login_start
  BY <1>3 DEF login_start
<1>4. CASE client_information
  BY <1>4 DEF client_information
<1>5. CASE \/ handshake \/ login_acknowledged \/ acknowledge_finish_config
           \/ inert \/ Kick \/ OutOfTable
  BY <1>5 DEF handshake, login_acknowledged, acknowledge_finish_config, inert, Kick, OutOfTable
<1>6. QED
  BY <1>1, <1>2, <1>3, <1>4, <1>5 DEF Server

\* Every variable keeps its type.
LEMMA SessionTypeStep ==
  ASSUME SessionTypeOK, Next
  PROVE  SessionTypeOK'
<1> USE DEF SessionTypeOK, serverVars, clientVars
<1>1. CASE ClientHandshake
  <2>1. PICK p \in Packet : Puts(p) /\ p.name = "handshake"
    BY <1>1, HandshakeFacts
  <2>2. toServer' \in Seq(Packet) /\ asked' \subseteq Inert \cup Effective
    BY <2>1, MoreFacts DEF Puts, Packet
  <2>3. QED
    BY <1>1, <2>2, HandshakeFacts DEF States
<1>2. CASE ClientSends
  <2>1. PICK p \in Packet : Puts(p)
    BY <1>2, SendsFacts
  <2>2. toServer' \in Seq(Packet) /\ asked' \subseteq Inert \cup Effective
    BY <2>1, MoreFacts DEF Puts, Packet
  <2>3. sent' \in 0 .. MaxPackets
    BY <1>2, SendsFacts, SessionAssumption DEF SessionAssumption
  <2>4. QED
    BY <1>2, <2>2, <2>3, SendsFacts
<1>3. CASE ClientReceives
  <2>1. UNCHANGED <<toServer, asked>> \/ \E p \in Packet : Puts(p)
    BY <1>3, ReceivesFacts
  <2>2. toServer' \in Seq(Packet) /\ asked' \subseteq Inert \cup Effective
    BY <2>1, MoreFacts DEF Puts, Packet
  <2>3. toClient' \in Seq(Replies \cup Remains)
    BY <1>3, ReceivesFacts, ReadFacts
  <2>4. client' \in States \cup {"CONFUSED"}
    BY <1>3, ReceivesFacts DEF States
  <2>5. QED
    BY <1>3, <2>2, <2>3, <2>4, ReceivesFacts
<1>4. CASE Server
  <2>1. toClient' \in Seq(Replies \cup Remains) /\ unsent' \subseteq Replies \cup {"part"}
    BY <1>4, HandlerReplies, ReplyFacts
  <2>2. toServer' \in Seq(Packet)
    <3>1. toServer' = toServer \/ (toServer # << >> /\ toServer' = Tail(toServer))
      BY <1>4 DEF Server, handshake, status_request, ping_request, login_start, login_acknowledged,
                  client_information, acknowledge_finish_config, inert, Kick, OutOfTable, Take
    <3>2. QED
      BY <3>1, RestFacts
  <2>3. UNCHANGED clientVars
    BY <1>4 DEF Server, handshake, status_request, ping_request, login_start, login_acknowledged,
                client_information, acknowledge_finish_config, inert, Kick, OutOfTable
  <2>4. state' \in States
    BY <1>4 DEF Server, handshake, status_request, ping_request, login_start, login_acknowledged,
                client_information, acknowledge_finish_config, inert, Kick, OutOfTable, States
  <2>5. players' \in Nat
    BY <1>4 DEF Server, handshake, status_request, ping_request, login_start, login_acknowledged,
                client_information, acknowledge_finish_config, inert, Kick, OutOfTable
  <2>6. open' \in BOOLEAN /\ outside' \in BOOLEAN
    BY <1>4 DEF Server, handshake, status_request, ping_request, login_start, login_acknowledged,
                client_information, acknowledge_finish_config, inert, Kick, OutOfTable
  <2>7. misread' \in BOOLEAN
    BY <1>4 DEF Server, handshake, status_request, ping_request, login_start, login_acknowledged,
                client_information, acknowledge_finish_config, inert, Kick, OutOfTable, Take
  <2>8. QED
    BY <2>1, <2>2, <2>3, <2>4, <2>5, <2>6, <2>7
<1>5. QED
  BY <1>1, <1>2, <1>3, <1>4 DEF Next, Client

\* A client that keeps to the protocol after a step has kept to it before.
LEMMA StrayedStep ==
  ASSUME SessionTypeOK, FreshInv, Next
  PROVE  /\ FreshInv'
         /\ ~ strayed' => ~ strayed
         /\ ~ again' => ~ again
         /\ unsent \subseteq unsent'
<1>1. CASE ClientHandshake
  BY <1>1, HandshakeFacts DEF FreshInv, serverVars
<1>2. CASE ClientSends
  BY <1>2, SendsFacts DEF FreshInv, serverVars
<1>3. CASE ClientReceives
  BY <1>3, ReceivesFacts DEF FreshInv, serverVars
<1>4. CASE Server
  <2>1. unsent \subseteq unsent'
    BY <1>4, HandlerReplies, ReplyFacts
  <2>2. UNCHANGED clientVars
    BY <1>4 DEF Server, handshake, status_request, ping_request, login_start,
                login_acknowledged, client_information, acknowledge_finish_config, inert, Kick,
                OutOfTable
  <2>3. QED
    BY <2>1, <2>2 DEF FreshInv, clientVars
<1>5. QED
  BY <1>1, <1>2, <1>3, <1>4 DEF Next, Client

\* Nothing but a cut reply leaves part of one.
LEMMA PartStep ==
  ASSUME SessionTypeOK, PartInv, Next
  PROVE  PartInv'
<1>1. CASE ClientHandshake
  BY <1>1, HandshakeFacts DEF PartInv, ToClient, serverVars
<1>2. CASE ClientSends
  BY <1>2, SendsFacts DEF PartInv, ToClient, serverVars
<1>3. CASE ClientReceives
  BY <1>3, ReceivesFacts, ReadFacts DEF PartInv, serverVars
<1>4. CASE Server
  BY <1>4, HandlerReplies, ReplyFacts DEF PartInv, ToClient
<1>5. QED
  BY <1>1, <1>2, <1>3, <1>4 DEF Next, Client

\* What the server does with a packet that was meant for it: the handler of its name.
LEMMA ServerFacts ==
  ASSUME SessionTypeOK, ChainInv, Server
  PROVE  /\ toServer # << >> /\ toServer' = Tail(toServer)
         /\ UNCHANGED <<clientVars, misread, outside>>
         /\ state' = After(Head(toServer))
         /\ LET p == Head(toServer)
            IN  \/ p.name = "handshake" /\ UNCHANGED <<players, toClient, unsent>>
                \/ p.name = "status_request" /\ Reply(<<"status_response">>) /\ UNCHANGED players
                \/ p.name = "ping_request" /\ Reply(<<"pong_response">>) /\ UNCHANGED players
                \/ p.name = "login_start" /\ Reply(<<"login_success">>) /\ players' = players + 1
                \/ p.name = "login_acknowledged" /\ UNCHANGED <<players, toClient, unsent>>
                \/ p.name = "client_information" /\ Reply(Configuration) /\ UNCHANGED players
                \/ /\ p.name = "acknowledge_finish_config"
                   /\ UNCHANGED <<players, toClient, unsent>>
                \/ p.name \in Inert /\ UNCHANGED <<players, toClient, unsent>>
<1>1. CASE handshake
  <2>1. Take("handshake")
    BY <1>1 DEF handshake
  <2>2. /\ toServer # << >> /\ toServer' = Tail(toServer) /\ misread' = misread
        /\ Head(toServer).name = "handshake" /\ Head(toServer) \in Packet
        /\ Before(Head(toServer)) = state
    BY <2>1, TakeOwn, TakeFits
  <2>3. Head(toServer).want \in States
    BY <2>2, TakeFits DEF ChainInv, States
  <2>4. QED
    BY <1>1, <2>2, <2>3, TwoStates DEF handshake, NextStates
<1>2. CASE status_request
  <2>1. Take("status_request")
    BY <1>2 DEF status_request
  <2>2. QED
    BY <1>2, <2>1, TakeOwn, TwoStates DEF status_request
<1>3. CASE ping_request
  <2>1. Take("ping_request")
    BY <1>3 DEF ping_request
  <2>2. QED
    BY <1>3, <2>1, TakeOwn, TwoStates DEF ping_request
<1>4. CASE login_start
  <2>1. Take("login_start")
    BY <1>4 DEF login_start
  <2>2. QED
    BY <1>4, <2>1, TakeOwn, TwoStates DEF login_start
<1>5. CASE login_acknowledged
  <2>1. Take("login_acknowledged")
    BY <1>5 DEF login_acknowledged
  <2>2. QED
    BY <1>5, <2>1, TakeOwn, TwoStates DEF login_acknowledged
<1>6. CASE client_information
  <2>1. Take("client_information")
    BY <1>6 DEF client_information
  <2>2. QED
    BY <1>6, <2>1, TakeOwn, TwoStates DEF client_information
<1>7. CASE acknowledge_finish_config
  <2>1. Take("acknowledge_finish_config")
    BY <1>7 DEF acknowledge_finish_config
  <2>2. QED
    BY <1>7, <2>1, TakeOwn, TwoStates DEF acknowledge_finish_config
<1>8. CASE inert
  <2>1. PICK h \in Inert : Take(h)
    BY <1>8 DEF inert
  <2>2. /\ toServer # << >> /\ toServer' = Tail(toServer) /\ misread' = misread
        /\ Head(toServer).name \in Inert /\ Head(toServer) \in Packet
        /\ Before(Head(toServer)) = state
    BY <2>1, TakeOwn, TakeFits
  <2>3. QED
    BY <1>8, <2>2, TwoStates DEF inert
<1>9. ~ Kick
  BY TakeOwn DEF Kick
<1>10. ~ OutOfTable
  BY TakeFits DEF OutOfTable
<1>11. QED
  BY <1>1, <1>2, <1>3, <1>4, <1>5, <1>6, <1>7, <1>8, <1>9, <1>10 DEF Server

\* The chain from the server's state to the client's is kept.
LEMMA ChainStep ==
  ASSUME SessionTypeOK, FreshInv, ChainInv, Next, ~ strayed'
  PROVE  ChainInv'
<1>1. CASE ClientHandshake
  <2>1. PICK p \in Packet : Puts(p) /\ p.name = "handshake" /\ p.want \in {"STATUS", "LOGIN"}
                             /\ client' = p.want
    BY <1>1, HandshakeFacts
  <2>2. ~ Pinged
    BY <1>1, HandshakeFacts DEF ChainInv
  <2>3. QED
    BY <1>1, <2>1, <2>2, HandshakeFacts, TwoStates, ChainPut DEF Puts
<1>2. CASE ClientSends
  <2>1. PICK p \in Packet :
          Puts(p) /\ p.name \notin {"handshake", "login_acknowledged", "acknowledge_finish_config"}
    BY <1>2, SendsFacts
  <2>2. p.name # "ping_request" => After(p) = Before(p)
    BY <2>1 DEF After
  <2>3. QED
    BY <1>2, <2>1, <2>2, SendsFacts, ChainPut DEF Puts
<1>3. CASE ClientReceives
  <2>1. CASE UNCHANGED <<toServer, asked>> /\ client' \in {client, "CONFUSED"}
    BY <1>3, <2>1, ReceivesFacts DEF ChainInv, ToServer, End, Pinged, serverVars
  <2>2. CASE client \in {"LOGIN", "CONFIG"}
             /\ \E p \in Packet : /\ Puts(p) /\ client' = After(p)
                                  /\ p.name \in {"login_acknowledged", "acknowledge_finish_config"}
    <3>1. ~ Pinged
      BY <2>2 DEF ChainInv
    <3>2. QED
      BY <1>3, <2>2, <3>1, ReceivesFacts, ChainPut DEF Puts
  <2>3. QED
    BY <1>3, <2>1, <2>2, ReceivesFacts, TwoStates
<1>4. CASE Server
  BY <1>4, ServerFacts, ChainTake DEF clientVars
<1>5. QED
  BY <1>1, <1>2, <1>3, <1>4 DEF Next, Client

\* A new packet of an unlogged or of a logged client keeps the player's account.
LEMMA PlayerPut ==
  ASSUME SessionTypeOK, ChainInv, PlayerInv, NEW p \in Packet, Puts(p),
         UNCHANGED <<state, players>>,
         p.name = "login_start" => "login_start" \notin asked,
         p.name = "login_acknowledged" \/ client' # client =>
           players = 1 \/ (client' \notin {"CONFIG", "PLAY"} /\ p.name # "login_acknowledged"),
         \A i \in ToClient' : toClient'[i] = "login_success" =>
           \E j \in ToClient : toClient[j] = "login_success"
  PROVE  PlayerInv'
<1>1. \A i \in ToServer' : \/ i \in ToServer /\ toServer'[i] = toServer[i]
                           \/ i = Len(toServer) + 1 /\ toServer'[i] = p
  BY MoreFacts DEF Puts
<1>2. Len(toServer) \in Nat /\ ToServer = 1 .. Len(toServer)
  BY EmptyFacts DEF SessionTypeOK, ToServer
<1>3. players' \in {0, 1} /\ (players' = 1 => "login_start" \in asked')
  BY DEF PlayerInv, Puts
<1>4. p.name = "login_start" => players = 0 /\ \A i \in ToServer : toServer[i].name # "login_start"
  BY DEF PlayerInv, ChainInv
<1>5. \A i \in ToServer' : toServer'[i].name = "login_start" => players' = 0
  BY <1>1, <1>4 DEF PlayerInv
<1>6. \A i, j \in ToServer' :
        toServer'[i].name = "login_start" /\ toServer'[j].name = "login_start" => i = j
  BY <1>1, <1>2, <1>4 DEF PlayerInv
<1>7. LoggedIn' => LoggedIn \/ players = 1
  BY <1>1 DEF LoggedIn, Puts
<1>8. QED
  BY <1>3, <1>5, <1>6, <1>7 DEF PlayerInv

\* login_start makes the player, and nothing makes a second one.
LEMMA PlayerStep ==
  ASSUME SessionTypeOK, FreshInv, ChainInv, PlayerInv, Next, ~ strayed'
  PROVE  PlayerInv'
<1>1. CASE ClientHandshake
  <2>1. PICK p \in Packet : Puts(p) /\ p.name = "handshake"
    BY <1>1, HandshakeFacts
  <2>2. UNCHANGED <<state, players, toClient>> /\ client' \in {"STATUS", "LOGIN"}
    BY <1>1, HandshakeFacts DEF serverVars
  <2>3. QED
    BY <2>1, <2>2, PlayerPut DEF ToClient
<1>2. CASE ClientSends
  <2>1. PICK p \in Packet : /\ Puts(p) /\ p.name # "login_acknowledged"
                            /\ p.name = "login_start" => "login_start" \notin asked
    BY <1>2, SendsFacts
  <2>2. UNCHANGED <<state, players, client, toClient>>
    BY <1>2, SendsFacts DEF serverVars
  <2>3. QED
    BY <2>1, <2>2, PlayerPut DEF ToClient
<1>3. CASE ClientReceives
  <2>1. UNCHANGED <<state, players>> /\ toClient # << >> /\ toClient' = Tail(toClient)
    BY <1>3, ReceivesFacts DEF serverVars
  <2>2. \A i \in ToClient' : toClient'[i] = "login_success" =>
          \E j \in ToClient : toClient[j] = "login_success"
    BY <2>1, ReadFacts
  <2>3. CASE UNCHANGED <<toServer, asked>> /\ client' \in {client, "CONFUSED"}
    <3>1. LoggedIn' => LoggedIn
      BY <2>1, <2>2, <2>3 DEF LoggedIn, ToServer
    <3>2. QED
      BY <2>1, <2>3, <3>1 DEF PlayerInv, ToServer
  <2>4. CASE Head(toClient) = "login_success" \/ client = "CONFIG"
    <3>1. LoggedIn
      BY <2>1, <2>4, ReadFacts DEF LoggedIn
    <3>2. players = 1
      BY <3>1 DEF PlayerInv
    <3>3. CASE \E p \in Packet : /\ Puts(p)
                                 /\ p.name \in {"login_acknowledged", "acknowledge_finish_config"}
      BY <2>1, <2>2, <3>2, <3>3, PlayerPut
    <3>4. QED
      BY <1>3, <2>3, <3>3, ReceivesFacts
  <2>5. QED
    BY <1>3, <2>3, <2>4, ReceivesFacts
<1>4. CASE Server
  <2>1. /\ toServer # << >> /\ toServer' = Tail(toServer) /\ UNCHANGED <<client, asked>>
        /\ state' = After(Head(toServer))
    BY <1>4, ServerFacts DEF clientVars
  <2>2. /\ 1 \in ToServer /\ Head(toServer) = toServer[1] /\ Head(toServer) \in Packet
        /\ \A i \in ToServer' : i + 1 \in ToServer /\ i + 1 # 1 /\ toServer'[i] = toServer[i + 1]
        /\ ToServer \subseteq Int /\ ToServer' \subseteq Int
    BY <2>1, RestFacts
  <2>3. \A i, j \in ToServer' :
          toServer'[i].name = "login_start" /\ toServer'[j].name = "login_start" => i = j
    BY <2>2 DEF PlayerInv
  <2>4. state' \in {"CONFIG", "PLAY"} => LoggedIn
    <3>1. Before(Head(toServer)) = state /\ Head(toServer).name \in Effective \cup Inert
      BY <2>1, TakeFits DEF Packet
    <3>2. CASE Head(toServer).name = "handshake"
      BY <2>1, <2>2, <3>2, TwoStates DEF ChainInv
    <3>3. CASE Head(toServer).name # "handshake"
      <4>1. After(Head(toServer)) \in {"CONFIG", "PLAY"} =>
              \/ Before(Head(toServer)) \in {"CONFIG", "PLAY"}
              \/ Head(toServer).name = "login_acknowledged"
        BY <2>2, <3>1, <3>3, TwoStates DEF Effective
      <4>2. QED
        BY <2>1, <2>2, <4>1 DEF LoggedIn
    <3>4. QED
      BY <3>2, <3>3
  <2>5. CASE Head(toServer).name = "login_start"
    <3>1. players = 0 /\ players' = 1 /\ "login_start" \in asked
      BY <1>4, <2>2, <2>5, ServerFacts DEF PlayerInv, ChainInv, Inert
    <3>2. \A i \in ToServer' : toServer'[i].name # "login_start"
      BY <2>2, <2>5 DEF PlayerInv
    <3>3. QED
      BY <2>1, <2>3, <3>1, <3>2 DEF PlayerInv
  <2>6. CASE Head(toServer).name # "login_start"
    <3>1. players' = players
      BY <1>4, <2>6, ServerFacts
    <3>2. \A i \in ToClient' : toClient'[i] = "login_success" =>
            \E j \in ToClient : toClient[j] = "login_success"
      <4>1. \/ UNCHANGED toClient
            \/ Reply(<<"status_response">>) \/ Reply(<<"pong_response">>) \/ Reply(Configuration)
        BY <1>4, <2>6, ServerFacts
      <4>2. ASSUME NEW rs \in Seq(Replies), Reply(rs),
                   \A k \in 1 .. Len(rs) : rs[k] # "login_success"
            PROVE  \A i \in ToClient' : toClient'[i] = "login_success" =>
                     \E j \in ToClient : toClient[j] = "login_success"
        BY <4>2, ReplyFacts DEF Adds, Remains
      <4>3. /\ "status_response" \in Replies /\ "pong_response" \in Replies
        BY DEF Replies
      <4>4. /\ \A k \in 1 .. 1 : <<"status_response">>[k] # "login_success"
            /\ \A k \in 1 .. 1 : <<"pong_response">>[k] # "login_success"
        OBVIOUS
      <4>5. \A k \in 1 .. 3 : Configuration[k] # "login_success"
        BY ConfigurationFacts
      <4>6. UNCHANGED toClient => ToClient' = ToClient
        BY DEF ToClient
      <4>7. QED
        BY <4>1, <4>2, <4>3, <4>4, <4>5, <4>6, OneReply, ConfigurationFacts
    <3>3. LoggedIn' => LoggedIn
      BY <2>1, <2>2, <2>4, <3>2 DEF LoggedIn
    <3>4. QED
      BY <2>1, <2>2, <2>3, <3>1, <3>3 DEF PlayerInv
  <2>7. QED
    BY <2>5, <2>6
<1>5. QED
  BY <1>1, <1>2, <1>3, <1>4 DEF Next, Client

\* A packet that joins the queue leaves those before it where they are.
LEMMA MoreKept ==
  ASSUME SessionTypeOK, NEW p \in Packet, toServer' = Append(toServer, p)
  PROVE  /\ \E i \in ToServer' : toServer'[i] = p
         /\ \A i \in ToServer : i \in ToServer' /\ toServer'[i] = toServer[i]
BY AppendFacts DEF SessionTypeOK, ToServer

\* Of the packets under way, only the first is gone when it was handled.
LEMMA RestKept ==
  ASSUME SessionTypeOK, toServer # << >>, toServer' = Tail(toServer)
  PROVE  \A i \in ToServer : \/ toServer[i] = Head(toServer)
                             \/ i - 1 \in ToServer' /\ toServer'[i - 1] = toServer[i]
BY TailFacts DEF SessionTypeOK, ToServer

\* Of the replies under way, only the first is gone when the client has read it.
LEMMA ReadKept ==
  ASSUME SessionTypeOK, toClient # << >>, toClient' = Tail(toClient)
  PROVE  \A i \in ToClient : \/ toClient[i] = Head(toClient)
                             \/ i - 1 \in ToClient' /\ toClient'[i - 1] = toClient[i]
BY TailFacts DEF SessionTypeOK, ToClient

\* No answer that a client waits for is lost unrecorded, and none is read by a
\* client that goes on waiting.
LEMMA PendingStep ==
  ASSUME SessionTypeOK, ChainInv, PendingInv, Next
  PROVE  PendingInv'
<1>1. CASE ClientHandshake
  <2>1. PICK p \in Packet : Puts(p) /\ p.name = "handshake"
    BY <1>1, HandshakeFacts
  <2>2. client = "HANDSHAKE" /\ UNCHANGED <<toClient, unsent>>
    BY <1>1, HandshakeFacts DEF serverVars
  <2>3. /\ \A i \in ToServer : i \in ToServer' /\ toServer'[i] = toServer[i]
        /\ asked' = asked \cup {"handshake"} /\ ToClient' = ToClient
    BY <2>1, <2>2, MoreKept DEF Puts, ToClient
  <2>4. LoginUnderWay => LoginUnderWay'
    BY <2>2, <2>3 DEF LoginUnderWay
  <2>5. ConfigUnderWay => ConfigUnderWay'
    BY <2>2, <2>3 DEF ConfigUnderWay
  <2>6. QED
    BY <2>2, <2>3, <2>4, <2>5 DEF PendingInv
<1>2. CASE ClientSends
  <2>1. PICK p \in Packet : Puts(p)
    BY <1>2, SendsFacts
  <2>2. UNCHANGED <<client, toClient, unsent>>
    BY <1>2, SendsFacts DEF serverVars
  <2>3. /\ \E i \in ToServer' : toServer'[i] = p
        /\ \A i \in ToServer : i \in ToServer' /\ toServer'[i] = toServer[i]
        /\ asked' = asked \cup {p.name} /\ ToClient' = ToClient
    BY <2>1, <2>2, MoreKept DEF Puts, ToClient
  <2>4. p.name = "login_start" \/ LoginUnderWay => LoginUnderWay'
    BY <2>2, <2>3 DEF LoginUnderWay
  <2>5. p.name = "client_information" \/ ConfigUnderWay => ConfigUnderWay'
    BY <2>2, <2>3 DEF ConfigUnderWay
  <2>6. QED
    BY <2>2, <2>3, <2>4, <2>5 DEF PendingInv
<1>3. CASE ClientReceives
  <2> DEFINE r == Head(toClient)
  <2>1. toClient # << >> /\ toClient' = Tail(toClient) /\ unsent' = unsent
    BY <1>3, ReceivesFacts DEF serverVars
  <2>2. \A i \in ToClient : toClient[i] = r \/ \E j \in ToClient' : toClient'[j] = toClient[i]
    BY <2>1, ReadKept
  <2>3. /\ \A i \in ToServer : i \in ToServer' /\ toServer'[i] = toServer[i]
        /\ asked' \cap {"login_start", "client_information"} \subseteq asked
    <3>1. UNCHANGED <<toServer, asked>>
          \/ \E p \in Packet : /\ Puts(p)
                               /\ p.name \in {"login_acknowledged", "acknowledge_finish_config"}
      BY <1>3, ReceivesFacts
    <3>2. CASE UNCHANGED <<toServer, asked>>
      BY <3>2 DEF ToServer
    <3>3. CASE \E p \in Packet : /\ Puts(p)
                                 /\ p.name \in {"login_acknowledged", "acknowledge_finish_config"}
      <4>1. PICK p \in Packet : /\ Puts(p)
                               /\ p.name \in {"login_acknowledged", "acknowledge_finish_config"}
        BY <3>3
      <4>2. QED
        BY <4>1, MoreKept DEF Puts
    <3>4. QED
      BY <3>1, <3>2, <3>3
  <2>4. LoginUnderWay => r = "login_success" \/ LoginUnderWay'
    BY <2>1, <2>2, <2>3 DEF LoginUnderWay
  <2>5. ConfigUnderWay => r = "finish_config" \/ ConfigUnderWay'
    BY <2>1, <2>2, <2>3 DEF ConfigUnderWay
  <2>6. /\ client \notin {"HANDSHAKE", "LOGIN"} \/ r = "login_success"
             => client' \notin {"HANDSHAKE", "LOGIN"}
        /\ client \in {"PLAY", "CONFUSED"} \/ r = "finish_config"
             => client' \in {"PLAY", "CONFUSED"}
    BY <1>3, ReceivesFacts
  <2>7. QED
    BY <2>3, <2>4, <2>5, <2>6 DEF PendingInv
<1>4. CASE Server
  <2> DEFINE p == Head(toServer)
  <2>1. toServer # << >> /\ toServer' = Tail(toServer) /\ UNCHANGED <<client, asked>>
    BY <1>4, ServerFacts DEF clientVars
  <2>2. \A i \in ToServer : toServer[i] = p \/ \E j \in ToServer' : toServer'[j] = toServer[i]
    BY <2>1, RestKept
  <2>3. /\ \A i \in ToClient : \E j \in ToClient' : toClient'[j] = toClient[i]
        /\ unsent \subseteq unsent'
        /\ p.name = "login_start" =>
             (\E i \in ToClient' : toClient'[i] = "login_success") \/ "login_success" \in unsent'
        /\ p.name = "client_information" =>
             (\E i \in ToClient' : toClient'[i] = "finish_config") \/ "finish_config" \in unsent'
    <3>1. \/ UNCHANGED <<toClient, unsent>> /\ p.name \notin {"login_start", "client_information"}
          \/ \E rs \in Seq(Replies) :
               /\ Reply(rs)
               /\ p.name = "login_start" => \E k \in 1 .. Len(rs) : rs[k] = "login_success"
               /\ p.name = "client_information" => \E k \in 1 .. Len(rs) : rs[k] = "finish_config"
      <4>1. CASE p.name = "login_start"
        <5>1. Reply(<<"login_success">>)
          BY <1>4, <4>1, ServerFacts DEF Inert
        <5>2. PICK rs \in Seq(Replies) : Reply(rs) /\ Len(rs) = 1 /\ rs[1] = "login_success"
          BY <5>1, OneReply DEF Replies
        <5>3. \E k \in 1 .. Len(rs) : rs[k] = "login_success"
          BY <5>2
        <5>4. QED
          BY <4>1, <5>2, <5>3
      <4>2. CASE p.name = "client_information"
        <5>1. Reply(Configuration)
          BY <1>4, <4>2, ServerFacts DEF Inert
        <5>2. \E k \in 1 .. Len(Configuration) : Configuration[k] = "finish_config"
          BY ConfigurationFacts
        <5>3. QED
          BY <4>2, <5>1, <5>2, ConfigurationFacts
      <4>3. CASE p.name \notin {"login_start", "client_information"}
        <5>1. UNCHANGED <<toClient, unsent>> \/ \E rs \in Seq(Replies) : Reply(rs)
          BY <1>4, HandlerReplies
        <5>2. QED
          BY <4>3, <5>1
      <4>4. QED
        BY <4>1, <4>2, <4>3
    <3>2. CASE UNCHANGED <<toClient, unsent>> /\ p.name \notin {"login_start", "client_information"}
      BY <3>2 DEF ToClient
    <3>3. ASSUME NEW rs \in Seq(Replies), Reply(rs)
          PROVE  /\ \A k \in 1 .. Len(rs) : \/ \E i \in ToClient' : toClient'[i] = rs[k]
                                           \/ rs[k] \in unsent'
                 /\ \A i \in ToClient : \E j \in ToClient' : toClient'[j] = toClient[i]
                 /\ unsent \subseteq unsent'
      BY <3>3, ReplyFacts
    <3>4. QED
      BY <3>1, <3>2, <3>3
  <2>4. LoginUnderWay => LoginUnderWay'
    BY <2>2, <2>3 DEF LoginUnderWay
  <2>5. ConfigUnderWay => ConfigUnderWay'
    BY <2>2, <2>3 DEF ConfigUnderWay
  <2>6. QED
    BY <2>1, <2>4, <2>5 DEF PendingInv
<1>5. QED
  BY <1>1, <1>2, <1>3, <1>4 DEF Next, Client

\* A client that reads a reply finds one for its state.
LEMMA RepliesFit ==
  ASSUME SessionTypeOK, ReplyInv, toClient # << >>, Head(toClient) \in Replies
  PROVE  ReplyState(Head(toClient)) = client
<1>1. 1 \in ToClient /\ Head(toClient) = toClient[1]
  BY TailFacts DEF SessionTypeOK, ToClient
<1>2. CASE Head(toClient) \in {"status_response", "pong_response"}
  BY <1>1, <1>2 DEF ReplyInv, AsksStatus, ReplyState
<1>3. CASE Head(toClient) = "login_success"
  BY <1>1, <1>3 DEF ReplyInv, ReplyState
<1>4. CASE Head(toClient) \in ConfigReplies
  BY <1>1, <1>4 DEF ReplyInv, ReplyState, ConfigReplies
<1>5. QED
  BY <1>1, <1>2, <1>3, <1>4 DEF Replies, ConfigReplies

\* One packet more, and no reply more.
LEMMA ReplyPut ==
  ASSUME SessionTypeOK, ChainInv, ReplyInv, NEW p \in Packet, Puts(p), state' = state,
         client' \in States, client' # client => ~ AsksStatus,
         "STATUS" \in {Before(p), After(p)} => client' = "STATUS",
         p.name = "login_start" => client' = "LOGIN",
         p.name = "client_information" => client' = "CONFIG" /\ "client_information" \notin asked,
         \A i \in ToServer : toServer[i].name = "login_start" => client' = "LOGIN",
         \A i \in ToServer : toServer[i].name = "client_information" => client' = "CONFIG",
         \A i \in ToClient' : /\ toClient'[i] = "login_success" => client' = "LOGIN"
                              /\ toClient'[i] \in ConfigReplies => client' = "CONFIG",
         \/ UNCHANGED toClient
         \/ toClient # << >> /\ toClient' = Tail(toClient)
  PROVE  ReplyInv'
<1>1. \A i \in ToServer' : \/ i \in ToServer /\ toServer'[i] = toServer[i]
                           \/ i = Len(toServer) + 1 /\ toServer'[i] = p
  BY MoreFacts DEF Puts
<1>2. Len(toServer) \in Nat /\ ToServer = 1 .. Len(toServer)
  BY EmptyFacts DEF SessionTypeOK, ToServer
<1>3. \E d \in {0, 1} : /\ Len(toClient) \in Nat /\ Len(toClient') = Len(toClient) - d
                        /\ ToClient \subseteq Int /\ ToClient' \subseteq Int
                        /\ \A i \in ToClient' : i + d \in ToClient /\ toClient'[i] = toClient[i + d]
  <2>1. CASE UNCHANGED toClient
    BY <2>1, EmptyFacts DEF ToClient, SessionTypeOK
  <2>2. CASE toClient # << >> /\ toClient' = Tail(toClient)
    BY <2>2, ReadFacts
  <2>3. QED
    BY <2>1, <2>2
<1>4. client' # "CONFUSED"
  BY DEF States
<1>5. AsksStatus' => client' = "STATUS"
  BY <1>1, <1>3 DEF AsksStatus, ReplyInv
<1>6. /\ \A i, j \in ToClient' :
           toClient'[i] = "login_success" /\ toClient'[j] = "login_success" => i = j
      /\ \A i \in ToClient' : toClient'[i] = "finish_config" => i = Len(toClient')
  <2>1. PICK d \in {0, 1} :
          /\ Len(toClient) \in Nat /\ Len(toClient') = Len(toClient) - d
          /\ ToClient' \subseteq Int
          /\ \A i \in ToClient' : i + d \in ToClient /\ toClient'[i] = toClient[i + d]
    BY <1>3
  <2>2. ASSUME NEW i \in ToClient', NEW j \in ToClient',
               toClient'[i] = "login_success", toClient'[j] = "login_success"
        PROVE  i = j
    <3>1. i + d \in ToClient /\ toClient[i + d] = "login_success"
      BY <2>1, <2>2
    <3>2. j + d \in ToClient /\ toClient[j + d] = "login_success"
      BY <2>1, <2>2
    <3>3. i + d = j + d
      BY <3>1, <3>2 DEF ReplyInv
    <3>4. i \in Int /\ j \in Int
      BY <2>1
    <3>5. QED
      BY <3>3, <3>4
  <2>3. ASSUME NEW i \in ToClient', toClient'[i] = "finish_config"
        PROVE  i = Len(toClient')
    <3>1. i + d = Len(toClient)
      BY <2>1, <2>3 DEF ReplyInv
    <3>2. i \in Int
      BY <2>1
    <3>3. QED
      BY <2>1, <3>1, <3>2
  <2>4. QED
    BY <2>2, <2>3
<1>7. \A i \in ToServer' : toServer'[i].name = "login_start" => client' = "LOGIN"
  BY <1>1
<1>8. \A i \in ToServer' : toServer'[i].name = "client_information" =>
        client' = "CONFIG" /\ \A j \in ToClient' : toClient'[j] \notin ConfigReplies
  BY <1>1, <1>3 DEF ReplyInv
<1>9. \A i, j \in ToServer' :
        toServer'[i].name = "client_information" /\ toServer'[j].name = "client_information" => i = j
  BY <1>1, <1>2 DEF ReplyInv, ChainInv
<1>10. \A i \in ToClient' : toClient'[i] \in ConfigReplies =>
         client' = "CONFIG" /\ "client_information" \in asked'
  BY <1>3 DEF ReplyInv, Puts
<1>11. QED
  BY <1>4, <1>5, <1>6, <1>7, <1>8, <1>9, <1>10 DEF ReplyInv

\* The client reads a reply without sending anything.
LEMMA ReplyRead ==
  ASSUME SessionTypeOK, ReplyInv, toClient # << >>, toClient' = Tail(toClient),
         UNCHANGED <<state, client, toServer, asked>>
  PROVE  ReplyInv'
<1>1. /\ Len(toClient) \in Nat /\ Len(toClient') = Len(toClient) - 1
      /\ ToClient \subseteq Int /\ ToClient' \subseteq Int
      /\ \A i \in ToClient' : i + 1 \in ToClient /\ toClient'[i] = toClient[i + 1]
  BY ReadFacts
<1>2. ToServer' = ToServer
  BY DEF ToServer
<1>3. AsksStatus' => AsksStatus
  BY <1>1, <1>2 DEF AsksStatus
<1>4. ASSUME NEW i \in ToClient', NEW j \in ToClient',
             toClient'[i] = "login_success", toClient'[j] = "login_success"
      PROVE  i = j
  <2>1. i + 1 = j + 1
    BY <1>1, <1>4 DEF ReplyInv
  <2>2. QED
    BY <1>1, <2>1
<1>5. ASSUME NEW i \in ToClient', toClient'[i] = "finish_config"
      PROVE  i = Len(toClient')
  <2>1. i + 1 = Len(toClient)
    BY <1>1, <1>5 DEF ReplyInv
  <2>2. i \in Int /\ Len(toClient) - 1 \in Int
    BY <1>1
  <2>3. i = Len(toClient) - 1
    BY <2>1, <2>2
  <2>4. QED
    BY <1>1, <2>3
<1>6. /\ \A i \in ToClient' : toClient'[i] = "login_success" => client = "LOGIN"
      /\ \A i \in ToClient' : toClient'[i] \in ConfigReplies =>
           client = "CONFIG" /\ "client_information" \in asked
      /\ \A i \in ToServer : toServer[i].name = "client_information" =>
           client = "CONFIG" /\ \A j \in ToClient' : toClient'[j] \notin ConfigReplies
  BY <1>1 DEF ReplyInv
<1>7. QED
  BY <1>2, <1>3, <1>4, <1>5, <1>6 DEF ReplyInv

\* A handler takes its packet and adds its replies, which may be none.
LEMMA ReplyHandle ==
  ASSUME SessionTypeOK, ReplyInv, toServer # << >>, toServer' = Tail(toServer),
         UNCHANGED <<client, asked>>, state' = After(Head(toServer)),
         NEW rs \in Seq(Replies), Adds(rs),
         \A k \in 1 .. Len(rs) :
           /\ rs[k] \in {"status_response", "pong_response"} => AsksStatus
           /\ rs[k] = "login_success" =>
                /\ client = "LOGIN" /\ Len(rs) = 1
                /\ \A i \in ToClient : toClient[i] # "login_success"
           /\ rs[k] \in ConfigReplies => Head(toServer).name = "client_information"
           /\ rs[k] = "finish_config" => k = Len(rs)
           /\ \A i \in ToClient : toClient[i] # "finish_config",
         Head(toServer).name = "client_information" => "client_information" \in asked
  PROVE  ReplyInv'
<1>1. /\ 1 \in ToServer /\ Head(toServer) = toServer[1]
      /\ \A i \in ToServer' : i + 1 \in ToServer /\ i + 1 # 1 /\ toServer'[i] = toServer[i + 1]
      /\ ToServer \subseteq Int /\ ToServer' \subseteq Int
  BY RestFacts
<1>2. /\ Len(toClient') = Len(toClient) + Len(rs) /\ Len(toClient) \in Nat /\ Len(rs) \in Nat
      /\ \A i \in ToClient' : \/ i \in ToClient /\ toClient'[i] = toClient[i]
                              \/ /\ i - Len(toClient) \in 1 .. Len(rs)
                                 /\ toClient'[i] \in {rs[i - Len(toClient)]} \cup Remains
      /\ ToClient = 1 .. Len(toClient) /\ ToClient' = 1 .. Len(toClient')
  BY EmptyFacts DEF ToClient, Adds, SessionTypeOK
<1>0. \A r \in Remains : /\ r \notin {"status_response", "pong_response", "login_success"}
                        /\ r \notin ConfigReplies /\ r # "finish_config"
  BY DEF Remains, ConfigReplies
<1>3. AsksStatus' => AsksStatus
  BY <1>0, <1>1, <1>2 DEF AsksStatus
<1>4. \A i \in ToClient' : toClient'[i] = "login_success" => client' = "LOGIN"
  BY <1>0, <1>2 DEF ReplyInv
<1>5. ASSUME NEW i \in ToClient', NEW j \in ToClient',
             toClient'[i] = "login_success", toClient'[j] = "login_success"
      PROVE  i = j
  <2>1. ASSUME NEW k \in ToClient', toClient'[k] = "login_success"
        PROVE  \/ k \in ToClient /\ toClient[k] = "login_success"
               \/ /\ k = Len(toClient) + 1
                  /\ \A l \in ToClient : toClient[l] # "login_success"
    <3>1. CASE k \in ToClient /\ toClient'[k] = toClient[k]
      BY <2>1, <3>1
    <3>2. CASE /\ k - Len(toClient) \in 1 .. Len(rs)
               /\ toClient'[k] = rs[k - Len(toClient)]
      <4>1. PICK m \in 1 .. Len(rs) : m = k - Len(toClient) /\ rs[m] = "login_success"
        BY <2>1, <3>2
      <4>2. Len(rs) = 1 /\ \A l \in ToClient : toClient[l] # "login_success"
        BY <4>1
      <4>3. k - Len(toClient) = 1 /\ k \in Int
        BY <1>2, <4>1, <4>2
      <4>4. QED
        BY <1>2, <4>2, <4>3
    <3>3. QED
      BY <1>0, <1>2, <2>1, <3>1, <3>2
  <2>2. QED
    BY <1>5, <2>1 DEF ReplyInv
<1>6. \A i \in ToServer' : toServer'[i].name = "login_start" => client' = "LOGIN"
  BY <1>1 DEF ReplyInv
<1>7. ASSUME NEW i \in ToServer', toServer'[i].name = "client_information"
      PROVE  client' = "CONFIG" /\ \A j \in ToClient' : toClient'[j] \notin ConfigReplies
  <2>1. Head(toServer).name # "client_information"
    BY <1>1, <1>7 DEF ReplyInv
  <2>2. client = "CONFIG" /\ \A j \in ToClient : toClient[j] \notin ConfigReplies
    BY <1>1, <1>7 DEF ReplyInv
  <2>3. QED
    BY <1>0, <1>2, <2>1, <2>2
<1>8. ASSUME NEW i \in ToServer', NEW j \in ToServer',
             toServer'[i].name = "client_information", toServer'[j].name = "client_information"
      PROVE  i = j
  <2>1. PICK k \in ToServer, l \in ToServer : k = i + 1 /\ l = j + 1
    BY <1>1
  <2>2. toServer[k].name = "client_information" /\ toServer[l].name = "client_information"
    BY <1>1, <1>8, <2>1
  <2>3. k = l
    BY <2>2 DEF ReplyInv
  <2>4. QED
    BY <1>1, <2>1, <2>3
<1>9. ASSUME NEW i \in ToClient', toClient'[i] \in ConfigReplies
      PROVE  client' = "CONFIG" /\ "client_information" \in asked'
  <2>1. CASE i \in ToClient /\ toClient'[i] = toClient[i]
    BY <1>9, <2>1 DEF ReplyInv
  <2>2. CASE /\ i - Len(toClient) \in 1 .. Len(rs)
             /\ toClient'[i] = rs[i - Len(toClient)]
    <3>1. PICK k \in 1 .. Len(rs) : rs[k] \in ConfigReplies
      BY <1>9, <2>2
    <3>2. Head(toServer).name = "client_information"
      BY <3>1
    <3>3. client = "CONFIG"
      BY <1>1, <3>2 DEF ReplyInv
    <3> QED
      BY <3>2, <3>3
  <2> QED
    BY <1>0, <1>2, <1>9, <2>1, <2>2
<1>10. ASSUME NEW i \in ToClient', toClient'[i] = "finish_config"
       PROVE  i = Len(toClient')
  <2>1. CASE i \in ToClient /\ toClient'[i] = toClient[i]
    <3>1. i = Len(toClient)
      BY <1>10, <2>1 DEF ReplyInv
    <3>2. Len(rs) = 0
      BY <1>2, <1>10, <2>1
    <3>3. QED
      BY <1>2, <3>1, <3>2
  <2>2. CASE i - Len(toClient) \in 1 .. Len(rs) /\ toClient'[i] = rs[i - Len(toClient)]
    <3>1. i - Len(toClient) = Len(rs)
      BY <1>10, <2>2
    <3>2. i \in Int
      BY <1>2
    <3>3. QED
      BY <1>2, <3>1, <3>2
  <2>3. QED
    BY <1>0, <1>2, <1>10, <2>1, <2>2
<1>11. QED
  BY <1>3, <1>4, <1>5, <1>6, <1>7, <1>8, <1>9, <1>10 DEF ReplyInv

\* The exchange of packets and replies, step by step.
LEMMA ReplyStep ==
  ASSUME SessionTypeOK, FreshInv, PartInv, ChainInv, PlayerInv, ReplyInv, Next,
         ~ strayed', ~ again', "part" \notin unsent
  PROVE  ReplyInv'
<1>1. CASE ClientHandshake
  <2>1. PICK p \in Packet : /\ Puts(p) /\ p.name = "handshake" /\ p.want \in {"STATUS", "LOGIN"}
                            /\ client' = p.want
    BY <1>1, HandshakeFacts
  <2>2. client = "HANDSHAKE" /\ UNCHANGED <<state, toClient>>
    BY <1>1, HandshakeFacts DEF serverVars
  <2>3. /\ \A i \in ToServer : toServer[i].name \notin {"login_start", "client_information"}
        /\ \A i \in ToClient : toClient[i] \notin {"login_success"} \cup ConfigReplies
        /\ ~ AsksStatus
    BY <2>2 DEF ReplyInv
  <2>4. \A i \in ToClient' : toClient'[i] \notin {"login_success"} \cup ConfigReplies
    BY <2>2, <2>3 DEF ToClient
  <2>5. After(p) = client' /\ Before(p) = "HANDSHAKE" /\ client' \in States
    BY <2>1, TwoStates DEF States
  <2>6. QED
    BY <2>1, <2>2, <2>3, <2>4, <2>5, ReplyPut
<1>2. CASE ClientSends
  <2>1. PICK p \in Packet :
          /\ Puts(p)
          /\ p.name \notin {"handshake", "login_acknowledged", "acknowledge_finish_config"}
          /\ p.name = "client_information" => "client_information" \notin asked
    BY <1>2, SendsFacts
  <2>2. UNCHANGED <<state, client, toClient>> /\ client \in States
    BY <1>2, <2>1, SendsFacts DEF serverVars, Puts
  <2>3. /\ p.name = "login_start" => client = "LOGIN"
        /\ p.name = "client_information" => client = "CONFIG"
        /\ "STATUS" \in {Before(p), After(p)} => client = "STATUS"
    BY <2>1 DEF Puts, Before, After
  <2>4. \A i \in ToClient' : /\ toClient'[i] = "login_success" => client = "LOGIN"
                             /\ toClient'[i] \in ConfigReplies => client = "CONFIG"
    BY <2>2 DEF ReplyInv, ToClient
  <2>5. /\ \A i \in ToServer : toServer[i].name = "login_start" => client = "LOGIN"
        /\ \A i \in ToServer : toServer[i].name = "client_information" => client = "CONFIG"
    BY DEF ReplyInv
  <2>6. QED
    BY <2>1, <2>2, <2>3, <2>4, <2>5, ReplyPut
<1>3. CASE ClientReceives
  <2>1. /\ toClient # << >> /\ toClient' = Tail(toClient) /\ state' = state
        /\ Head(toClient) \in Replies => ReplyState(Head(toClient)) = client
    BY <1>3, ReceivesFacts, RepliesFit DEF serverVars
  <2>2. /\ 1 \in ToClient /\ Head(toClient) = toClient[1]
        /\ Len(toClient) \in Nat /\ Len(toClient') = Len(toClient) - 1
        /\ \A i \in ToClient' : i + 1 \in ToClient /\ i + 1 # 1 /\ toClient'[i] = toClient[i + 1]
        /\ ToClient' = 1 .. Len(toClient') /\ Head(toClient) # "part"
    BY <2>1, ReadFacts DEF ToClient, PartInv
  <2>3. CASE UNCHANGED <<client, toServer, asked>>
    BY <2>1, <2>3, ReplyRead
  <2>4. CASE Head(toClient) = "login_success" /\ client = "LOGIN" /\ client' = "CONFIG"
             /\ \E p \in Packet : Puts(p) /\ p.name = "login_acknowledged"
    <3>1. PICK p \in Packet : Puts(p) /\ p.name = "login_acknowledged"
      BY <2>4
    <3>2. Before(p) = "LOGIN" /\ After(p) = "CONFIG"
      BY <3>1, TwoStates
    <3>3. players = 1
      BY <2>2, <2>4 DEF PlayerInv, LoggedIn
    <3>4. \A i \in ToServer : toServer[i].name \notin {"login_start", "client_information"}
      BY <2>4, <3>3 DEF PlayerInv, ReplyInv
    <3>5. \A i \in ToClient' : toClient'[i] # "login_success"
      BY <2>2, <2>4 DEF ReplyInv
    <3>6. ~ AsksStatus /\ client' \in States
      BY <2>4 DEF ReplyInv, States
    <3>7. QED
      BY <2>1, <2>4, <3>1, <3>2, <3>4, <3>5, <3>6, ReplyPut
  <2>5. CASE Head(toClient) = "finish_config" /\ client = "CONFIG" /\ client' = "PLAY"
             /\ \E p \in Packet : Puts(p) /\ p.name = "acknowledge_finish_config"
    <3>1. PICK p \in Packet : Puts(p) /\ p.name = "acknowledge_finish_config"
      BY <2>5
    <3>2. Before(p) = "CONFIG" /\ After(p) = "PLAY"
      BY <3>1, TwoStates
    <3>3. 1 = Len(toClient)
      BY <2>2, <2>5 DEF ReplyInv
    <3>4. ASSUME NEW i \in ToClient' PROVE FALSE
      <4>1. i + 1 \in 1 .. 1 /\ i + 1 # 1
        BY <2>2, <3>3 DEF ToClient
      <4>2. QED
        BY <4>1
    <3>5. \A i \in ToServer : toServer[i].name \notin {"login_start", "client_information"}
      BY <2>2, <2>5 DEF ReplyInv, ConfigReplies
    <3>6. ~ AsksStatus /\ client' \in States
      BY <2>5 DEF ReplyInv, States
    <3>7. QED
      BY <2>1, <2>5, <3>1, <3>2, <3>4, <3>5, <3>6, ReplyPut
  <2>6. QED
    BY <1>3, <2>1, <2>2, <2>3, <2>4, <2>5, ReceivesFacts
<1>4. CASE Server
  <2> DEFINE p == Head(toServer)
  <2>1. /\ toServer # << >> /\ toServer' = Tail(toServer) /\ state' = After(p)
        /\ UNCHANGED <<client, asked>>
        /\ 1 \in ToServer /\ p = toServer[1] /\ p \in Packet /\ Before(p) = state
    BY <1>4, ServerFacts, TakeFits DEF clientVars
  <2>2. p.name \in asked
    BY <2>1 DEF ChainInv
  <2> HIDE DEF p
  <2>3. CASE UNCHANGED toClient
    <3>1. /\ << >> \in Seq(Replies) /\ Len(<< >>) = 0 /\ Adds(<< >>)
      BY <2>3, EmptyFacts DEF Adds, SessionTypeOK, ToClient
    <3>2. \A k \in 1 .. Len(<< >>) : FALSE
      BY <3>1
    <3>3. QED
      BY <2>1, <2>2, <3>1, <3>2, ReplyHandle DEF p
  <2>4. CASE p.name \in {"status_request", "ping_request"}
             /\ \E r \in {"status_response", "pong_response"} : Reply(<<r>>)
    <3>1. PICK r \in {"status_response", "pong_response"} : Reply(<<r>>)
      BY <2>4
    <3>2. PICK rs \in Seq(Replies) : Adds(rs) /\ Len(rs) = 1 /\ rs[1] = r
      BY <3>1, OneReply, ReplyFacts DEF Replies
    <3>3. AsksStatus
      BY <2>1, <2>4, TwoStates DEF AsksStatus
    <3>4. \A i \in ToClient : toClient[i] # "finish_config"
      BY <3>3 DEF ReplyInv, ConfigReplies
    <3>5. r \notin {"login_success"} \cup ConfigReplies
      BY <3>1 DEF ConfigReplies
    <3>6. \A k \in 1 .. Len(rs) : rs[k] = r
      BY <3>2
    <3>7. r # "finish_config" /\ r # "login_success"
      BY <3>1
    <3>8. QED
      BY <2>1, <2>2, <3>1, <3>2, <3>3, <3>4, <3>5, <3>6, <3>7, ReplyHandle DEF p
  <2>5. CASE p.name = "login_start" /\ Reply(<<"login_success">>)
    <3>1. PICK rs \in Seq(Replies) : Adds(rs) /\ Len(rs) = 1 /\ rs[1] = "login_success"
      BY <2>5, OneReply, ReplyFacts DEF Replies
    <3>2. players = 0
      BY <2>1, <2>5 DEF PlayerInv
    <3>3. \A i \in ToClient : toClient[i] # "login_success"
      BY <3>2 DEF PlayerInv, LoggedIn
    <3>4. client = "LOGIN"
      BY <2>1, <2>5 DEF ReplyInv
    <3>5. \A k \in 1 .. Len(rs) : rs[k] = "login_success"
      BY <3>1
    <3>6. "login_success" \notin ConfigReplies
      BY DEF ConfigReplies
    <3>7. \A i \in ToClient : toClient[i] # "finish_config"
      BY <3>4 DEF ReplyInv, ConfigReplies
    <3>8. QED
      BY <2>1, <2>2, <2>5, <3>1, <3>3, <3>4, <3>5, <3>6, <3>7, ReplyHandle DEF p
  <2>6. CASE p.name = "client_information" /\ Reply(Configuration)
    <3>1. \A i \in ToClient : toClient[i] # "finish_config"
      BY <2>1, <2>6 DEF ReplyInv, ConfigReplies
    <3>2. \A k \in 1 .. Len(Configuration) :
            /\ Configuration[k] \notin {"status_response", "pong_response", "login_success"}
            /\ Configuration[k] = "finish_config" => k = Len(Configuration)
      BY DEF Configuration
    <3>3. QED
      BY <2>1, <2>2, <2>6, <3>1, <3>2, ConfigurationFacts, ReplyFacts, ReplyHandle DEF p
  <2>7. QED
    BY <1>4, <2>3, <2>4, <2>5, <2>6, ServerFacts DEF p
<1>5. QED
  BY <1>1, <1>2, <1>3, <1>4 DEF Next, Client
------------------------------------------------------------------------------
\* Before anything was sent, every part of the invariant holds.
LEMMA SessionInit == Init => SessionInv
<1> SUFFICES ASSUME Init PROVE SessionInv
  OBVIOUS
<1>1. ToServer = {} /\ ToClient = {}
  <2>1. Len(toServer) = 0 /\ Len(toClient) = 0
    BY DEF Init
  <2>2. ToServer = 1 .. 0 /\ ToClient = 1 .. 0
    BY <2>1 DEF ToServer, ToClient
  <2>3. 1 .. 0 = {}
    OBVIOUS
  <2>4. QED
    BY <2>2, <2>3
<1>2. SessionTypeOK
  <2>1. state \in States /\ players \in Nat /\ client \in States \cup {"CONFUSED"}
    BY DEF Init, States
  <2>2. sent \in 0 .. MaxPackets
    BY SessionAssumption DEF Init, SessionAssumption
  <2>3. /\ toServer \in Seq(Packet) /\ toClient \in Seq(Replies \cup Remains)
        /\ unsent \subseteq Replies \cup {"part"}
    BY DEF Init
  <2>4. open \in BOOLEAN /\ {strayed, again, misread, outside} \subseteq BOOLEAN /\ asked = {}
    BY Zenon DEF Init
  <2>5. QED
    BY <2>1, <2>2, <2>3, <2>4 DEF SessionTypeOK
<1>3. FreshInv /\ PartInv
  BY <1>1 DEF Init, FreshInv, PartInv
<1>4. ChainInv
  BY <1>1 DEF Init, ChainInv, End, Pinged
<1>5. PlayerInv
  BY <1>1 DEF Init, PlayerInv, LoggedIn
<1>6. ReplyInv
  BY <1>1 DEF Init, ReplyInv, AsksStatus
<1>7. PendingInv
  BY DEF Init, PendingInv
<1>8. QED
  BY <1>2, <1>3, <1>4, <1>5, <1>6, <1>7 DEF SessionInv

\* Every step of the session keeps the invariant.
LEMMA SessionStep == SessionInv /\ [Next]_vars => SessionInv'
<1> SUFFICES ASSUME SessionInv, [Next]_vars PROVE SessionInv'
  OBVIOUS
<1>1. CASE Next
  <2>1. /\ SessionTypeOK' /\ FreshInv' /\ (~ strayed' => ~ strayed) /\ (~ again' => ~ again)
        /\ unsent \subseteq unsent' /\ PartInv'
    BY <1>1, SessionTypeStep, StrayedStep, PartStep DEF SessionInv
  <2>2. ~ strayed' => ChainInv' /\ PlayerInv' /\ PendingInv'
    BY <1>1, <2>1, ChainStep, PlayerStep, PendingStep DEF SessionInv
  <2>3. ~ strayed' /\ ~ again' /\ "part" \notin unsent' => ReplyInv'
    BY <1>1, <2>1, ReplyStep DEF SessionInv
  <2>4. QED
    BY <2>1, <2>2, <2>3 DEF SessionInv
<1>2. CASE UNCHANGED vars
  <2>1. ToServer' = ToServer /\ ToClient' = ToClient
    BY <1>2 DEF vars, ToServer, ToClient
  <2>2. SessionTypeOK' /\ FreshInv' /\ PartInv'
    BY <1>2, <2>1 DEF vars, serverVars, clientVars, SessionInv, SessionTypeOK, FreshInv, PartInv
  <2>3. ChainInv => ChainInv'
    BY <1>2, <2>1 DEF vars, serverVars, clientVars, ChainInv, End, Pinged
  <2>4. PlayerInv => PlayerInv'
    BY <1>2, <2>1 DEF vars, serverVars, clientVars, PlayerInv, LoggedIn
  <2>5. ReplyInv => ReplyInv'
    BY <1>2, <2>1 DEF vars, serverVars, clientVars, ReplyInv, AsksStatus
  <2>6. PendingInv => PendingInv'
    BY <1>2, <2>1 DEF vars, serverVars, clientVars, PendingInv, LoginUnderWay, ConfigUnderWay
  <2>7. QED
    BY <1>2, <2>2, <2>3, <2>4, <2>5, <2>6 DEF vars, serverVars, clientVars, SessionInv
<1>3. QED
  BY <1>1, <1>2
------------------------------------------------------------------------------
(* Over the receive path, as long as no packet is lost. *)

ConnInv ==
  /\ lost \in Nat
  /\ lost = 0 => SessionInv

\* As long as no packet is lost, the session over the receive path is a session
\* over a perfect wire: the steps of the path below change nothing of it (listen).
THEOREM SessionInvariant == ConnSpec => []ConnInv
<1>1. ConnInit => ConnInv
  BY SessionInit DEF ConnInit, ConnInv
<1>2. ConnInv /\ [ConnNext]_connVars => ConnInv'
  <2> SUFFICES ASSUME ConnInv, [ConnNext]_connVars PROVE ConnInv'
    OBVIOUS
  <2>1. CASE UNCHANGED lost /\ [Next]_vars
    BY <2>1, SessionStep DEF ConnInv
  <2>2. CASE ClientStep(ClientHandshake)
    BY <2>1, <2>2 DEF ClientStep, Next, Client
  <2>3. CASE ClientStep(ClientSends)
    BY <2>1, <2>3 DEF ClientStep, Next, Client
  <2>4. CASE ClientStep(ClientReceives)
    BY <2>1, <2>4 DEF ClientStep, Next, Client
  <2>5. CASE Deliver
    BY <2>1, <2>5 DEF Deliver
  <2>6. CASE Receive
    BY <2>1, <2>6 DEF Receive
  <2>7. CASE Handle
    BY <2>1, <2>7 DEF Handle, Next
  <2>8. CASE Lose
    BY <2>8 DEF Lose, ConnInv
  <2>9. CASE UNCHANGED connVars
    BY <2>1, <2>9 DEF connVars
  <2>10. QED
    BY <2>2, <2>3, <2>4, <2>5, <2>6, <2>7, <2>8, <2>9 DEF ConnNext, Worker
<1>3. QED
  BY <1>1, <1>2, PTL DEF ConnSpec

\* Each packet of a client that keeps to the protocol goes to its own handler,
\* and each such client has its one player (parsers, login_start).
THEOREM OwnHandlers == ConnSpec => []HandlersKept
<1>1. ConnInv => HandlersKept
  <2> SUFFICES ASSUME SessionInv, ~ strayed
               PROVE  /\ ~ misread /\ ~ outside
                      /\ state \in {"CONFIG", "PLAY"} => players = 1
                      /\ players <= 1
    BY DEF ConnInv, HandlersKept, RightHandler, OnePlayer
  <2>1. ~ misread /\ ~ outside
    BY DEF SessionInv, ChainInv
  <2>2. state \in {"CONFIG", "PLAY"} => players = 1
    BY DEF SessionInv, PlayerInv, LoggedIn
  <2>3. players <= 1
    BY DEF SessionInv, PlayerInv
  <2>4. QED
    BY <2>1, <2>2, <2>3
<1>2. QED
  BY <1>1, SessionInvariant, PTL

\* Both sides agree on the state when nothing is under way to the server; every
\* reply finds the client in its state unless one was cut; and once nothing is
\* under way at all, a client still waits in LOGIN or CONFIG for what it asked for
\* only when the very reply it waits for was not written (set_state, the senders,
\* write_wbuf).
THEOREM AgreedStates == ConnSpec => []StatesKept
<1>1. ConnInv => StatesKept
  <2>1. ASSUME SessionInv PROVE StatesAgree
    BY <2>1 DEF SessionInv, ChainInv, StatesAgree, End, Pinged
  <2>2. ASSUME SessionInv PROVE RepliesInState
    BY <2>2 DEF SessionInv, ReplyInv, RepliesInState
  <2>3. ASSUME SessionInv, ~ strayed, toServer = << >>, toClient = << >>
        PROVE  /\ "login_start" \in asked =>
                    client \notin {"HANDSHAKE", "LOGIN"} \/ "login_success" \in unsent
               /\ "client_information" \in asked =>
                    client \in {"PLAY", "CONFUSED"} \/ "finish_config" \in unsent
    <3>1. Len(toServer) = 0 /\ Len(toClient) = 0
      BY <2>3
    <3>2. \A i \in 1 .. 0 : FALSE
      OBVIOUS
    <3>3. /\ LoginUnderWay => "login_success" \in unsent
          /\ ConfigUnderWay => "finish_config" \in unsent
      BY <3>1, <3>2 DEF LoginUnderWay, ConfigUnderWay, ToServer, ToClient
    <3>4. QED
      BY <2>3, <3>3 DEF SessionInv, PendingInv
  <2>4. SessionInv => LoginsSettle
    BY <2>3 DEF LoginsSettle
  <2>5. QED
    BY <2>1, <2>2, <2>4 DEF ConnInv, StatesKept
<1>2. QED
  BY <1>1, SessionInvariant, PTL
------------------------------------------------------------------------------
(* The receive path, for every client: where it stands in the stream. *)

\* The bytes of k packets.
BytesOf(k) == k * PacketSize

\* How many packets the client has sent at most.
Told ==
  sent + CASE client = "HANDSHAKE" -> 0
           [] client \in {"STATUS", "LOGIN"} -> 1
           [] client = "CONFIG" -> 2
           [] OTHER -> 3

\* Packets that have been handled or lost.  One that lay outside the table is
\* handled, but stays in the queue.
Passed == Len(frames) + lost

CountInv ==
  /\ frames \in Seq(Path!Frame) /\ lost \in Nat
  /\ Passed <= NumPackets
  /\ Passed + Len(toServer) <= Told + (IF open THEN 0 ELSE 1)

\* The receive path is at the beginning of a packet, or has the prefix of the
\* next one and knows how far primary reaches into it.
PhaseInv ==
  \/ /\ phase = "resolve_length"
     /\ hdr = 0 /\ len = 0 /\ allowed = PrimarySize
     /\ fault = "none" => pc # "ready"
     /\ fault = "none" /\ pc = "epoll" => rpos = wpos
  \/ /\ phase = "copy_to_buffer"
     /\ hdr = 1 /\ len = PacketSize - 1 /\ allowed = PacketSize - wpos
     /\ Path!From < taken /\ Path!From = BytesOf(Passed)

\* Nothing is taken that has not arrived, and nothing arrives that was not
\* written; the receive path never falls back behind the packet whose turn it is.
StreamInv ==
  /\ peer = "open" /\ target = "primary" /\ sec = "null" /\ pc \in {"epoll", "ready", "gone"}
  /\ arrived \in Nat /\ taken \in Nat /\ base \in Nat /\ wpos \in Nat /\ rpos \in Nat
  /\ taken <= arrived /\ arrived <= BytesOf(NumPackets)
  /\ arrived <= BytesOf(Passed + Len(toServer))
  /\ hdr <= rpos /\ Path!From <= taken
  /\ fault = "none" => base + wpos = taken
  /\ ~ Derailed => BytesOf(Passed) <= Path!From

\* As long as no recv() has gone beyond its packet, each packet is received at
\* the front of primary; and none does for a client that waits, because it has
\* one packet under way.
PatientInv ==
  /\ ~ early => Len(toServer) <= 1 /\ "read_ahead" \notin hazards
  /\ "read_ahead" \notin hazards =>
       /\ lost = 0 /\ fault = "none"
       /\ base = BytesOf(Len(frames)) /\ rpos = hdr
       /\ phase = "copy_to_buffer" => allowed >= 0

PathInv == SessionTypeOK /\ CountInv /\ PhaseInv /\ StreamInv /\ PatientInv
------------------------------------------------------------------------------

\* One packet more is PacketSize bytes more.
LEMMA BytesMore ==
  /\ BytesOf(0) = 0
  /\ \A k \in Nat : BytesOf(k) \in Nat /\ BytesOf(k + 1) = BytesOf(k) + PacketSize
BY ConnectionAssumption DEF ConnectionAssumption, BytesOf

\* More packets are more bytes.
LEMMA BytesGrow ==
  ASSUME NEW j \in Nat, NEW k \in Nat
  PROVE  /\ j <= k => BytesOf(j) <= BytesOf(k)
         /\ j < k => BytesOf(j + 1) <= BytesOf(k)
<1>1. \A a \in Nat, b \in Nat : a <= b => a * PacketSize <= b * PacketSize
  <2> SUFFICES ASSUME NEW a \in Nat, NEW b \in Nat, a <= b
               PROVE  a * PacketSize <= b * PacketSize
    OBVIOUS
  <2>1. PICK d \in Nat : b = a + d
    <3>1. b - a \in Nat /\ b = a + (b - a)
      OBVIOUS
    <3>2. QED
      BY <3>1
  <2>2. PacketSize \in Nat
    BY ConnectionAssumption DEF ConnectionAssumption
  <2>3. b * PacketSize = a * PacketSize + d * PacketSize /\ d * PacketSize \in Nat /\ a * PacketSize \in Nat
    BY <2>1, <2>2
  <2>4. QED
    BY <2>3
<1>2. QED
  BY <1>1 DEF BytesOf

\* The beginnings of packets are the multiples of PacketSize.
LEMMA BytesWhole ==
  /\ \A k \in Nat : BytesOf(k) % PacketSize = 0
  /\ \A a \in Nat : a % PacketSize = 0 => \E k \in Nat : a = BytesOf(k)
<1>1. PacketSize \in Nat \ {0}
  BY ConnectionAssumption DEF ConnectionAssumption
<1>2. ASSUME NEW k \in Nat PROVE BytesOf(k) % PacketSize = 0
  BY <1>1 DEF BytesOf
<1>3. ASSUME NEW a \in Nat, a % PacketSize = 0 PROVE \E k \in Nat : a = BytesOf(k)
  <2>1. a = PacketSize * (a \div PacketSize) + (a % PacketSize) /\ a \div PacketSize \in Nat
    BY <1>1
  <2>2. PICK q \in Nat : q = a \div PacketSize
    BY <2>1
  <2>3. a = q * PacketSize
    BY <1>1, <1>3, <2>1, <2>2
  <2>4. QED
    BY <2>3 DEF BytesOf
<1>4. QED
  BY <1>2, <1>3

\* What is behind the beginning of a packet, and begins one, is a packet behind it.
LEMMA NextPacket ==
  ASSUME NEW k \in Nat, NEW a \in Nat, a % PacketSize = 0, BytesOf(k) < a
  PROVE  BytesOf(k + 1) <= a
<1>1. PICK i \in Nat : a = BytesOf(i)
  BY BytesWhole
<1>2. k < i
  <2>1. CASE i <= k
    BY <1>1, <2>1, BytesGrow, BytesMore
  <2>2. QED
    BY <2>1
<1>3. QED
  BY <1>1, <1>2, BytesGrow
------------------------------------------------------------------------------

\* The constants of the receive path.
LEMMA StartsAre ==
  /\ NumPackets \in Nat \ {0}
  /\ \A i \in 1 .. NumPackets + 1 : StartOf[i] = BytesOf(i - 1)
BY SessionAssumption DEF SessionAssumption, NumPackets, StartOf, BytesOf

\* Where the receive path stands, and whether it is served, in numbers of packets.
LEMMA Standing ==
  ASSUME PathInv
  PROVE  /\ Passed \in Nat /\ Len(frames) \in Nat /\ lost \in Nat /\ Len(toServer) \in Nat
         /\ hdr \in {0, 1} /\ Path!From \in Nat
         /\ Turn = Passed + 1 /\ StartOf[Turn] = BytesOf(Passed)
         /\ Written = Passed + Len(toServer)
         /\ Serving => open /\ Path!From = BytesOf(Passed)
         /\ Behind => BytesOf(Passed + 1) <= Path!From
         /\ Derailed <=> Path!From % PacketSize # 0
<1>1. /\ Len(frames) \in Nat /\ lost \in Nat /\ Len(toServer) \in Nat
      /\ frames \in Seq(Path!Frame) /\ Passed <= NumPackets
  BY DEF PathInv, CountInv, SessionTypeOK
<1>2. Passed \in Nat /\ Turn = Passed + 1 /\ Written = Passed + Len(toServer)
  BY <1>1 DEF Passed, Turn, Written
<1>3. Turn \in 1 .. NumPackets + 1 /\ Turn - 1 = Passed
  BY <1>1, <1>2, StartsAre
<1>4. StartOf[Turn] = BytesOf(Passed)
  BY <1>3, StartsAre
<1>5. hdr \in {0, 1} /\ base \in Nat /\ rpos \in Nat /\ hdr <= rpos
  BY DEF PathInv, PhaseInv, StreamInv
<1>6. Path!From \in Nat
  BY <1>5 DEF Path!From
<1>7. Serving => open /\ Path!From = BytesOf(Passed)
  <2> SUFFICES ASSUME Serving PROVE open /\ Path!From = BytesOf(Passed)
    OBVIOUS
  <2>1. open /\ ~ Derailed /\ ~ (Path!From > BytesOf(Passed))
    BY <1>4 DEF Serving, Behind
  <2>2. BytesOf(Passed) <= Path!From
    BY <2>1 DEF PathInv, StreamInv
  <2>3. BytesOf(Passed) \in Nat
    BY <1>2, BytesMore
  <2>4. QED
    BY <1>6, <2>1, <2>2, <2>3
<1>8. Behind => BytesOf(Passed + 1) <= Path!From
  BY <1>2, <1>4, <1>6, NextPacket DEF Behind, Derailed
<1>9. QED
  BY <1>1, <1>2, <1>4, <1>5, <1>6, <1>7, <1>8 DEF Derailed

\* What a step of the client does to the count.
LEMMA ClientCount ==
  ASSUME SessionTypeOK, Client
  PROVE  /\ UNCHANGED open
         /\ Told \in Nat /\ Told' \in Nat
         /\ \/ toServer' = toServer /\ Told <= Told'
            \/ /\ Len(toServer') = Len(toServer) + 1 /\ Told + 1 <= Told'
<1>1. client \in States \cup {"CONFUSED"} /\ sent \in Nat /\ MaxPackets \in Nat
  BY SessionAssumption DEF SessionTypeOK, SessionAssumption
<1>2. ASSUME NEW p \in Packet, Puts(p) PROVE Len(toServer') = Len(toServer) + 1
  BY <1>2, AppendFacts DEF Puts, SessionTypeOK
<1>3. Told \in Nat
  BY <1>1 DEF Told
<1>4. CASE ClientHandshake
  <2>1. client = "HANDSHAKE" /\ client' \in {"STATUS", "LOGIN"} /\ sent' = sent /\ UNCHANGED open
    BY <1>4, HandshakeFacts DEF serverVars
  <2>2. Told = sent /\ Told' = sent + 1
    BY <1>1, <2>1 DEF Told
  <2>3. QED
    BY <1>1, <1>2, <1>4, <2>1, <2>2, HandshakeFacts
<1>5. CASE ClientSends
  <2>1. client' = client /\ sent' = sent + 1 /\ UNCHANGED open
    BY <1>5, SendsFacts DEF serverVars
  <2>2. Told' = Told + 1
    BY <1>1, <2>1 DEF Told
  <2>3. QED
    BY <1>1, <1>2, <1>3, <1>5, <2>1, <2>2, SendsFacts
<1>6. CASE ClientReceives
  <2>1. sent' = sent /\ UNCHANGED open
    BY <1>6, ReceivesFacts DEF serverVars
  <2>2. \/ toServer' = toServer /\ client' \in {client, "CONFUSED"}
        \/ Len(toServer') = Len(toServer) + 1 /\ client = "LOGIN" /\ client' = "CONFIG"
        \/ Len(toServer') = Len(toServer) + 1 /\ client = "CONFIG" /\ client' = "PLAY"
    BY <1>2, <1>6, ReceivesFacts
  <2>3. CASE toServer' = toServer /\ client' \in {client, "CONFUSED"}
    BY <1>1, <2>1, <2>3 DEF Told, States
  <2>4. CASE Len(toServer') = Len(toServer) + 1 /\ client = "LOGIN" /\ client' = "CONFIG"
    BY <1>1, <2>1, <2>4 DEF Told
  <2>5. CASE Len(toServer') = Len(toServer) + 1 /\ client = "CONFIG" /\ client' = "PLAY"
    BY <1>1, <2>1, <2>5 DEF Told
  <2>6. QED
    BY <2>1, <2>2, <2>3, <2>4, <2>5
<1>7. QED
  BY <1>4, <1>5, <1>6 DEF Client
------------------------------------------------------------------------------
(* Its steps. *)

\* The client's steps touch only the queue.
LEMMA ClientPath ==
  ASSUME PathInv, ClientStep(ClientHandshake) \/ ClientStep(ClientSends) \/ ClientStep(ClientReceives)
  PROVE  CountInv' /\ PhaseInv' /\ StreamInv' /\ PatientInv'
<1>1. Client /\ UNCHANGED <<pathVars, lost>> /\ early' = (early \/ (toServer # << >> /\ toServer' # toServer))
  BY DEF ClientStep, Client
<1>2. /\ UNCHANGED open
      /\ Told \in Nat /\ Told' \in Nat
      /\ \/ toServer' = toServer /\ Told <= Told'
         \/ Len(toServer') = Len(toServer) + 1 /\ Told + 1 <= Told'
  BY <1>1, ClientCount DEF PathInv
<1>3. Passed' = Passed /\ Path!From' = Path!From
  BY <1>1 DEF pathVars, Passed, Path!From
<1>4. Passed \in Nat /\ Len(toServer) \in Nat
  BY Standing
<1>5. CountInv'
  <2>1. CASE open
    BY <1>1, <1>2, <1>3, <1>4, <2>1 DEF PathInv, CountInv, pathVars
  <2>2. CASE ~ open
    BY <1>1, <1>2, <1>3, <1>4, <2>2 DEF PathInv, CountInv, pathVars
  <2>3. QED
    BY <2>1, <2>2
<1>6. PhaseInv'
  BY <1>1, <1>3 DEF PathInv, PhaseInv, pathVars
<1>7. Len(toServer') \in Nat /\ Len(toServer) <= Len(toServer')
  BY <1>2, <1>4
<1>8. BytesOf(Passed + Len(toServer)) <= BytesOf(Passed + Len(toServer'))
  BY <1>4, <1>7, BytesGrow
<1>9. /\ BytesOf(Passed + Len(toServer)) \in Nat /\ BytesOf(Passed + Len(toServer')) \in Nat
  <2>1. Passed + Len(toServer) \in Nat /\ Passed + Len(toServer') \in Nat
    BY <1>4, <1>7
  <2>2. QED
    BY <2>1, BytesMore
<1>10. arrived <= BytesOf(Passed + Len(toServer'))
  BY <1>8, <1>9 DEF PathInv, StreamInv
<1>11. Derailed' = Derailed
  BY <1>3 DEF Derailed
<1>12. StreamInv'
  BY <1>1, <1>3, <1>10, <1>11 DEF PathInv, StreamInv, pathVars
<1>13. PatientInv'
  <2>1. ASSUME ~ early' PROVE ~ early /\ Len(toServer') <= 1
    <3>1. ~ early /\ (toServer = << >> \/ toServer' = toServer)
      BY <1>1, <2>1
    <3>2. toServer = << >> => Len(toServer) = 0
      OBVIOUS
    <3>3. Len(toServer) <= 1
      BY <3>1 DEF PathInv, PatientInv
    <3>4. QED
      BY <1>2, <1>4, <3>1, <3>2, <3>3
  <2>2. QED
    BY <1>1, <2>1 DEF PathInv, PatientInv, pathVars
<1>14. QED
  BY <1>5, <1>6, <1>12, <1>13

\* TCP brings no more than was written.
LEMMA DeliverPath ==
  ASSUME PathInv, Deliver
  PROVE  CountInv' /\ PhaseInv' /\ StreamInv' /\ PatientInv'
<1>1. /\ open /\ arrived' <= StartOf[Written + 1] /\ UNCHANGED <<vars, lost, early>>
      /\ UNCHANGED <<peer, taken, base, wpos, rpos, hdr, len, allowed, phase,
                     target, sec, pc, frames, fault, hazards>>
  BY DEF Deliver, Path!Arrive
<1>2. /\ UNCHANGED <<Passed, Path!From, Derailed, Told, toServer, open>>
  BY <1>1 DEF Passed, Path!From, Derailed, Told, vars, serverVars, clientVars
<1>3. Passed \in Nat /\ Len(toServer) \in Nat /\ Written = Passed + Len(toServer)
  BY Standing
<1>4. PICK a \in arrived + 1 .. Path!Horizon : arrived' = a
  BY DEF Deliver, Path!Arrive
<1>5. Path!Horizon = BytesOf(NumPackets)
  <2>1. ~ (Len(frames) + NumPackets < NumPackets)
    BY Standing, StartsAre
  <2>2. StartOf[NumPackets + 1] = BytesOf(NumPackets)
    BY StartsAre
  <2>3. QED
    BY <2>1, <2>2 DEF Path!Horizon
<1>6. BytesOf(NumPackets) \in Nat
  BY StartsAre, BytesMore
<1>7. arrived' \in Nat /\ arrived <= arrived' /\ arrived' <= BytesOf(NumPackets)
  BY <1>4, <1>5, <1>6 DEF PathInv, StreamInv
<1>8. Passed + Len(toServer) <= NumPackets
  <2>1. Told <= NumPackets /\ Told \in Nat
    BY SessionAssumption DEF PathInv, SessionTypeOK, Told, NumPackets, SessionAssumption, States
  <2>2. Passed + Len(toServer) <= Told
    BY <1>1, <1>3, <2>1 DEF PathInv, CountInv
  <2>3. QED
    BY <1>3, <2>1, <2>2, StartsAre
<1>9. StartOf[Written + 1] = BytesOf(Passed + Len(toServer))
  <2>1. Written + 1 \in 1 .. NumPackets + 1 /\ (Written + 1) - 1 = Written
    BY <1>3, <1>8, StartsAre
  <2>2. QED
    BY <1>3, <2>1, StartsAre
<1>10. CountInv' /\ PhaseInv' /\ PatientInv'
  BY <1>1, <1>2 DEF PathInv, CountInv, PhaseInv, PatientInv
<1>11. taken' <= arrived'
  BY <1>1, <1>7 DEF PathInv, StreamInv
<1>12. StreamInv'
  BY <1>1, <1>2, <1>7, <1>9, <1>11 DEF PathInv, StreamInv
<1>13. QED
  BY <1>10, <1>12

\* A packet that was stepped over had been written.
LEMMA LosePath ==
  ASSUME PathInv, Lose
  PROVE  toServer # << >> /\ CountInv' /\ PhaseInv' /\ StreamInv' /\ PatientInv'
<1>1. /\ Behind /\ lost' = lost + 1 /\ toServer' = Tail(toServer)
      /\ UNCHANGED <<serverVars, toClient, clientVars, pathVars, early>>
  BY DEF Lose
<1>2. /\ Passed \in Nat /\ Len(frames) \in Nat /\ lost \in Nat /\ Len(toServer) \in Nat
      /\ Path!From \in Nat /\ BytesOf(Passed + 1) <= Path!From
  BY <1>1, Standing
<1>3. Passed' = Passed + 1
  BY <1>1, <1>2 DEF Passed, pathVars
<1>4. UNCHANGED <<Path!From, Derailed, Told, open>>
  BY <1>1 DEF Path!From, Derailed, Told, serverVars, clientVars, pathVars
<1>5. /\ BytesOf(Passed + 1) <= BytesOf(Passed + Len(toServer))
      /\ BytesOf(Passed + 1) <= BytesOf(NumPackets)
  <2>1. /\ BytesOf(Passed + 1) \in Nat /\ BytesOf(Passed + Len(toServer)) \in Nat
        /\ BytesOf(NumPackets) \in Nat
    <3>1. Passed + 1 \in Nat /\ Passed + Len(toServer) \in Nat /\ NumPackets \in Nat
      BY <1>2, StartsAre
    <3>2. QED
      BY <3>1, BytesMore
  <2>2. /\ Path!From <= taken /\ taken <= arrived /\ arrived <= BytesOf(NumPackets)
        /\ arrived <= BytesOf(Passed + Len(toServer)) /\ taken \in Nat /\ arrived \in Nat
    BY DEF PathInv, StreamInv
  <2>3. QED
    BY <1>2, <2>1, <2>2
<1>6. Passed + 1 <= Passed + Len(toServer) /\ Passed + 1 <= NumPackets
  <2>1. ASSUME NEW j \in Nat, NEW k \in Nat, BytesOf(j) <= BytesOf(k) PROVE j <= k
    <3>1. CASE k < j
      <4>1. BytesOf(k + 1) <= BytesOf(j) /\ BytesOf(k + 1) = BytesOf(k) + PacketSize
        BY <2>1, <3>1, BytesGrow, BytesMore
      <4>2. BytesOf(k) \in Nat /\ BytesOf(j) \in Nat /\ PacketSize \in Nat /\ PacketSize > 1
        BY BytesMore, ConnectionAssumption DEF ConnectionAssumption
      <4>3. QED
        BY <2>1, <4>1, <4>2
    <3>2. QED
      BY <3>1
  <2>2. QED
    BY <1>2, <1>5, <2>1, StartsAre
<1>7. toServer # << >>
  BY <1>2, <1>6
<1>8. Len(toServer') = Len(toServer) - 1 /\ Len(toServer) >= 1
  BY <1>1, <1>2, <1>6, <1>7, TailFacts DEF PathInv, SessionTypeOK
<1>9. Passed' + Len(toServer') = Passed + Len(toServer)
  BY <1>2, <1>3, <1>8
<1>10. CountInv'
  <2>1. lost' \in Nat /\ Passed' <= NumPackets
    BY <1>1, <1>2, <1>3, <1>6
  <2>2. frames' = frames
    BY <1>1 DEF pathVars
  <2>3. QED
    BY <1>4, <1>9, <2>1, <2>2 DEF PathInv, CountInv
<1>11. ~ (Path!From = BytesOf(Passed))
  <2>1. BytesOf(Passed + 1) = BytesOf(Passed) + PacketSize /\ BytesOf(Passed) \in Nat
    BY <1>2, BytesMore
  <2>2. QED
    BY <1>2, <2>1, ConnectionAssumption DEF ConnectionAssumption
<1>12. PhaseInv'
  BY <1>1, <1>11 DEF PathInv, PhaseInv, pathVars
<1>13. StreamInv'
  BY <1>1, <1>2, <1>3, <1>4, <1>9 DEF PathInv, StreamInv, pathVars
<1>14. PatientInv'
  <2>1. CASE "read_ahead" \in hazards
    <3>1. early
      BY <2>1 DEF PathInv, PatientInv
    <3>2. QED
      BY <1>1, <2>1, <3>1 DEF PatientInv, pathVars
  <2>2. CASE "read_ahead" \notin hazards
    <3>1. lost = 0 /\ base = BytesOf(Len(frames)) /\ rpos = hdr
      BY <2>2 DEF PathInv, PatientInv
    <3>2. Path!From = base /\ Passed = Len(frames)
      BY <1>2, <3>1, Standing DEF Path!From, Passed, PathInv, StreamInv
    <3>3. QED
      BY <1>11, <3>1, <3>2
  <2>3. QED
    BY <2>1, <2>2
<1>15. QED
  BY <1>7, <1>10, <1>12, <1>13, <1>14

\* What a packet's prefix says: the length of all packets.
LEMMA PrefixIs ==
  ASSUME PathInv, NEW k \in Nat, Path!From = BytesOf(k), NEW h \in Path!Prefixes(Path!From)
  PROVE  h.size = 1 /\ h.len = PacketSize - 1
<1>1. PICK p \in Path!Packets : /\ StartOf[p] = Path!From
                                /\ h = [size |-> [q \in 1 .. NumPackets |-> 1][p],
                                        len |-> Path!Total(p) - [q \in 1 .. NumPackets |-> 1][p]]
  BY Zenon DEF Path!Prefixes
<1>2. p \in 1 .. NumPackets
  BY DEF Path!Packets
<1>3. [q \in 1 .. NumPackets |-> 1][p] = 1
  BY <1>2
<1>4. StartOf[p + 1] = BytesOf(p) /\ StartOf[p] = BytesOf(p - 1)
  <2>1. p + 1 \in 1 .. NumPackets + 1 /\ p \in 1 .. NumPackets + 1 /\ (p + 1) - 1 = p
    BY <1>2, StartsAre
  <2>2. QED
    BY <2>1, StartsAre
<1>5. BytesOf(p) = BytesOf(p - 1) + PacketSize /\ BytesOf(p - 1) \in Nat
  <2>1. p - 1 \in Nat /\ (p - 1) + 1 = p
    BY <1>2, StartsAre
  <2>2. BytesOf((p - 1) + 1) = BytesOf(p - 1) + PacketSize /\ BytesOf(p - 1) \in Nat
    BY <2>1, BytesMore
  <2>3. QED
    BY <2>1, <2>2
<1>6. Path!Total(p) = PacketSize
  BY <1>4, <1>5, ConnectionAssumption DEF Path!Total, ConnectionAssumption
<1>7. QED
  BY <1>1, <1>3, <1>6

\* The steps of process_events that a connection of short packets can take.
LEMMA ReceiveSteps ==
  ASSUME PathInv, Receive
  PROVE  /\ UNCHANGED <<vars, lost, early, frames, arrived, peer, base, target, sec>>
         /\ fault = "none" /\ Path!From = BytesOf(Passed)
         /\ \/ /\ phase = "resolve_length" /\ pc = "epoll" /\ phase' = "copy_to_buffer"
               /\ \E n \in Nat \ {0} : /\ wpos' = wpos + n /\ taken' = taken + n /\ taken + n <= arrived
               /\ rpos' = rpos + 1 /\ hdr' = 1 /\ len' = PacketSize - 1
               /\ allowed' = PacketSize - wpos' /\ pc' = "ready" /\ fault' = fault
               /\ hazards' = IF allowed' < 0 THEN hazards \cup {"read_ahead"} ELSE hazards
            \/ /\ phase = "copy_to_buffer" /\ pc = "epoll"
               /\ \E n \in Nat \ {0} : /\ wpos' = wpos + n /\ taken' = taken + n /\ taken + n <= arrived
                                       /\ n <= allowed /\ allowed' = allowed - n
               /\ pc' = "ready" /\ UNCHANGED <<rpos, hdr, len, phase, fault, hazards>>
            \/ /\ pc = "epoll" /\ pc' = "ready" /\ fault' = "primary_overrun"
               /\ \E n \in 1 .. allowed : /\ taken' = taken + n /\ taken + n <= arrived
                                          /\ wpos + n > PrimarySize
               /\ UNCHANGED <<wpos, rpos, hdr, len, allowed, phase, hazards>>
            \/ /\ phase = "resolve_length" /\ pc = "epoll" /\ pc' = "gone"
               /\ \E n \in Nat \ {0} : /\ wpos' = wpos + n /\ taken' = taken + n /\ taken + n <= arrived
               /\ UNCHANGED <<rpos, hdr, len, allowed, phase, fault, hazards>>
            \/ /\ pc = "ready" /\ pc' = "epoll" /\ allowed > 0
               /\ UNCHANGED <<taken, wpos, rpos, hdr, len, allowed, phase, fault, hazards>>
            \/ /\ pc = "ready" /\ fault' = "truncated_read" /\ allowed <= 0
               /\ taken < Path!From + Path!TotalLength
               /\ UNCHANGED <<taken, wpos, rpos, hdr, len, allowed, phase, pc, hazards>>
<1>1. Path!Worker /\ UNCHANGED <<frames, vars, lost, early>> /\ Serving
  BY DEF Receive
<1>2. Path!From = BytesOf(Passed) /\ Passed \in Nat
  BY <1>1, Standing
<1>3. /\ peer = "open" /\ target = "primary" /\ sec = "null"
      /\ wpos \in Nat /\ rpos \in Nat /\ taken \in Nat /\ arrived \in Nat
  BY DEF PathInv, StreamInv
<1>4. allowed \in Int
  BY <1>3, ConnectionAssumption DEF PathInv, PhaseInv, ConnectionAssumption
<1>5. CASE Path!ResolveLength
  <2>1. PICK n \in 1 .. allowed, h \in Path!Prefixes(Path!From) :
          \/ Path!ResolvePartial(n, h) \/ Path!ResolveMinusOne(n, h)
          \/ Path!ResolveFits(n, h) \/ Path!ResolveSpills(n, h)
    BY <1>5 DEF Path!ResolveLength
  <2>2. h.size = 1 /\ h.len = PacketSize - 1
    BY <1>2, PrefixIs
  <2>3. /\ phase = "resolve_length" /\ pc = "epoll" /\ fault = "none"
        /\ taken' = taken + n /\ taken + n <= arrived /\ wpos' = wpos + n
    BY <2>1 DEF Path!ResolvePartial, Path!ResolveMinusOne, Path!ResolveFits, Path!ResolveSpills, Path!LengthKnown,
                Path!RecvToPrimary, Path!Recv
  <2>4. rpos = wpos /\ hdr = 0
    BY <2>3 DEF PathInv, PhaseInv
  <2>5. Path!FitsPrimary(h)
    BY <2>2, ConnectionAssumption DEF Path!FitsPrimary, ConnectionAssumption
  <2>6. Path!ResolveFits(n, h)
    <3>1. ~ (wpos + n - rpos < h.size - hdr)
      BY <1>3, <1>4, <2>2, <2>4
    <3>2. QED
      BY <2>1, <2>2, <2>5, <3>1, ConnectionAssumption
         DEF Path!ResolvePartial, Path!ResolveMinusOne, Path!ResolveSpills, ConnectionAssumption
  <2>7. /\ rpos' = rpos + (h.size - hdr) /\ hdr' = h.size /\ len' = h.len /\ pc' = "ready"
        /\ allowed' = (h.size + h.len) - (wpos + n) /\ phase' = "copy_to_buffer"
        /\ hazards' = IF allowed' < 0 THEN hazards \cup {"read_ahead"} ELSE hazards
        /\ UNCHANGED <<arrived, peer, base, target, sec, fault>>
    BY <1>4, <2>2, <2>6, ConnectionAssumption
       DEF Path!ResolveFits, Path!LengthKnown, Path!BytesToRead, Path!BadLength, Path!clientVars,
           ConnectionAssumption
  <2>8. rpos' = rpos + 1 /\ hdr' = 1 /\ len' = PacketSize - 1 /\ allowed' = PacketSize - wpos'
    BY <1>3, <1>4, <2>2, <2>3, <2>4, <2>7, ConnectionAssumption DEF ConnectionAssumption
  <2>9. n \in Nat \ {0}
    BY <1>4
  <2>10. QED
    BY <1>1, <1>2, <2>3, <2>7, <2>8, <2>9
<1>6. ASSUME NEW n \in 1 .. allowed, Path!Transition(n) \/ Path!CopyToBuffer(n) PROVE Path!CopyToBuffer(n)
  BY <1>6 DEF PathInv, PhaseInv, Path!Transition
<1>7. CASE \E n \in 1 .. allowed : Path!CopyToBuffer(n)
  <2>1. PICK n \in 1 .. allowed : Path!CopyToBuffer(n)
    BY <1>7
  <2>2. /\ phase = "copy_to_buffer" /\ pc = "epoll" /\ fault = "none"
        /\ taken' = taken + n /\ taken + n <= arrived /\ wpos' = wpos + n
        /\ pc' = "ready" /\ allowed' = allowed - n
        /\ UNCHANGED <<arrived, peer, base, rpos, hdr, len, phase, target, sec, fault, hazards>>
    BY <1>3, <2>1 DEF Path!CopyToBuffer, Path!RecvToPrimary, Path!Recv, Path!clientVars
  <2>3. n \in Nat \ {0} /\ n <= allowed
    BY <1>4
  <2>4. QED
    BY <1>1, <1>2, <2>2, <2>3
<1>8. CASE Path!Overrun
  BY <1>1, <1>2, <1>8 DEF Path!Overrun, Path!Recv, Path!clientVars
<1>9. CASE Path!Malformed
  <2>1. PICK n \in 1 .. allowed : Path!RecvToPrimary(n)
    BY <1>9 DEF Path!Malformed
  <2>2. n \in Nat \ {0}
    BY <1>4
  <2>3. QED
    BY <1>1, <1>2, <1>9, <2>1, <2>2 DEF Path!Malformed, Path!RecvToPrimary, Path!Recv, Path!clientVars
<1>10. ~ Path!RecvFails
  BY <1>3 DEF Path!RecvFails
<1>11. ~ Path!ReadyOnFreed
  BY DEF Path!ReadyOnFreed, PathInv, StreamInv
<1>12. CASE Path!NotReady
  BY <1>1, <1>2, <1>4, <1>12 DEF Path!NotReady, Path!Ready, Path!clientVars
<1>13. CASE Path!TruncatedRead
  <2>1. taken < Path!From + Path!TotalLength
    <3>1. hdr = 1 /\ len = PacketSize - 1
      BY <1>13 DEF Path!TruncatedRead, PathInv, PhaseInv
    <3>2. Path!From \in Int
      BY <3>1, <1>3 DEF Path!From, PathInv, StreamInv
    <3>3. QED
      BY <1>3, <1>13, <3>1, <3>2, ConnectionAssumption
         DEF Path!TruncatedRead, Path!NoPacketId, Path!TotalLength, ConnectionAssumption
  <2>2. QED
    BY <1>1, <1>2, <1>13, <2>1 DEF Path!TruncatedRead, Path!Ready, Path!clientVars
<1>14. ~ Path!Dispatch
  <2>1. SUFFICES ASSUME Path!Dispatch PROVE FALSE
    OBVIOUS
  <2>2. Len(frames') = Len(frames) + 1 /\ frames' = frames
    <3>1. frames' = Append(frames, [from |-> Path!From, size |-> Path!TotalLength,
                                    got |-> taken - Path!From, clean |-> hazards = {}])
      BY <2>1 DEF Path!Dispatch
    <3>2. [from |-> Path!From, size |-> Path!TotalLength, got |-> taken - Path!From,
           clean |-> hazards = {}] \in Path!Frame
      BY <1>3, Standing, ConnectionAssumption DEF Path!Frame, Path!TotalLength, PathInv, PhaseInv, ConnectionAssumption
    <3>3. QED
      BY <1>1, <3>1, <3>2, AppendFacts DEF PathInv, CountInv
  <2>3. QED
    BY <2>2, Standing
<1>15. ASSUME NEW n \in 1 .. allowed PROVE ~ Path!AfterMinusOne(n)
  BY ConnectionAssumption DEF Path!AfterMinusOne, PathInv, PhaseInv, ConnectionAssumption
<1>16. QED
  BY <1>1, <1>5, <1>6, <1>7, <1>8, <1>9, <1>10, <1>11, <1>12, <1>13, <1>14, <1>15 DEF Path!Worker

\* A read keeps to the packet whose turn it is.
LEMMA ReceivePath ==
  ASSUME PathInv, Receive
  PROVE  CountInv' /\ PhaseInv' /\ StreamInv' /\ PatientInv'
<1>1. /\ UNCHANGED <<vars, lost, early, frames, arrived, peer, base, target, sec>>
      /\ fault = "none" /\ Path!From = BytesOf(Passed)
  BY ReceiveSteps
<1>2. UNCHANGED <<Passed, Told, toServer, open>>
  BY <1>1 DEF Passed, Told, vars, serverVars, clientVars
<1>3. CountInv'
  BY <1>1, <1>2 DEF PathInv, CountInv
<1>4. /\ peer = "open" /\ target = "primary" /\ sec = "null" /\ pc \in {"epoll", "ready", "gone"}
      /\ arrived \in Nat /\ taken \in Nat /\ base \in Nat /\ wpos \in Nat /\ rpos \in Nat
      /\ hdr \in {0, 1} /\ hdr <= rpos /\ Path!From \in Nat /\ Path!From <= taken
      /\ base + wpos = taken /\ Path!From = base + (rpos - hdr) /\ allowed \in Int
      /\ PacketSize \in Nat /\ PacketSize > 1 /\ PacketSize <= PrimarySize /\ PrimarySize \in Nat
    <2>1. PacketSize \in Nat /\ PacketSize > 1 /\ PacketSize <= PrimarySize /\ PrimarySize \in Nat
      BY ConnectionAssumption DEF ConnectionAssumption
    <2>2. allowed \in Int
      BY <2>1 DEF PathInv, PhaseInv, StreamInv
    <2>3. QED
      BY <1>1, <2>1, <2>2, Standing DEF PathInv, StreamInv, Path!From
<1>5. Path!From' = base' + (rpos' - hdr')
  BY DEF Path!From
<1>6. ASSUME Path!From' = Path!From, taken' \in Nat, taken <= taken', taken' <= arrived,
             wpos' \in Nat, rpos' \in Nat, hdr' <= rpos', pc' \in {"epoll", "ready", "gone"},
             fault' = "none" => base + wpos' = taken'
      PROVE  StreamInv'
  <2>1. Path!From' <= taken'
    BY <1>4, <1>6
  <2>2. Derailed' = Derailed
    BY <1>6 DEF Derailed
  <2>3. QED
    BY <1>1, <1>2, <1>4, <1>6, <2>1, <2>2 DEF PathInv, StreamInv
<1>7. ASSUME rpos' - hdr' = rpos - hdr, rpos' \in Nat, hdr' \in {0, 1}, fault' = "none",
             hazards \subseteq hazards',
             ~ early => "read_ahead" \notin hazards',
             "read_ahead" \notin hazards' /\ phase' = "copy_to_buffer" => allowed' >= 0
      PROVE  PatientInv'
  <2>1. ~ early' => Len(toServer') <= 1 /\ "read_ahead" \notin hazards'
    BY <1>1, <1>2, <1>7 DEF PathInv, PatientInv
  <2>2. ASSUME "read_ahead" \notin hazards'
        PROVE  lost' = 0 /\ base' = BytesOf(Len(frames')) /\ rpos' = hdr'
    <3>1. lost = 0 /\ base = BytesOf(Len(frames)) /\ rpos = hdr
      BY <1>7, <2>2 DEF PathInv, PatientInv
    <3>2. rpos - hdr = 0
      BY <1>4, <3>1
    <3>3. PICK a \in Nat, b \in Nat : rpos' = a /\ hdr' = b
      BY <1>7
    <3>4. a - b = 0
      BY <1>7, <3>2, <3>3
    <3>5. rpos' = hdr'
      BY <3>3, <3>4
    <3>6. QED
      BY <1>1, <3>1, <3>5
  <2>3. QED
    BY <1>7, <2>1, <2>2 DEF PatientInv
<1>8. CASE /\ phase = "resolve_length" /\ pc = "epoll" /\ phase' = "copy_to_buffer"
           /\ \E n \in Nat \ {0} : /\ wpos' = wpos + n /\ taken' = taken + n /\ taken + n <= arrived
           /\ rpos' = rpos + 1 /\ hdr' = 1 /\ len' = PacketSize - 1
           /\ allowed' = PacketSize - wpos' /\ pc' = "ready" /\ fault' = fault
           /\ hazards' = IF allowed' < 0 THEN hazards \cup {"read_ahead"} ELSE hazards
  <2>1. hdr = 0 /\ rpos = wpos
    BY <1>1, <1>8 DEF PathInv, PhaseInv
  <2>2. PICK n \in Nat \ {0} : wpos' = wpos + n /\ taken' = taken + n /\ taken + n <= arrived
    BY <1>8
  <2>3. rpos' - hdr' = rpos - hdr /\ rpos' \in Nat /\ hdr' <= rpos'
    BY <1>4, <1>8, <2>1
  <2>4. Path!From' = Path!From
    BY <1>1, <1>4, <1>5, <2>3
  <2>5. Path!From < taken' /\ taken' \in Nat /\ wpos' \in Nat /\ taken <= taken' /\ taken' <= arrived
    BY <1>4, <2>2
  <2>6. base + wpos' = taken'
    BY <1>4, <2>2
  <2>7. PhaseInv'
    BY <1>1, <1>2, <1>8, <2>4, <2>5 DEF PhaseInv
  <2>8. allowed' \in Int
    BY <1>4, <1>8, <2>5
  <2>9. ASSUME ~ early PROVE "read_ahead" \notin hazards'
    <3>1. /\ lost = 0 /\ base = BytesOf(Len(frames)) /\ Len(toServer) <= 1
          /\ "read_ahead" \notin hazards
      BY <2>9 DEF PathInv, PatientInv
    <3>2. Passed \in Nat /\ Len(frames) \in Nat /\ Len(toServer) \in Nat
      BY Standing
    <3>3. Passed = Len(frames) /\ Passed + Len(toServer) \in Nat
          /\ Passed + Len(toServer) <= Passed + 1
      BY <3>1, <3>2 DEF Passed
    <3>4. /\ BytesOf(Passed + Len(toServer)) <= BytesOf(Passed + 1)
          /\ BytesOf(Passed + Len(toServer)) \in Nat
          /\ BytesOf(Passed + 1) = BytesOf(Passed) + PacketSize /\ BytesOf(Passed) \in Nat
      BY <3>2, <3>3, BytesGrow, BytesMore
    <3>5. arrived <= BytesOf(Passed + Len(toServer))
      BY DEF PathInv, StreamInv
    <3>6. taken' <= base + PacketSize
      <4>1. base = BytesOf(Passed)
        BY <3>1, <3>3
      <4>2. BytesOf(Passed + Len(toServer)) <= base + PacketSize
        BY <3>4, <4>1
      <4>3. QED
        BY <1>4, <2>5, <3>4, <3>5, <4>2
    <3>7. allowed' >= 0
      BY <1>4, <1>8, <2>5, <2>6, <3>6
    <3>8. QED
      BY <1>8, <2>8, <3>1, <3>7
  <2>10. "read_ahead" \notin hazards' => allowed' >= 0
    BY <1>8, <2>8
  <2>11. StreamInv'
    BY <1>1, <1>4, <1>6, <1>8, <2>3, <2>4, <2>5, <2>6
  <2>12. PatientInv'
    BY <1>1, <1>7, <1>8, <2>3, <2>9, <2>10
  <2>13. QED
    BY <1>3, <2>7, <2>11, <2>12
<1>9. CASE /\ phase = "copy_to_buffer" /\ pc = "epoll"
           /\ \E n \in Nat \ {0} : /\ wpos' = wpos + n /\ taken' = taken + n /\ taken + n <= arrived
                                   /\ n <= allowed /\ allowed' = allowed - n
           /\ pc' = "ready" /\ UNCHANGED <<rpos, hdr, len, phase, fault, hazards>>
  <2>1. PICK n \in Nat \ {0} : /\ wpos' = wpos + n /\ taken' = taken + n /\ taken + n <= arrived
                               /\ n <= allowed /\ allowed' = allowed - n
    BY <1>9
  <2>2. Path!From' = Path!From
    BY <1>1, <1>5, <1>9 DEF Path!From
  <2>3. Path!From < taken' /\ taken' \in Nat /\ wpos' \in Nat /\ taken <= taken' /\ taken' <= arrived
    BY <1>4, <2>1
  <2>4. base + wpos' = taken'
    BY <1>4, <2>1
  <2>5. allowed' = PacketSize - wpos' /\ hdr = 1 /\ len = PacketSize - 1
    <3>1. allowed = PacketSize - wpos /\ hdr = 1 /\ len = PacketSize - 1
      BY <1>9 DEF PathInv, PhaseInv
    <3>2. QED
      BY <1>4, <2>1, <3>1
  <2>6. PhaseInv'
    BY <1>1, <1>2, <1>9, <2>2, <2>3, <2>5 DEF PhaseInv
  <2>7. rpos' - hdr' = rpos - hdr /\ rpos' \in Nat /\ hdr' <= rpos' /\ hdr' \in {0, 1}
    BY <1>4, <1>9
  <2>8. allowed' >= 0
    BY <1>4, <2>1
  <2>9. PatientInv'
    BY <1>1, <1>7, <1>9, <2>7, <2>8 DEF PathInv, PatientInv
  <2>10. QED
    BY <1>1, <1>3, <1>6, <1>9, <2>2, <2>3, <2>4, <2>6, <2>7, <2>9
<1>10. CASE /\ pc = "epoll" /\ pc' = "ready" /\ fault' = "primary_overrun"
            /\ \E n \in 1 .. allowed : /\ taken' = taken + n /\ taken + n <= arrived
                                       /\ wpos + n > PrimarySize
            /\ UNCHANGED <<wpos, rpos, hdr, len, allowed, phase, hazards>>
  <2>1. PICK n \in 1 .. allowed : /\ taken' = taken + n /\ taken + n <= arrived
                                  /\ wpos + n > PrimarySize
    BY <1>10
  <2>2. Path!From' = Path!From
    BY <1>1, <1>5, <1>10 DEF Path!From
  <2>3. phase = "resolve_length"
    <3>1. CASE allowed = PacketSize - wpos
      BY <1>4, <2>1, <3>1
    <3>2. QED
      BY <3>1 DEF PathInv, PhaseInv
  <2>4. hdr = 0 /\ rpos = wpos /\ allowed = PrimarySize /\ len = 0
    BY <1>1, <1>10, <2>3 DEF PathInv, PhaseInv
  <2>5. PhaseInv'
    BY <1>10, <2>3, <2>4 DEF PhaseInv
  <2>6. taken' \in Nat /\ taken <= taken' /\ taken' <= arrived
    BY <1>4, <2>1
  <2>7. StreamInv'
    BY <1>4, <1>6, <1>10, <2>2, <2>6
  <2>8. PatientInv'
    <3>1. "read_ahead" \in hazards
      <4>1. CASE "read_ahead" \notin hazards
        <5>1. rpos = 0
          BY <2>4, <4>1 DEF PathInv, PatientInv
        <5>2. QED
          BY <1>4, <2>1, <2>4, <5>1
      <4>2. QED
        BY <4>1
    <3>2. early
      BY <3>1 DEF PathInv, PatientInv
    <3>3. QED
      BY <1>1, <1>10, <3>1, <3>2 DEF PatientInv
  <2>9. QED
    BY <1>3, <2>5, <2>7, <2>8
<1>11. CASE /\ phase = "resolve_length" /\ pc = "epoll" /\ pc' = "gone"
            /\ \E n \in Nat \ {0} : /\ wpos' = wpos + n /\ taken' = taken + n /\ taken + n <= arrived
            /\ UNCHANGED <<rpos, hdr, len, allowed, phase, fault, hazards>>
  <2>1. PICK n \in Nat \ {0} : wpos' = wpos + n /\ taken' = taken + n /\ taken + n <= arrived
    BY <1>11
  <2>2. Path!From' = Path!From
    BY <1>1, <1>5, <1>11 DEF Path!From
  <2>3. taken' \in Nat /\ wpos' \in Nat /\ taken <= taken' /\ taken' <= arrived /\ base + wpos' = taken'
    BY <1>4, <2>1
  <2>4. PhaseInv'
    BY <1>11 DEF PathInv, PhaseInv
  <2>5. PatientInv'
    BY <1>1, <1>4, <1>7, <1>11 DEF PathInv, PatientInv
  <2>6. QED
    BY <1>1, <1>3, <1>4, <1>6, <1>11, <2>2, <2>3, <2>4, <2>5
<1>12. CASE /\ pc = "ready" /\ pc' = "epoll" /\ allowed > 0
            /\ UNCHANGED <<taken, wpos, rpos, hdr, len, allowed, phase, fault, hazards>>
  <2>1. Path!From' = Path!From
    BY <1>1, <1>5, <1>12 DEF Path!From
  <2>2. phase = "copy_to_buffer"
    BY <1>1, <1>12 DEF PathInv, PhaseInv
  <2>3. PhaseInv'
    BY <1>2, <1>12, <2>1, <2>2 DEF PathInv, PhaseInv
  <2>4. taken <= arrived
    BY DEF PathInv, StreamInv
  <2>5. PatientInv'
    BY <1>1, <1>4, <1>7, <1>12 DEF PathInv, PatientInv
  <2>6. QED
    BY <1>1, <1>3, <1>4, <1>6, <1>12, <2>1, <2>3, <2>4, <2>5
<1>13. CASE /\ pc = "ready" /\ fault' = "truncated_read" /\ allowed <= 0
            /\ taken < Path!From + Path!TotalLength
            /\ UNCHANGED <<taken, wpos, rpos, hdr, len, allowed, phase, pc, hazards>>
  <2>1. Path!From' = Path!From
    BY <1>1, <1>5, <1>13 DEF Path!From
  <2>2. phase = "copy_to_buffer"
    BY <1>1, <1>13 DEF PathInv, PhaseInv
  <2>3. PhaseInv'
    BY <1>2, <1>13, <2>1, <2>2 DEF PathInv, PhaseInv
  <2>4. taken <= arrived
    BY DEF PathInv, StreamInv
  <2>5. PatientInv'
    <3>1. "read_ahead" \in hazards
      <4>1. CASE "read_ahead" \notin hazards
        <5>1. rpos = hdr /\ allowed >= 0
          BY <2>2, <4>1 DEF PathInv, PatientInv
        <5>2. hdr = 1 /\ len = PacketSize - 1 /\ allowed = PacketSize - wpos
          BY <2>2 DEF PathInv, PhaseInv
        <5>3. Path!TotalLength = PacketSize
          BY <1>4, <5>2 DEF Path!TotalLength
        <5>4. QED
          BY <1>4, <1>13, <5>1, <5>2, <5>3
      <4>2. QED
        BY <4>1
    <3>2. early
      BY <3>1 DEF PathInv, PatientInv
    <3>3. QED
      BY <1>1, <1>13, <3>1, <3>2 DEF PatientInv
  <2>6. QED
    BY <1>3, <1>4, <1>6, <1>13, <2>1, <2>3, <2>4, <2>5
<1>14. QED
  BY <1>8, <1>9, <1>10, <1>11, <1>12, <1>13, ReceiveSteps

\* What a handler does to the queue.
LEMMA ServerQueue ==
  ASSUME SessionTypeOK, Server
  PROVE  /\ open /\ toServer # << >> /\ UNCHANGED clientVars
         /\ \/ toServer' = Tail(toServer) /\ open' \in BOOLEAN
            \/ toServer' = toServer /\ open' = FALSE
  BY DEF Server, handshake, status_request, ping_request, login_start, login_acknowledged,
         client_information, acknowledge_finish_config, inert, Kick, OutOfTable, Take, SessionTypeOK

\* A packet is handled when its last byte has come; reset() goes on behind what
\* was taken.
LEMMA HandlePath ==
  ASSUME PathInv, Handle
  PROVE  CountInv' /\ PhaseInv' /\ StreamInv' /\ PatientInv'
<1>1. Path!Dispatch /\ Server /\ UNCHANGED <<lost, early>> /\ Serving
  BY DEF Handle
<1>2. /\ open /\ toServer # << >> /\ UNCHANGED clientVars
      /\ \/ toServer' = Tail(toServer) /\ open' \in BOOLEAN
         \/ toServer' = toServer /\ open' = FALSE
  BY <1>1, ServerQueue DEF PathInv
<1>3. /\ pc = "ready" /\ fault = "none" /\ allowed <= 0
      /\ base' = Path!NextBase /\ rpos' = Path!Overflow /\ wpos' = Path!Overflow
      /\ hdr' = 0 /\ len' = 0 /\ allowed' = PrimarySize /\ phase' = "resolve_length"
      /\ target' = "primary" /\ pc' = "epoll" /\ UNCHANGED <<arrived, peer, taken>>
  BY <1>1 DEF Path!Dispatch, Path!Ready, Path!FeedAt, Path!clientVars
<1>4. /\ PacketSize \in Nat /\ PacketSize > 1 /\ PacketSize <= PrimarySize /\ PrimarySize \in Nat
  BY ConnectionAssumption DEF ConnectionAssumption
<1>5. phase = "copy_to_buffer" /\ hdr = 1 /\ len = PacketSize - 1 /\ allowed = PacketSize - wpos
      /\ Path!From < taken /\ Path!From = BytesOf(Passed)
  BY <1>3 DEF PathInv, PhaseInv
<1>6. /\ peer = "open" /\ sec = "null"
      /\ arrived \in Nat /\ taken \in Nat /\ base \in Nat /\ wpos \in Nat /\ rpos \in Nat
      /\ taken <= arrived /\ arrived <= BytesOf(NumPackets)
      /\ arrived <= BytesOf(Passed + Len(toServer)) /\ base + wpos = taken
  BY <1>3 DEF PathInv, StreamInv
<1>7. /\ Passed \in Nat /\ Len(frames) \in Nat /\ lost \in Nat /\ Len(toServer) \in Nat
      /\ Path!From \in Nat
  BY Standing
<1>8. sec' = "null" /\ fault' = "none"
  BY <1>1, <1>4, <1>5, <1>6
     DEF Path!Dispatch, Path!FreeSecondary, Path!CopiesFromPrimary, Path!TotalLength
<1>9. frames' \in Seq(Path!Frame) /\ Len(frames') = Len(frames) + 1
  <2>1. [from |-> Path!From, size |-> Path!TotalLength, got |-> taken - Path!From,
         clean |-> hazards = {}] \in Path!Frame
    BY <1>4, <1>5, <1>6, <1>7 DEF Path!Frame, Path!TotalLength
  <2>2. frames' = Append(frames, [from |-> Path!From, size |-> Path!TotalLength,
                                  got |-> taken - Path!From, clean |-> hazards = {}])
    BY <1>1 DEF Path!Dispatch
  <2>3. QED
    BY <2>1, <2>2, AppendFacts DEF PathInv, CountInv
<1>10. Passed' = Passed + 1
  BY <1>1, <1>7, <1>9 DEF Passed
<1>11. PICK over \in Nat : over = Path!Overflow /\ over = wpos - PacketSize
  <2>1. Path!Overflow = wpos - PacketSize /\ Path!Overflow \in Nat
    BY <1>3, <1>4, <1>5, <1>6 DEF Path!Overflow
  <2>2. QED
    BY <2>1
<1>12. base' + wpos' = taken /\ base' \in Nat
  <2>1. CASE over > 0
    <3>1. Path!NextBase = base + PacketSize
      BY <1>4, <1>5, <1>11, <2>1 DEF Path!NextBase, Path!TotalLength
    <3>2. QED
      BY <1>3, <1>4, <1>6, <1>11, <3>1
  <2>2. CASE over = 0
    BY <1>3, <1>6, <1>11, <2>2 DEF Path!NextBase
  <2>3. QED
    BY <1>11, <2>1, <2>2
<1>13. rpos' = wpos' /\ wpos' \in Nat /\ hdr' = 0
  BY <1>3, <1>11
<1>14. Path!From' = taken
  <2>1. Path!From' = base' + (rpos' - hdr')
    BY DEF Path!From
  <2>2. PICK a \in Nat, b \in Nat : base' = a /\ wpos' = b /\ rpos' = b /\ hdr' = 0
    BY <1>12, <1>13
  <2>3. QED
    BY <1>12, <2>1, <2>2
<1>15. CountInv'
  <2>1. Told' = Told /\ Told \in Nat
    BY <1>2, SessionAssumption DEF clientVars, Told, PathInv, SessionTypeOK, SessionAssumption, States
  <2>2. Told <= NumPackets
    BY SessionAssumption DEF PathInv, SessionTypeOK, Told, NumPackets, SessionAssumption, States
  <2>3. Passed + Len(toServer) <= Told
    BY <1>2, <1>7, <2>1 DEF PathInv, CountInv
  <2>4. Len(toServer) >= 1
    BY <1>2, <1>7
  <2>5. Passed' <= NumPackets
    BY <1>7, <1>10, <2>1, <2>2, <2>3, <2>4, StartsAre
  <2>6. CASE toServer' = Tail(toServer) /\ open' \in BOOLEAN
    <3>1. Len(toServer') = Len(toServer) - 1
      BY <1>2, <2>6, TailFacts DEF PathInv, SessionTypeOK
    <3>2. Passed' + Len(toServer') <= Told'
      BY <1>7, <1>10, <2>1, <2>3, <3>1
    <3>3. Passed' + Len(toServer') <= Told' + (IF open' THEN 0 ELSE 1)
      <4>1. Passed' + Len(toServer') \in Nat
        BY <1>7, <1>10, <2>4, <3>1
      <4>2. QED
        BY <2>1, <3>2, <4>1
    <3>4. QED
      BY <1>1, <1>7, <1>9, <2>5, <3>3 DEF CountInv
  <2>7. CASE toServer' = toServer /\ open' = FALSE
    <3>1. Passed' + Len(toServer') <= Told' + 1
      BY <1>7, <1>10, <2>1, <2>3, <2>7
    <3>2. QED
      BY <1>1, <1>7, <1>9, <2>5, <2>7, <3>1 DEF CountInv
  <2>8. QED
    BY <1>2, <2>6, <2>7
<1>16. PhaseInv'
  BY <1>3, <1>13 DEF PhaseInv
<1>17. BytesOf(Passed + 1) <= taken \/ taken % PacketSize # 0
  BY <1>5, <1>6, <1>7, NextPacket
<1>18. arrived' <= BytesOf(Passed' + Len(toServer'))
  <2>1. /\ Passed + Len(toServer) \in Nat /\ Passed' + Len(toServer') \in Nat
        /\ Passed + Len(toServer) <= Passed' + Len(toServer')
    <3>1. \/ Len(toServer') = Len(toServer)
          \/ Len(toServer') = Len(toServer) - 1 /\ Len(toServer) >= 1
      BY <1>2, <1>7, TailFacts DEF PathInv, SessionTypeOK
    <3>2. QED
      BY <1>7, <1>10, <3>1
  <2>2. BytesOf(Passed + Len(toServer)) <= BytesOf(Passed' + Len(toServer'))
    BY <2>1, BytesGrow
  <2>3. BytesOf(Passed + Len(toServer)) \in Nat /\ BytesOf(Passed' + Len(toServer')) \in Nat
    BY <2>1, BytesMore
  <2>4. QED
    BY <1>3, <1>6, <2>2, <2>3
<1>19. StreamInv'
  <2>1. ~ Derailed' => BytesOf(Passed') <= Path!From'
    BY <1>10, <1>14, <1>17 DEF Derailed
  <2>2. hdr' <= rpos'
    BY <1>13
  <2>3. QED
    BY <1>3, <1>6, <1>8, <1>12, <1>13, <1>14, <1>18, <2>1, <2>2 DEF StreamInv
<1>20. PatientInv'
  <2>1. hazards' = hazards /\ early' = early
    BY <1>1 DEF Path!Dispatch
  <2>2. ASSUME ~ early' PROVE Len(toServer') <= 1 /\ "read_ahead" \notin hazards'
    <3>1. Len(toServer) <= 1 /\ "read_ahead" \notin hazards
      BY <2>1, <2>2 DEF PathInv, PatientInv
    <3>2. Len(toServer') <= 1
      BY <1>2, <1>7, <3>1, TailFacts DEF PathInv, SessionTypeOK
    <3>3. QED
      BY <2>1, <3>1, <3>2
  <2>3. ASSUME "read_ahead" \notin hazards'
        PROVE  lost' = 0 /\ base' = BytesOf(Len(frames')) /\ rpos' = hdr'
    <3>1. lost = 0 /\ base = BytesOf(Len(frames)) /\ rpos = hdr /\ allowed >= 0
      BY <1>5, <2>1, <2>3 DEF PathInv, PatientInv
    <3>2. over = 0 /\ wpos = PacketSize
      BY <1>3, <1>4, <1>5, <1>6, <1>11, <3>1
    <3>3. base' = taken
      BY <1>3, <1>11, <3>2 DEF Path!NextBase
    <3>4. taken = base + PacketSize
      BY <1>6, <3>2
    <3>5. BytesOf(Len(frames) + 1) = base + PacketSize
      BY <1>7, <3>1, BytesMore
    <3>6. QED
      BY <1>1, <1>3, <1>9, <1>11, <3>1, <3>2, <3>3, <3>4, <3>5
  <2>4. QED
    BY <1>3, <1>8, <2>2, <2>3 DEF PatientInv
<1>21. QED
  BY <1>15, <1>16, <1>19, <1>20
------------------------------------------------------------------------------

\* Wherever the network cuts the stream and whatever the client sends, the receive
\* path is where the counts of packets say it is (listen, reset).
THEOREM PathInvariant == ConnSpec => []PathInv
<1>1. ConnInit => PathInv
  <2> SUFFICES ASSUME ConnInit PROVE PathInv
    OBVIOUS
  <2>1. SessionTypeOK
    BY SessionInit DEF ConnInit, SessionInv
  <2>2. Passed = 0 /\ Len(toServer) = 0 /\ BytesOf(0) = 0 /\ BytesOf(NumPackets) \in Nat
    <3>1. frames = << >> /\ toServer = << >> /\ lost = 0
      BY DEF ConnInit, Init, Path!Init
    <3>2. Passed = 0 /\ Len(toServer) = 0
      BY <3>1 DEF Passed
    <3>3. QED
      BY <3>2, BytesMore, StartsAre
  <2>3. Path!From = 0
    BY DEF ConnInit, Path!Init, Path!From
  <2>4. CountInv
    BY <2>2, SessionAssumption DEF SessionAssumption, ConnInit, Init, Path!Init, CountInv, Told, NumPackets
  <2>5. PhaseInv
    BY DEF ConnInit, Path!Init, PhaseInv
  <2>6. StreamInv
    BY <2>2, <2>3 DEF ConnInit, Path!Init, StreamInv
  <2>7. PatientInv
    BY <2>2 DEF ConnInit, Path!Init, PatientInv
  <2>8. QED
    BY <2>1, <2>4, <2>5, <2>6, <2>7 DEF PathInv
<1>2. PathInv /\ [ConnNext]_connVars => PathInv'
  <2> SUFFICES ASSUME PathInv, [ConnNext]_connVars PROVE PathInv'
    OBVIOUS
  <2>1. SessionTypeOK /\ (Next \/ UNCHANGED vars => SessionTypeOK')
    BY SessionTypeStep DEF PathInv, SessionTypeOK, vars, serverVars, clientVars
  <2>2. CASE ClientStep(ClientHandshake) \/ ClientStep(ClientSends) \/ ClientStep(ClientReceives)
    <3>1. Next
      BY <2>2 DEF ClientStep, Next, Client
    <3>2. QED
      BY <2>1, <2>2, <3>1, ClientPath DEF PathInv
  <2>3. CASE Deliver
    BY <2>1, <2>3, DeliverPath DEF PathInv, Deliver
  <2>4. CASE Receive
    BY <2>1, <2>4, ReceivePath DEF PathInv, Receive
  <2>5. CASE Handle
    <3>1. Next
      BY <2>5 DEF Handle, Next
    <3>2. QED
      BY <2>1, <2>5, <3>1, HandlePath DEF PathInv
  <2>6. CASE Lose
    <3>1. toServer # << >> /\ toServer' = Tail(toServer) /\ UNCHANGED <<serverVars, toClient, clientVars>>
      BY <2>6, LosePath DEF Lose
    <3>2. SessionTypeOK'
      BY <2>1, <3>1, RestFacts DEF SessionTypeOK, serverVars, clientVars
    <3>3. QED
      BY <2>6, <3>2, LosePath DEF PathInv
  <2>7. CASE UNCHANGED connVars
    <3>1. UNCHANGED <<Passed, Path!From, Derailed, Told, vars, pathVars, lost, early, toServer, open>>
      BY <2>7 DEF connVars, vars, pathVars, serverVars, clientVars, Passed, Path!From, Derailed, Told
    <3>2. CountInv' /\ PhaseInv' /\ StreamInv' /\ PatientInv'
      BY <3>1 DEF PathInv, CountInv, PhaseInv, StreamInv, PatientInv, pathVars
    <3>3. QED
      BY <2>1, <3>1, <3>2 DEF PathInv
  <2>8. QED
    BY <2>2, <2>3, <2>4, <2>5, <2>6, <2>7 DEF ConnNext, Worker
<1>3. QED
  BY <1>1, <1>2, PTL DEF ConnSpec

\* Every variable of the session keeps its type, whatever is lost on the way: the
\* packet that is stepped over had been written (reset).
THEOREM SessionTypes == ConnSpec => []SessionTypeOK
<1>1. PathInv => SessionTypeOK
  BY DEF PathInv
<1>2. QED
  BY <1>1, PathInvariant, PTL
------------------------------------------------------------------------------
(* The receive path under a session is the one of Framing. *)

\* The packets of a connection are as Framing wants them.
LEMMA PathAssumption == Path!FramingAssumption
<1>1. /\ PrimarySize \in Nat /\ PrimarySize > 1 /\ NumPackets \in Nat \ {0}
      /\ PacketSize \in Nat /\ 1 < PacketSize
  BY ConnectionAssumption, SessionAssumption
     DEF ConnectionAssumption, SessionAssumption, NumPackets
<1>2. \A p \in 1 .. NumPackets + 1 : p - 1 \in Nat /\ StartOf[p] = BytesOf(p - 1)
                                   /\ BytesOf(p - 1) \in Nat
  BY <1>1, StartsAre, BytesMore
<1>3. StartOf \in [1 .. NumPackets + 1 -> Nat] /\ StartOf[1] = 0
  <2>1. 1 \in 1 .. NumPackets + 1 /\ BytesOf(1 - 1) = 0
    BY <1>1, BytesMore
  <2>2. StartOf = [p \in 1 .. NumPackets + 1 |-> StartOf[p]]
    BY DEF StartOf
  <2>3. QED
    BY <1>2, <2>1, <2>2
<1>4. ASSUME NEW p \in 1 .. NumPackets, NEW q \in p + 1 .. NumPackets + 1
      PROVE  StartOf[p] + [i \in 1 .. NumPackets |-> 1][p] < StartOf[q]
  <2>1. /\ p \in 1 .. NumPackets + 1 /\ q \in 1 .. NumPackets + 1
        /\ p - 1 \in Nat /\ q - 1 \in Nat /\ p - 1 < q - 1
    BY <1>1
  <2>2. BytesOf((p - 1) + 1) <= BytesOf(q - 1)
    BY <2>1, BytesGrow
  <2>3. BytesOf((p - 1) + 1) = BytesOf(p - 1) + PacketSize
    BY <2>1, BytesMore
  <2>4. BytesOf(p - 1) + PacketSize <= BytesOf(q - 1) /\ BytesOf(p - 1) \in Nat
        /\ BytesOf(q - 1) \in Nat
    BY <2>1, <2>2, <2>3, BytesMore
  <2>5. StartOf[p] + PacketSize <= StartOf[q] /\ StartOf[p] \in Nat /\ StartOf[q] \in Nat
    BY <1>2, <2>1, <2>4
  <2>6. [i \in 1 .. NumPackets |-> 1][p] = 1
    OBVIOUS
  <2>7. QED
    BY <1>1, <2>5, <2>6
<1>5. QED
  BY <1>1, <1>3, <1>4 DEF Path!FramingAssumption, Path!Packets

\* Whatever the client does, its receive path takes the steps of Framing and no
\* others: what is proved of Framing holds of every connection (listen).
THEOREM PathIsFraming == ConnSpec => Path!Spec
<1>1. ConnInit => Path!Init
  BY DEF ConnInit
<1>2. [ConnNext]_connVars => [Path!Next]_(Path!vars)
  <2>1. CASE UNCHANGED pathVars
    BY <2>1 DEF pathVars, Path!vars
  <2>2. CASE Deliver
    BY <2>2 DEF Deliver, Path!Next
  <2>3. CASE Receive
    BY <2>3 DEF Receive, Path!Next
  <2>4. CASE Handle
    BY <2>4 DEF Handle, Path!Next, Path!Worker
  <2>5. QED
    BY <2>1, <2>2, <2>3, <2>4 DEF ConnNext, ClientStep, Worker, Lose, connVars
<1>3. QED
  BY <1>1, <1>2, PTL DEF ConnSpec, Path!Spec

Proved == INSTANCE FramingProof WITH
            MaxHeader <- 1, Window <- NumPackets, Stray <- {},
            Start <- StartOf, HdrLen <- [p \in 1 .. NumPackets |-> 1]

\* The theorems of the receive path hold of the one below a session.
LEMMA FramedExactly == ConnSpec => []Path!ExactUnlessHazard
<1>1. Proved!FramingAssumption
  BY PathAssumption
     DEF Path!FramingAssumption, Path!Packets, Proved!FramingAssumption, Proved!Packets
<1>2. Proved!Spec => []Proved!ExactUnlessHazard
  BY <1>1, Proved!PacketsExact
<1>3. Path!Init => Proved!Init
  BY DEF Path!Init, Proved!Init
<1>4. [Path!Next]_(Path!vars) => [Proved!Next]_(Proved!vars)
  BY DEF Path!Packets, Proved!Packets, Path!Total, Proved!Total,
         Path!TotalLength, Proved!TotalLength, Path!From, Proved!From,
         Path!clientVars, Proved!clientVars, Path!vars, Proved!vars,
         Path!Horizon, Proved!Horizon, Path!Arrive, Proved!Arrive,
         Path!Hangup, Proved!Hangup, Path!Recv, Proved!Recv,
         Path!RecvToPrimary, Proved!RecvToPrimary, Path!Overrun, Proved!Overrun,
         Path!Prefixes, Proved!Prefixes, Path!BadLength, Proved!BadLength,
         Path!ResolvePartial, Proved!ResolvePartial,
         Path!ResolveMinusOne, Proved!ResolveMinusOne,
         Path!AfterMinusOne, Proved!AfterMinusOne,
         Path!NoPacketId, Proved!NoPacketId,
         Path!CopiesFromPrimary, Proved!CopiesFromPrimary,
         Path!LengthKnown, Proved!LengthKnown, Path!BytesToRead, Proved!BytesToRead,
         Path!FitsPrimary, Proved!FitsPrimary, Path!ResolveFits, Proved!ResolveFits,
         Path!ResolveSpills, Proved!ResolveSpills,
         Path!ResolveLength, Proved!ResolveLength, Path!Malformed, Proved!Malformed,
         Path!FillsPrimary, Proved!FillsPrimary, Path!Transition, Proved!Transition,
         Path!CopyToBuffer, Proved!CopyToBuffer, Path!RecvFails, Proved!RecvFails,
         Path!ReadyOnFreed, Proved!ReadyOnFreed, Path!Ready, Proved!Ready,
         Path!NotReady, Proved!NotReady, Path!TruncatedRead, Proved!TruncatedRead,
         Path!Overflow, Proved!Overflow, Path!FeedAt, Proved!FeedAt,
         Path!NextBase, Proved!NextBase, Path!FreeSecondary, Proved!FreeSecondary,
         Path!Dispatch, Proved!Dispatch, Path!Worker, Proved!Worker,
         Path!Next, Proved!Next
<1>5. Proved!ExactUnlessHazard => Path!ExactUnlessHazard
  BY DEF Path!ExactUnlessHazard, Proved!ExactUnlessHazard,
         Path!FramesExact, Proved!FramesExact, Path!NothingLeft, Proved!NothingLeft,
         Path!Exact, Proved!Exact, Path!Packets, Proved!Packets,
         Path!Total, Proved!Total
<1>6. QED
  BY <1>2, <1>3, <1>4, <1>5, PathIsFraming, PTL DEF Path!Spec, Proved!Spec

\* Packets that fit in primary never take the receive path to a secondary buffer.
OnlyReadAhead == hazards \subseteq {"read_ahead"}

LEMMA ShortPackets == ConnSpec => []OnlyReadAhead
<1>1. ConnInit => OnlyReadAhead
  BY DEF ConnInit, Path!Init, OnlyReadAhead
<1>2. PathInv /\ OnlyReadAhead /\ [ConnNext]_connVars => OnlyReadAhead'
  <2> SUFFICES ASSUME PathInv, OnlyReadAhead, [ConnNext]_connVars PROVE OnlyReadAhead'
    OBVIOUS
  <2>1. CASE Receive
    BY <2>1, ReceiveSteps DEF OnlyReadAhead
  <2>2. CASE Deliver \/ Handle
    BY <2>2 DEF Deliver, Handle, Path!Arrive, Path!Dispatch, OnlyReadAhead
  <2>3. CASE UNCHANGED hazards
    BY <2>3 DEF OnlyReadAhead
  <2>4. QED
    BY <2>1, <2>2, <2>3 DEF ConnNext, ClientStep, Worker, Lose, connVars, pathVars
<1>3. QED
  BY <1>1, <1>2, PathInvariant, PTL DEF ConnSpec

\* A packet is only lost, and the stream only cut where no packet begins, after a
\* recv() that returned bytes of two packets, until when the handlers get exactly
\* the client's packets; and never when the client waits until its last packet was
\* handled (resolve_length, reset, listen).
THEOREM PatientClients == ConnSpec => []PatientClientSafe
<1>1. PathInv => LossNeedsReadAhead
  <2> SUFFICES ASSUME PathInv, "read_ahead" \notin hazards
               PROVE  ~ (lost > 0) /\ ~ Derailed /\ fault = "none"
    BY DEF LossNeedsReadAhead
  <2>1. lost = 0 /\ fault = "none" /\ base = BytesOf(Len(frames)) /\ rpos = hdr
    BY DEF PathInv, PatientInv
  <2>2. Path!From = base
    BY <2>1, Standing DEF PathInv, StreamInv, Path!From
  <2>3. Path!From % PacketSize = 0
    BY <2>1, <2>2, Standing, BytesWhole
  <2>4. QED
    BY <2>1, <2>3, Standing
<1>2. PathInv => ReadAheadNeedsHaste
  BY DEF PathInv, PatientInv, ReadAheadNeedsHaste
<1>3. PathInv /\ OnlyReadAhead /\ Path!ExactUnlessHazard => PacketsWhole
  <2> SUFFICES ASSUME PathInv, OnlyReadAhead, Path!ExactUnlessHazard, "read_ahead" \notin hazards
               PROVE  /\ \A i \in DOMAIN frames : Path!Exact(i)
                      /\ pc = "epoll" /\ taken = arrived =>
                           \A p \in Path!Packets : arrived >= StartOf[p + 1] => p <= Len(frames)
    BY DEF PacketsWhole
  <2>1. hazards = {} /\ fault = "none"
    BY DEF OnlyReadAhead, PathInv, PatientInv
  <2>2. QED
    BY <2>1 DEF Path!ExactUnlessHazard, Path!FramesExact, Path!NothingLeft
<1>4. PathInv /\ OnlyReadAhead /\ Path!ExactUnlessHazard => PatientClientSafe
  BY <1>1, <1>2, <1>3 DEF PatientClientSafe
<1>5. QED
  BY <1>4, PathInvariant, ShortPackets, FramedExactly, PTL

\* A client that waits loses nothing.
LEMMA WaitingLosesNothing ==
  ASSUME ConnInv, PatientClientSafe, ~ early
  PROVE  lost = 0
<1>1. ~ (lost > 0)
  BY DEF PatientClientSafe, LossNeedsReadAhead, ReadAheadNeedsHaste
<1>2. QED
  BY <1>1 DEF ConnInv

\* So for a client that waits and keeps to the protocol, the session holds all it
\* promises: its packets go to their own handlers, it gets its one player, both
\* sides agree on the state, and when nothing is under way it is only left waiting
\* for a reply that was not written.
THEOREM WaitingClients ==
  ConnSpec => [](~ early => /\ RightHandler /\ OnePlayer
                            /\ StatesAgree /\ RepliesInState /\ LoginsSettle)
<1>1. ConnInv /\ HandlersKept /\ StatesKept /\ PatientClientSafe /\ ~ early =>
        /\ RightHandler /\ OnePlayer
        /\ StatesAgree /\ RepliesInState /\ LoginsSettle
  BY WaitingLosesNothing DEF HandlersKept, StatesKept
<1>2. QED
  BY <1>1, SessionInvariant, OwnHandlers, AgreedStates, PatientClients, PTL

\* As long as no packet is stepped over, and so for a client that waits, the
\* connection implements Session: below the handlers nothing is left of buffers,
\* partial reads and offsets (listen, ready, reset).
THEOREM ConnectionIsSession ==
  /\ ConnSpec /\ [](lost = 0) => Spec
  /\ ConnSpec /\ []~ early => Spec
<1>1. ConnInit => Init
  BY DEF ConnInit
<1>2. lost = 0 /\ (lost = 0)' /\ [ConnNext]_connVars => [Next]_vars
  <2> SUFFICES ASSUME lost = 0, lost' = 0, [ConnNext]_connVars PROVE [Next]_vars
    OBVIOUS
  <2>1. ~ Lose
    BY DEF Lose
  <2>2. CASE ClientStep(ClientHandshake) \/ ClientStep(ClientSends) \/ ClientStep(ClientReceives)
    BY <2>2 DEF ClientStep, Next, Client
  <2>3. CASE Handle
    BY <2>3 DEF Handle, Next
  <2>4. CASE Deliver \/ Receive \/ UNCHANGED connVars
    BY <2>4 DEF Deliver, Receive, connVars
  <2>5. QED
    BY <2>1, <2>2, <2>3, <2>4 DEF ConnNext, Worker
<1>3. ConnSpec /\ [](lost = 0) => Spec
  BY <1>1, <1>2, PTL DEF ConnSpec, Spec
<1>4. ConnInv /\ PatientClientSafe /\ ~ early => lost = 0
  BY WaitingLosesNothing
<1>5. ConnSpec /\ []~ early => [](lost = 0)
  BY <1>4, SessionInvariant, PatientClients, PTL
<1>6. QED
  BY <1>3, <1>5
=================================================================================
