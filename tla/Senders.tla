-------------------------------- MODULE Senders --------------------------------
(***************************************************************************)
(* The packets that the server really sends, each a fixed sequence of      *)
(* writes into the connection's one WriteBuffer, and besides them any mix  *)
(* of writes, for the senders that are still to come.                      *)
(*                                                                         *)
(*   src/network/connection.cpp  the functions send_*                      *)
(*   src/network/writebuffer.cpp write_string, write_uuid, write_long      *)
(*   src/network/worker.cpp      the handlers, which call them             *)
(*                                                                         *)
(* Sizes are scaled down with the buffer's: what matters is that a UUID    *)
(* does not fit next to the packet id in a new buffer (16 bytes in 16),    *)
(* that everything else does, and that the lengths of long strings take    *)
(* two bytes.                                                              *)
(***************************************************************************)
EXTENDS WritePath

CONSTANTS
  LongSize,   \* bytes of a long
  UuidSize,   \* bytes of a UUID
  ShortText,  \* size of the short texts that the server sends
  LongText,   \* size of the long ones
  NameSizes,  \* sizes of the user names that clients give
  MaxMixed    \* bound on the bytes of a packet of no particular sender

ASSUME SendersAssumption ==
  /\ LongSize \in Nat \ {0} /\ UuidSize \in Nat \ {0}
  /\ ShortText \in Nat /\ LongText \in Nat
  /\ NameSizes \subseteq Nat
  /\ MaxMixed \in Nat

VARIABLES
  sender,  \* who builds the packet: a function's name, "any", or "nobody"
  todo     \* what it has still to write

sendVars == <<vars, sender, todo>>

Copied(n) == [copied |-> TRUE, size |-> n]
Behind(n) == [copied |-> FALSE, size |-> n]

\* write_byte, write_long, write_uuid
Byte == Copied(1)
Long == Copied(LongSize)
Uuid == Copied(UuidSize)

\* write_varint checks the room for each of its bytes.
VarintOf(x) == [i \in 1 .. VarintSize(x) |-> Byte]

\* Mutation: a string's length is not sent.
StringUnsized(n) == IF n > 0 THEN <<Behind(n)>> ELSE << >>

\* An empty string is a length, and no entry.
StringOf(n) == VarintOf(n) \o IF n > 0 THEN <<Behind(n)>> ELSE << >>

\* Mutation: the name goes before the UUID.
NameFirst == {<<Byte>> \o StringOf(n) \o <<Uuid>> \o StringOf(0) : n \in NameSizes}

\* send_login_success
LoginSuccess == {<<Byte, Uuid>> \o StringOf(n) \o StringOf(0) : n \in NameSizes}

\* send_status_response, with the one text that there is
StatusResponse == {<<Byte>> \o StringOf(LongText)}

\* send_pong_response
PongResponse == {<<Byte, Long>>}

\* send_plugin_message_config
PluginMessage == {<<Byte>> \o StringOf(LongText) \o StringOf(ShortText)}

\* send_feature_flags, with the one flag that there is
FeatureFlags == {<<Byte>> \o VarintOf(1) \o StringOf(LongText)}

\* send_finish_config
FinishConfig == {<<Byte>>}

Layouts == [
  send_login_success         |-> LoginSuccess,
  send_status_response       |-> StatusResponse,
  send_pong_response         |-> PongResponse,
  send_plugin_message_config |-> PluginMessage,
  send_feature_flags         |-> FeatureFlags,
  send_finish_config         |-> FinishConfig]

\* What the sizes in the code have in common: a UUID does not fit next to the
\* packet id in a new buffer, in a buffer that has grown a login fits whole, and
\* in a new one the id of a plugin message and the lengths of both its strings.
ASSUME LayoutAssumption ==
  /\ UuidSize >= Capacity
  /\ UuidSize + 2 * Headroom <= Capacity + Extra
  /\ 1 + VarintSize(LongText) + VarintSize(ShortText) <= Capacity
------------------------------------------------------------------------------
\* A handler calls a sender.
Call ==
  /\ sender = "nobody"
  /\ \/ \E s \in DOMAIN Layouts : sender' = s /\ todo' \in Layouts[s]
     \/ sender' = "any" /\ todo' = << >>
  /\ UNCHANGED vars

\* The sender's next write.
NextWrite ==
  /\ todo # << >>
  /\ IF Head(todo).copied THEN Write(Head(todo).size) ELSE WriteBytes(Head(todo).size)
  /\ todo' = Tail(todo)
  /\ UNCHANGED sender

AnyWrite ==
  /\ sender = "any"
  /\ \/ \E n \in OwnSizes : written + n <= MaxMixed /\ Write(n)
     \/ \E n \in StringSizes : written + n <= MaxMixed /\ WriteBytes(n)
  /\ UNCHANGED <<sender, todo>>

\* write_wbuf, up to the end of iov().
Finish ==
  /\ todo = << >>
  /\ LastWrite \/ WriteLength
  /\ UNCHANGED <<sender, todo>>

Send == SendSome /\ UNCHANGED <<sender, todo>>

Return == Sent /\ sender' = "nobody" /\ UNCHANGED todo

Fail == WritevFails /\ sender' = "nobody" /\ UNCHANGED todo

SendersInit == Init /\ sender = "nobody" /\ todo = << >>

SendersNext == Call \/ NextWrite \/ AnyWrite \/ Finish \/ Send \/ Return \/ Fail

\* writev on the nonblocking socket returns, the worker's loop goes on, and a
\* sender that was called does all of its writes.
SendersSpec ==
  /\ SendersInit /\ [][SendersNext]_sendVars
  /\ WF_sendVars(NextWrite \/ Finish \/ Send \/ Return)
------------------------------------------------------------------------------
\* No sender there is makes the buffer grow once one of the packet's entries
\* points into it: the UUID, which alone does not fit, is written before any
\* string (send_login_success, ensure_capacity).
SendersSafe ==
  sender \in DOMAIN Layouts => /\ \A i \in DOMAIN iov : ~ Stale(iov[i])
                               /\ fault \notin {"freed_read", "freed_write"}

\* Under both conditions no entry is left behind by a new buffer: what a packet
\* copies fits in the initial one, or it is a packet of one of the senders
\* (ensure_capacity, buffer_resize, write_iov).
EntriesLive == SmallPacketsSafe /\ SendersSafe

\* The first packet of a connection always ends outside of the array, whoever sends
\* it: the array is made to fit the packet exactly, for every string comes behind its
\* length, and the loop of write_wbuf stops behind the last entry (write_string,
\* write_bytes, flush_buffer, write_wbuf).
FirstPacketLeavesArray ==
  packets = 0 /\ sender \in DOMAIN Layouts /\ Sending /\ at = Len(iov) => reach > iovSize

\* A sender that was called returns, whatever it sends, and so does write_wbuf
\* for any packet: each writev brings it nearer to its end (write_wbuf).
SendersReturn ==
  (sender \in DOMAIN Layouts \/ Sending) /\ packets < MaxPackets
    ~> sender = "nobody" \/ fault # "none"
==============================================================================
