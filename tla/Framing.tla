------------------------------- MODULE Framing -------------------------------
(***************************************************************************)
(* The receive path of one client connection: how the network worker cuts  *)
(* the TCP byte stream into packets.                                        *)
(*                                                                         *)
(*   src/network/connection.cpp   resolve_length, transition_to_secondary, *)
(*                                copy_to_buffer, ready, reset             *)
(*   src/network/readbuffer.cpp   feed, make_secondary, read_length        *)
(*   src/network/worker.cpp       the body of NetworkWorker::listen        *)
(*                                                                         *)
(* Bytes are positions in the stream the client writes: byte s belongs to  *)
(* packet p when Start[p] <= s < Start[p+1].  Everything recv() returns is *)
(* stored contiguously, so a buffer is described by the position of its    *)
(* first byte (base) and by the offsets of the code's pointers.            *)
(*                                                                         *)
(* An access outside the buffers or a bad free is undefined behaviour.  It *)
(* sets "fault" and the model stops there: nothing can be said of what the *)
(* process does next.                                                      *)
(***************************************************************************)
EXTENDS Integers, Sequences

CONSTANTS
  PrimarySize,  \* PRIMARY_BUFFER_SIZE
  MaxHeader,    \* longest length prefix, in bytes (5 in the code)
  NumPackets,   \* number of packets the client writes
  Start,        \* Start[p]: position of packet p; Start[NumPackets+1]: the end
  HdrLen,       \* HdrLen[p]: bytes of packet p's length prefix
  Window,       \* packets the client writes ahead of the ones handled
  Stray         \* length prefixes that other bytes than a packet's own may spell

Packets  == 1 .. NumPackets
Total(p) == Start[p + 1] - Start[p]

ASSUME FramingAssumption ==
  /\ MaxHeader \in Nat \ {0}
  /\ PrimarySize \in Nat /\ PrimarySize > MaxHeader
  /\ NumPackets \in Nat \ {0}
  /\ Start \in [1 .. NumPackets + 1 -> Nat] /\ Start[1] = 0
  /\ HdrLen \in [Packets -> 1 .. MaxHeader]
  /\ \A p \in Packets : \A q \in p + 1 .. NumPackets + 1 :
        Start[p] + HdrLen[p] < Start[q]
  /\ Window \in Nat \ {0}
  /\ Stray \subseteq [size : 1 .. MaxHeader, len : Int]

VARIABLES
  arrived,  \* bytes of the stream that have reached the socket's receive queue
  peer,     \* "open", "fin" (orderly close) or "rst" (reset) by the client
  taken,    \* bytes of the stream that recv() has returned
  base,     \* stream position of primary[0]
  wpos,     \* iv[0].end - primary
  rpos,     \* iv[0].buf - primary: how far read_length has come
  hdr,      \* sizeof_length
  len,      \* packet_length, 0 until the prefix is complete
  allowed,  \* bytes_allowed
  phase,    \* process_events
  target,   \* the buffer whose end write_cursor points to
  sec,      \* what iv[1].buf points to
  pc,       \* where the worker's loop is with this connection
  frames,   \* history: the packets dispatched to a handler
  fault,    \* the undefined behaviour that was reached, if any
  hazards   \* history: the read patterns that were met

vars == <<arrived, peer, taken, base, wpos, rpos, hdr, len, allowed, phase,
          target, sec, pc, frames, fault, hazards>>

clientVars == <<arrived, peer>>

Phases  == {"resolve_length", "transition_to_secondary", "copy_to_buffer"}
Faults  == {"none", "primary_overrun", "invalid_free", "double_free",
            "truncated_read", "bad_copy", "freed_parse"}
Hazards == {"read_ahead", "first_read_fills", "short_fill", "bad_length"}

\* "clean": no hazard had been met.
Frame == [from : Int, size : Int, got : Int, clean : BOOLEAN]

\* ReadBuffer::total_packet_length
TotalLength == len + hdr

\* Stream position of the first byte of the packet being received.
From == base + rpos - hdr
------------------------------------------------------------------------------
(***************************************************************************)
(* The client and the network.  TCP delivers bytes in order, any number at *)
(* a time; the client runs at most Window packets ahead of the handlers.   *)
(***************************************************************************)
Horizon == IF Len(frames) + Window < NumPackets
           THEN Start[Len(frames) + Window + 1]
           ELSE Start[NumPackets + 1]

Arrive ==
  /\ peer = "open" /\ fault = "none"
  /\ \E a \in arrived + 1 .. Horizon : arrived' = a
  /\ UNCHANGED <<peer, taken, base, wpos, rpos, hdr, len, allowed, phase,
                 target, sec, pc, frames, fault, hazards>>

Hangup ==
  /\ peer = "open" /\ fault = "none"
  /\ peer' \in {"fin", "rst"}
  /\ UNCHANGED <<arrived, taken, base, wpos, rpos, hdr, len, allowed, phase,
                 target, sec, pc, frames, fault, hazards>>
------------------------------------------------------------------------------
(***************************************************************************)
(* recv(): between 1 and bytes_allowed of the bytes that have arrived.     *)
(* epoll is level triggered, so process_events runs when there are any.    *)
(***************************************************************************)
Recv(n) ==
  /\ pc = "epoll" /\ fault = "none"
  /\ n \in 1 .. allowed
  /\ taken + n <= arrived
  /\ taken' = taken + n

RecvToPrimary(n) ==
  /\ Recv(n)
  /\ target = "primary"
  /\ wpos + n <= PrimarySize
  /\ wpos' = wpos + n

\* The bytes do not fit: they are written behind primary, over write_cursor.
Overrun ==
  /\ target = "primary"
  /\ \E n \in 1 .. allowed : Recv(n) /\ wpos + n > PrimarySize
  /\ fault' = "primary_overrun"
  /\ pc' = "ready"
  /\ UNCHANGED <<clientVars, base, wpos, rpos, hdr, len, allowed, phase,
                 target, sec, frames, hazards>>

\* The length prefixes that the bytes from stream position s on may spell.  Where
\* a packet starts it is the packet's own, or the client has written a length
\* below 1 instead, and everything behind it is no packet of its any more; in the
\* middle of a packet it is whatever the bytes happen to be.
Prefixes(s) ==
  LET own   == {[size |-> HdrLen[p], len |-> Total(p) - HdrLen[p]] :
                  p \in {q \in Packets : Start[q] = s}}
      other == IF own = {} THEN Stray ELSE {h \in Stray : h.len < 1}
  IN  {h \in own \cup other : h.size > hdr}

\* Nothing checks the length that read_length returns.
BadLength(h) == IF h.len < 1 THEN {"bad_length"} ELSE {}

\* resolve_length, when read_length runs out of bytes and returns -1.
ResolvePartial(n, h) ==
  /\ phase = "resolve_length"
  /\ RecvToPrimary(n)
  /\ wpos + n - rpos < h.size - hdr
  /\ pc' = "ready"
  /\ hdr' = hdr + (wpos + n - rpos)
  /\ rpos' = wpos + n
  /\ allowed' = allowed - n
  /\ hazards' = hazards \cup BadLength(h)
  /\ UNCHANGED <<clientVars, base, len, phase, target, sec, frames, fault>>

\* read_length completes the prefix.
LengthKnown(n, h) ==
  /\ phase = "resolve_length"
  /\ RecvToPrimary(n)
  /\ wpos + n - rpos >= h.size - hdr
  /\ pc' = "ready"
  /\ rpos' = rpos + (h.size - hdr)
  /\ hdr' = h.size
  /\ len' = h.len

\* Mutations of BytesToRead: one byte too many, one too few.
BytesToReadOver(total, have)  == total - have + 1
BytesToReadUnder(total, have) == total - have - 1

\* A length of -1 is taken for an incomplete prefix.
ResolveMinusOne(n, h) ==
  /\ LengthKnown(n, h)
  /\ h.len = -1
  /\ allowed' = allowed - n
  /\ hazards' = hazards \cup BadLength(h)
  /\ UNCHANGED <<clientVars, base, phase, target, sec, frames, fault>>

\* read_length goes on behind it, with one byte for each read that brings any: it
\* answers -1 again, until primary is full.
AfterMinusOne(n) ==
  /\ phase = "resolve_length"
  /\ len = -1
  /\ RecvToPrimary(n)
  /\ pc' = "ready"
  /\ hdr' = hdr + 1
  /\ rpos' = rpos + 1
  /\ allowed' = allowed - n
  /\ UNCHANGED <<clientVars, base, len, phase, target, sec, frames, fault, hazards>>

\* What is left to read of a packet that fits in primary; negative when recv()
\* has already returned bytes of the next one.
BytesToRead(total, have) == total - have

\* Mutations of FitsPrimary: the prefix is not counted; < becomes <=.
FitsWithoutPrefix(h) == PrimarySize >= h.len
FitsStrictly(h)      == PrimarySize - h.size > h.len

FitsPrimary(h) == PrimarySize - h.size >= h.len

ResolveFits(n, h) ==
  /\ LengthKnown(n, h)
  /\ h.len # -1
  /\ FitsPrimary(h)
  /\ allowed' = BytesToRead(h.size + h.len, wpos + n)
  /\ phase' = "copy_to_buffer"
  /\ hazards' = hazards \cup BadLength(h)
                 \cup (IF h.len >= 1 /\ allowed' < 0 THEN {"read_ahead"} ELSE {})
  /\ UNCHANGED <<clientVars, base, target, sec, frames, fault>>

ResolveSpills(n, h) ==
  /\ LengthKnown(n, h)
  /\ ~ FitsPrimary(h)
  /\ allowed' = allowed - n
  /\ phase' = "transition_to_secondary"
  /\ hazards' = IF allowed' = 0 THEN hazards \cup {"first_read_fills"} ELSE hazards
  /\ UNCHANGED <<clientVars, base, target, sec, frames, fault>>

ResolveLength ==
  /\ len # -1
  /\ \E n \in 1 .. allowed : \E h \in Prefixes(From) :
       \/ ResolvePartial(n, h) \/ ResolveMinusOne(n, h)
       \/ ResolveFits(n, h) \/ ResolveSpills(n, h)

\* MalformedVarintException: only bytes that are no prefix can raise it.
Malformed ==
  /\ phase = "resolve_length"
  /\ len = -1 \/ \A p \in Packets : Start[p] # From
  /\ \E n \in 1 .. allowed : RecvToPrimary(n)
  /\ pc' = "gone"
  /\ UNCHANGED <<clientVars, base, rpos, hdr, len, allowed, phase,
                 target, sec, frames, fault, hazards>>

\* transition_to_secondary.  bytes_allowed is only brought up to date when the
\* read fills primary; the secondary buffer then gets the rest of the packet.
FillsPrimary(n) == allowed <= n

Transition(n) ==
  /\ phase = "transition_to_secondary"
  /\ RecvToPrimary(n)
  /\ pc' = "ready"
  /\ \/ /\ FillsPrimary(n)
        /\ allowed' = TotalLength - PrimarySize
        /\ sec' = "live"
        /\ target' = "secondary"
        /\ phase' = "copy_to_buffer"
        /\ UNCHANGED hazards
     \/ /\ ~ FillsPrimary(n)
        /\ hazards' = hazards \cup {"short_fill"}
        /\ UNCHANGED <<allowed, sec, target, phase>>
  /\ UNCHANGED <<clientVars, base, rpos, hdr, len, frames, fault>>

\* copy_to_buffer, into the buffer write_cursor was left pointing to.
CopyToBuffer(n) ==
  /\ phase = "copy_to_buffer"
  /\ \/ RecvToPrimary(n)
     \/ target = "secondary" /\ Recv(n) /\ UNCHANGED wpos
  /\ pc' = "ready"
  /\ allowed' = allowed - n
  /\ UNCHANGED <<clientVars, base, rpos, hdr, len, phase, target, sec, frames,
                 fault, hazards>>

(***************************************************************************)
(* recv() returns 0 at the end of the stream and -1 after a reset: in each *)
(* case process_events disconnects, which deletes the Connection.          *)
(***************************************************************************)
RecvFails ==
  /\ pc = "epoll" /\ fault = "none"
  /\ peer = "rst" \/ (peer = "fin" /\ taken = arrived)
  /\ pc' = "freed"
  /\ UNCHANGED <<clientVars, taken, base, wpos, rpos, hdr, len, allowed, phase,
                 target, sec, frames, fault, hazards>>

\* The loop then calls conn->ready() all the same.  It reads bytes_allowed from
\* freed memory, which another thread may have been given in the meantime.
ReadyOnFreed ==
  /\ pc = "freed" /\ fault = "none"
  /\ pc' = "gone"
  /\ fault' \in {"none", "freed_parse"}
  /\ UNCHANGED <<clientVars, taken, base, wpos, rpos, hdr, len, allowed, phase,
                 target, sec, frames, hazards>>
------------------------------------------------------------------------------
\* Mutation of Ready: <= becomes <.
ReadyStrict == allowed < 0

\* Connection::ready
Ready == allowed <= 0

NotReady ==
  /\ pc = "ready" /\ fault = "none"
  /\ ~ Ready
  /\ pc' = "epoll"
  /\ UNCHANGED <<clientVars, taken, base, wpos, rpos, hdr, len, allowed, phase,
                 target, sec, frames, fault, hazards>>

\* Nothing has been read behind the length prefix.
NoPacketId == taken <= From + hdr

\* The loop, which reads the packet's id, or the handler needs a byte that is not
\* there, as it may behind a bad length whatever that says: the cursor moves on to
\* iv[1], which points nowhere or into the middle of the packet.
TruncatedRead ==
  /\ pc = "ready" /\ fault = "none"
  /\ Ready
  /\ NoPacketId \/ taken < From + TotalLength \/ len < 1
  /\ fault' = "truncated_read"
  /\ UNCHANGED <<clientVars, taken, base, wpos, rpos, hdr, len, allowed, phase,
                 target, sec, pc, frames, hazards>>

\* Connection::reset: the bytes read past the packet move to the front of
\* primary, and feed() starts the next packet behind them.
Overflow == IF allowed < 0 THEN - allowed ELSE 0

\* Mutations of FeedAt: the leftovers are overwritten; the sign is lost.
FeedAtPrimary == 0
FeedAtAllowed == allowed

FeedAt == Overflow

NextBase == IF Overflow > 0 THEN base + TotalLength ELSE taken

\* ReadBuffer::feed deletes iv[1].buf and leaves the pointer as it is.  Reading
\* from the secondary buffer has moved the pointer itself.
FreeSecondary(moved) ==
  CASE sec = "null"             -> sec' = "null"     /\ fault' = "none"
    [] sec = "live" /\ ~ moved  -> sec' = "dangling" /\ fault' = "none"
    [] sec = "live" /\ moved    -> sec' = "dangling" /\ fault' = "invalid_free"
    [] sec = "dangling"         -> sec' = "dangling" /\ fault' = "double_free"

\* The bytes that reset() copies begin at primary + TotalLength.
CopiesFromPrimary == TotalLength >= 0

\* parsers[state][id](conn, rbuf), then reset().
Dispatch ==
  /\ pc = "ready" /\ fault = "none"
  /\ Ready
  /\ ~ NoPacketId
  /\ frames' = Append(frames, [from |-> From, size |-> TotalLength,
                               got |-> taken - From, clean |-> hazards = {}])
  /\ \/ CopiesFromPrimary /\ \E moved \in BOOLEAN : FreeSecondary(moved)
     \/ ~ CopiesFromPrimary /\ fault' = "bad_copy" /\ UNCHANGED sec
  /\ base' = NextBase
  /\ rpos' = FeedAt
  /\ wpos' = FeedAt
  /\ hdr' = 0
  /\ len' = 0
  /\ allowed' = PrimarySize
  /\ phase' = "resolve_length"
  /\ target' = "primary"
  /\ pc' = "epoll"
  /\ UNCHANGED <<clientVars, taken, hazards>>
------------------------------------------------------------------------------
\* The Connection constructor.
Init ==
  /\ arrived = 0
  /\ peer = "open"
  /\ taken = 0
  /\ base = 0
  /\ wpos = 0
  /\ rpos = 0
  /\ hdr = 0
  /\ len = 0
  /\ allowed = PrimarySize
  /\ phase = "resolve_length"
  /\ target = "primary"
  /\ sec = "null"
  /\ pc = "epoll"
  /\ frames = << >>
  /\ fault = "none"
  /\ hazards = {}

Worker ==
  \/ ResolveLength
  \/ \E n \in 1 .. allowed : AfterMinusOne(n) \/ Transition(n) \/ CopyToBuffer(n)
  \/ Overrun
  \/ Malformed
  \/ RecvFails
  \/ ReadyOnFreed
  \/ NotReady
  \/ TruncatedRead
  \/ Dispatch

Next == Arrive \/ Hangup \/ Worker

Spec == Init /\ [][Next]_vars

\* The worker's loop never stops taking events while the server runs; nothing
\* is assumed of the client.
FairSpec == Spec /\ WF_vars(Worker)
------------------------------------------------------------------------------
TypeOK ==
  /\ arrived \in Nat /\ taken \in Nat
  /\ peer \in {"open", "fin", "rst"}
  /\ base \in Int /\ wpos \in Nat /\ rpos \in Nat
  /\ hdr \in Nat /\ len \in Int
  /\ allowed \in Int
  /\ phase \in Phases
  /\ target \in {"primary", "secondary"}
  /\ sec \in {"null", "live", "dangling"}
  /\ pc \in {"epoll", "ready", "freed", "gone"}
  /\ frames \in Seq(Frame)
  /\ fault \in Faults
  /\ hazards \subseteq Hazards

\* Handler i got exactly packet i: it starts where the packet starts, has its
\* length, and every byte of it, none of the next one's, has been read.
Exact(i) ==
  /\ i \in Packets
  /\ frames[i].from = Start[i]
  /\ frames[i].size = Total(i)
  /\ frames[i].got = Total(i)

\* No handler gets anything else than its packet, and nothing is written or read
\* outside the buffers, as long as none of the read patterns of Hazards was met.
FramesExact ==
  hazards = {} => /\ \A i \in DOMAIN frames : Exact(i)
                  /\ fault \notin {"primary_overrun", "truncated_read", "bad_copy"}

\* When the worker waits for more and has read all that arrived, no packet that
\* arrived completely is left in the buffers: without more bytes from the client
\* epoll would not report the connection again.
NothingLeft ==
  hazards = {} /\ fault = "none" /\ pc = "epoll" /\ taken = arrived
    => \A p \in Packets : arrived >= Start[p + 1] => p <= Len(frames)

\* However TCP cuts the stream, the handlers get the client's packets exactly,
\* in order, with nothing lost, read twice or left behind, and no write outside
\* primary, as long as none of the read patterns of Hazards has been met
\* (resolve_length, transition_to_secondary, copy_to_buffer, reset, listen).
ExactUnlessHazard == FramesExact /\ NothingLeft

\* Writing past primary takes a read into the next packet, a short read in
\* transition_to_secondary or a length below 1; a premature dispatch alone never
\* leads there.
OverrunNeedsHazard ==
  fault = "primary_overrun" =>
    hazards \cap {"read_ahead", "short_fill", "bad_length"} # {}

\* reset() only copies from in front of primary after a negative length.
BadCopyNeedsLength == fault = "bad_copy" => "bad_length" \in hazards

\* resolve_length's comment: bytes_allowed is never zero or negative where
\* recv() is called.  A recv() of 0 bytes would be taken for a hang-up.
RecvAsksForBytes ==
  pc = "epoll" /\ fault = "none" => allowed > 0

\* Leftover bytes and fresh ones stay contiguous: recv() always writes the byte
\* that follows, in the stream, the last one in primary (reset, feed).
PrimaryContiguous ==
  target = "primary" /\ pc \in {"epoll", "ready"} /\ fault = "none"
    => base + wpos = taken

\* The secondary buffer is only ever freed wrongly after a packet longer than
\* primary was handled; small packets never touch it (feed, make_secondary).
BadFreeNeedsSpill ==
  fault \in {"invalid_free", "double_free"}
    => \E i \in DOMAIN frames : frames[i].size > PrimarySize

\* No fault of the buffers comes of the network alone: each needs a packet that
\* is too long for primary, a client that writes ahead, or a length below 1.
FaultsNeedPattern == OverrunNeedsHazard /\ BadCopyNeedsLength /\ BadFreeNeedsSpill

\* Once the length is known, recv() is limited to the packet: it never takes a
\* byte of the next one (resolve_length's comment on bytes_allowed).
ReadsEndWithPacket ==
  [][phase # "resolve_length" /\ hazards = {} => taken' <= From + TotalLength]_taken

\* The packet that is being received, as long as no hazard was met.
Current == Len(frames) + 1

\* No hazard comes of the network alone either: the first one takes a client that
\* has written more than the packet that is being received, or a packet longer than
\* primary, or is a bad length (resolve_length, transition_to_secondary).  So a
\* client that waits for each packet to be handled, and sends none that is longer
\* or has a bad length, never meets one.
HazardsNeedClient ==
  [][hazards = {} =>
       /\ "read_ahead" \in hazards' => arrived > Start[Current + 1]
       /\ hazards' \cap {"first_read_fills", "short_fill"} # {}
            => Total(Current) > PrimarySize]_hazards

\* The packet a handler got, 0 when it is none of the client's.
PacketOf(f) ==
  LET match == {p \in Packets : f.from = Start[p] /\ f.size = Total(p) /\ f.got = Total(p)}
  IN  IF match = {} THEN 0 ELSE CHOOSE p \in match : TRUE

Stream == INSTANCE PacketStream WITH
            written <- {p \in Packets : Start[p + 1] <= arrived},
            handled <- [i \in {i \in DOMAIN frames : frames[i].clean} |-> PacketOf(frames[i])]

\* What reaches the handlers before a hazard is met is the abstract packet stream,
\* for every client: each packet exactly once, in order, and never before the whole
\* of it has arrived (listen, resolve_length, copy_to_buffer, reset).
ImplementsStream == Stream!StreamSpec

\* Every packet is handled once it has arrived, unless a hazard was met, a packet
\* longer than primary made feed() free a bad pointer, or the client resets the
\* connection (listen, process_events).
EveryPacketHandled ==
  \A p \in Packets :
    arrived >= Start[p + 1] ~>
      \/ Len(frames) >= p \/ peer = "rst" \/ hazards # {}
      \/ \E q \in Packets : q < p /\ Total(q) > PrimarySize



\* worker.cpp:489-490: after a disconnect ready() is called, "but it will
\* always fail" (the loop of NetworkWorker::listen).
ReadyFailsOnceFreed == fault # "freed_parse"
==============================================================================
