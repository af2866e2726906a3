------------------------------- MODULE WritePath -------------------------------
(***************************************************************************)
(* How one packet leaves the server: the sender's writes are collected in  *)
(* WriteBuffer, the length is put in front, and writev takes as much as    *)
(* the socket has room for.                                                *)
(*                                                                         *)
(*   src/network/writebuffer.cpp  WriteBuffer                              *)
(*   src/network/connection.cpp   Connection::write_wbuf                   *)
(*                                                                         *)
(* A byte is its number in the packet, counted from 1; a byte of the       *)
(* length prefix is the length it announces, negated; 0 is garbage.        *)
(* Strings are not copied: an iovec entry points to the caller's bytes.    *)
(* Pointers into buf are offsets, and mem tells one allocation of buf from *)
(* the next.  A fault is undefined behaviour, and ends the model.          *)
(***************************************************************************)
EXTENDS Integers, Sequences, FiniteSets, FiniteSetsExt, SequencesExt

CONSTANTS
  Headroom,    \* bytes kept free for the length prefix: 5
  Capacity,    \* what the Connection asks its WriteBuffer to hold: 16
  Extra,       \* EXTRA_CAPACITY
  Radix,       \* values per byte of a varint: 128
  OwnSizes,    \* sizes of the values that are copied into buf
  StringSizes, \* sizes of the strings that are not
  MaxPacket,   \* bound on the bytes of a packet
  MaxPackets   \* bound on the packets of a connection

ASSUME WriteAssumption ==
  /\ Headroom \in Nat \ {0} /\ Capacity \in Nat \ {0} /\ Extra \in Nat
  /\ Radix \in Nat /\ Radix > 1
  /\ OwnSizes \subseteq Nat \ {0} /\ StringSizes \subseteq Nat \ {0}
  /\ MaxPacket \in Nat /\ MaxPackets \in Nat
  /\ MaxPacket < Radix ^ Headroom

VARIABLES
  size,     \* end - buf
  mem,      \* which allocation buf is
  buf,      \* its bytes
  start,    \* sector_start - buf
  cursor,   \* cursor - buf
  iovSize,  \* _iov_size
  iov,      \* the first iov_cursor entries of _iov
  highest,  \* entries of _iov that were ever written; behind them is garbage
  reach,    \* the entry of _iov at which the loop of write_wbuf stopped last
  plen,     \* packet_length
  at,       \* write_wbuf: entries that are done, or -1 outside write_wbuf
  wire,     \* what the kernel has taken of this packet
  written,  \* history: bytes the sender has written into this packet
  packets,  \* history: packets before this one
  fault     \* the undefined behaviour that was reached, if any

bufVars   == <<size, mem, buf, start, cursor>>
iovVars   == <<iovSize, iov, highest, reach, plen>>
vars == <<bufVars, iovVars, at, wire, written, packets, fault>>

Building == at = -1 /\ fault = "none"

\* An entry that points into buf, and one that points to bytes of a caller.
Own(off, len)     == [own |-> TRUE, mem |-> mem, off |-> off, len |-> len]
String(from, len) == [own |-> FALSE, mem |-> 0, off |-> from, len |-> len]

Stale(e) == e.own /\ e.mem # mem

Bytes(e) == [i \in 1 .. e.len |-> IF e.own THEN buf[e.off + i - 1] ELSE e.off + i - 1]

\* How many bytes the entries have up to each of them.
Ends(es) ==
  LET end[i \in 0 .. Len(es)] == IF i = 0 THEN 0 ELSE end[i - 1] + es[i].len IN end

Sector == cursor - start
------------------------------------------------------------------------------
(* Writing a packet. *)

\* Mutations: < becomes <=; no check at all.
TooSmallSoon(n)  == size - cursor <= n
NeverTooSmall(n) == FALSE

TooSmall(n) == size - cursor < n

\* WRITE: ensure_capacity, then the value.
Write(n) ==
  /\ Building
  /\ written + n <= MaxPacket
  /\ IF TooSmall(n)
     THEN size' = size + n + Extra /\ mem' = mem + 1
     ELSE UNCHANGED <<size, mem>>
  /\ buf' = [i \in 0 .. size' - 1 |->
               CASE i < cursor                    -> buf[i]
                 [] i \in cursor .. cursor + n - 1 -> written + 1 + i - cursor
                 [] OTHER                         -> 0]
  /\ cursor' = cursor + n
  /\ written' = written + n
  /\ UNCHANGED <<start, iovVars, at, wire, packets, fault>>

\* write_iov, for one entry or two of n bytes in all.
Push(es, n, room) ==
  /\ iovSize' = room
  /\ iov' = iov \o es
  /\ highest' = Max({highest, Len(iov')})
  /\ plen' = plen + n
  /\ fault' = IF Len(iov') > room THEN "iov_overrun" ELSE fault
  /\ UNCHANGED reach

\* Mutation: the sector is not counted.
RoomForString(sectors) == IF Len(iov) >= iovSize - 1 THEN Len(iov) + 1 ELSE iovSize

Room(sectors) == IF Len(iov) >= iovSize - sectors - 1 THEN Len(iov) + 2 ELSE iovSize

\* write_bytes.  The first entry is always a sector, for the length to go to.
WriteBytes(n) ==
  /\ Building
  /\ written + n <= MaxPacket
  /\ LET sector == IF Sector > 0 \/ iov = << >> THEN <<Own(start, Sector)>> ELSE << >>
     IN  Push(Append(sector, String(written + 1, n)), Sector + n,
              Room(IF Sector > 0 THEN 1 ELSE 0))
  /\ start' = cursor
  /\ written' = written + n
  /\ UNCHANGED <<size, mem, buf, cursor, at, wire, packets>>

\* flush_buffer
Flush ==
  IF Sector > 0
  THEN /\ Push(<<Own(start, Sector)>>, Sector,
               IF Len(iov) >= iovSize - 1 THEN Len(iov) + 1 ELSE iovSize)
       /\ start' = cursor
  ELSE UNCHANGED <<iovVars, start, fault>>

LastWrite ==
  /\ Building
  /\ written > 0
  /\ Flush
  /\ at' = -2
  /\ UNCHANGED <<size, mem, buf, cursor, wire, written, packets>>

\* Bytes of x as a varint.
VarintSize(x) == 1 + Cardinality({j \in 1 .. Headroom - 1 : x >= Radix ^ j})

\* Mutation: iov_base is left.
CutLengthOnly(e, n) == [own |-> e.own, mem |-> e.mem, off |-> e.off, len |-> e.len - n]

\* The entry without its first n bytes, or with -n more in front of it.
Cut(e, n) == [own |-> e.own, mem |-> e.mem, off |-> e.off + n, len |-> e.len - n]

\* iov(): the length goes in front of the first sector.
WriteLength ==
  /\ at = -2 /\ fault = "none"
  /\ LET n     == VarintSize(plen)
         first == iov[1]
         from  == first.off - n
     IN  IF Stale(first) \/ from < 0
         THEN /\ fault' = IF Stale(first) THEN "freed_write" ELSE "underflow"
              /\ UNCHANGED <<buf, iov, at>>
         ELSE /\ buf' = [i \in DOMAIN buf |-> IF i \in from .. first.off - 1 THEN - plen ELSE buf[i]]
              /\ iov' = [iov EXCEPT ![1] = Cut(@, - n)]
              /\ at' = 0
              /\ UNCHANGED fault
  /\ UNCHANGED <<size, mem, start, cursor, iovSize, highest, reach, plen, wire, written,
                 packets>>
------------------------------------------------------------------------------
(* write_wbuf *)

Sending == at >= 0 /\ fault = "none"

Pending == SubSeq(iov, at + 1, Len(iov))

Left == Ends(Pending)[Len(Pending)]

\* The kth byte that is still to be sent.
PendingByte(k) ==
  LET i == CHOOSE i \in DOMAIN Pending : Ends(Pending)[i - 1] < k /\ k <= Ends(Pending)[i]
  IN  Bytes(Pending[i])[k - Ends(Pending)[i - 1]]

\* Mutation: while (res > iov->iov_len)
FinishesLess(n, done, rest) ==
  /\ n = Ends(Pending)[done] + rest
  /\ done < Len(Pending) /\ rest \in 1 .. Pending[done + 1].len

\* while (res >= iov->iov_len): n bytes finish this many entries, and leave rest
\* for the one behind them, which is not finished.
Finishes(n, done, rest) ==
  /\ n = Ends(Pending)[done] + rest
  /\ IF done < Len(Pending) THEN rest < Pending[done + 1].len ELSE rest = 0

\* writev takes n bytes.  The loop stops at an entry that is not finished, and takes
\* the rest off its length.  Once all are finished that is the one behind the last:
\* an entry of a longer packet before, which is not empty; or garbage, which may be,
\* and sends the loop on.  In a full array it is not even an entry of the array.
Writev(n) ==
  /\ \E done \in 0 .. Len(Pending), rest \in 0 .. n :
       LET last == at + done = Len(iov)
           read == at + 1 .. at + done + (IF rest > 0 THEN 1 ELSE 0)
       IN  /\ Finishes(n, done, rest)
           /\ at' = at + done
           /\ reach' = at + done + 1
           /\ iov' = IF last THEN iov ELSE [iov EXCEPT ![at + done + 1] = Cut(@, rest)]
           /\ fault' \in IF \E i \in read : Stale(iov[i]) THEN {"freed_read"}
                        ELSE IF last /\ Len(iov) = highest THEN {"none", "ran_off"}
                        ELSE {"none"}
  /\ wire' = wire \o [k \in 1 .. n |-> PendingByte(k)]
  /\ UNCHANGED <<bufVars, iovSize, highest, plen, written, packets>>

\* Mutation: reset() forgets packet_length.
ResetLength == plen

NoLength == 0

\* Mutation: reset() starts at the beginning of buf.
ResetToBuf == 0

FirstSector == Headroom

\* WriteBuffer::reset
Reset ==
  /\ packets < MaxPackets
  /\ start' = FirstSector
  /\ cursor' = FirstSector
  /\ buf' = [i \in DOMAIN buf |-> 0]
  /\ iov' = << >>
  /\ reach' = 0
  /\ plen' = NoLength
  /\ at' = -1
  /\ wire' = << >>
  /\ written' = 0
  /\ packets' = packets + 1
  /\ UNCHANGED <<size, mem, iovSize, highest, fault>>

Sent == Sending /\ at = Len(iov) /\ Reset

\* EAGAIN: the socket has no room.  The rest of the packet is dropped.
WritevFails == Sending /\ at < Len(iov) /\ Reset
------------------------------------------------------------------------------
Init ==
  /\ size = Capacity + Headroom
  /\ mem = 0
  /\ buf = [i \in 0 .. Capacity + Headroom - 1 |-> 0]
  /\ start = Headroom
  /\ cursor = Headroom
  /\ iovSize = 1
  /\ iov = << >>
  /\ highest = 0
  /\ reach = 0
  /\ plen = 0
  /\ at = -1
  /\ wire = << >>
  /\ written = 0
  /\ packets = 0
  /\ fault = "none"

SendSome == Sending /\ at < Len(iov) /\ \E n \in Min({1, Left}) .. Left : Writev(n)

Next ==
  \/ \E n \in OwnSizes : Write(n)
  \/ \E n \in StringSizes : WriteBytes(n)
  \/ LastWrite \/ WriteLength \/ SendSome \/ Sent \/ WritevFails

Spec == Init /\ [][Next]_vars
------------------------------------------------------------------------------
WriteTypeOK ==
  /\ size \in Nat /\ mem \in Nat /\ start \in 0 .. cursor /\ cursor \in 0 .. size
  /\ buf \in [0 .. size - 1 -> Int]
  /\ iovSize \in Nat /\ highest \in Nat /\ reach \in Nat
  /\ iov \in Seq([own : BOOLEAN, mem : Nat, off : Nat, len : Nat])
  /\ plen \in Nat
  /\ at \in -2 .. Len(iov)
  /\ wire \in Seq(Int)
  /\ written \in 0 .. MaxPacket /\ packets \in 0 .. MaxPackets
  /\ fault \in {"none", "iov_overrun", "freed_write", "underflow", "freed_read", "ran_off"}

\* The packet as the client must see it: its length, then its bytes.
Expected == [i \in 1 .. VarintSize(written) + written |->
               IF i <= VarintSize(written) THEN - written ELSE i - VarintSize(written)]

\* However the writes are split between buf and strings, and however little
\* writev takes at a time, the client gets the packet in order, nothing twice
\* and nothing left out, and behind a prefix that announces its true length
\* (write_bytes, iov, write_wbuf); and looking behind the last entry can do harm
\* only once all of it is out.
WireExact ==
  /\ Sending => /\ IsPrefix(wire, Expected)
                /\ at = Len(iov) => wire = Expected
  /\ fault = "ran_off" => wire = Expected

\* The two entries of write_bytes, and the one of flush_buffer, always have room
\* (the comment of write_bytes: "big enough for our two writes").
IovFits == Len(iov) <= iovSize

\* The length never begins before buf, however long the packet (iov, reset).
LengthFits == fault # "underflow"

\* write_wbuf leaves the array by one entry, once all others are out.  It reads that
\* one and writes it back, and goes further only where it finds an empty one.
LeavesByOne == reach > iovSize \/ fault = "ran_off" => at = Len(iov) /\ reach = at + 1

\* No write leaves the array of entries, nor the length the room for it; write_wbuf does
\* leave the array, in this one way (write_bytes, flush_buffer, iov, write_wbuf).
ArrayLeftAtEnd == IovFits /\ LengthFits /\ LeavesByOne

\* Entries keep pointing into buf as long as a packet copies no more into it than
\* its initial capacity (ensure_capacity, buffer_resize, write_iov).
SmallPacketsSafe ==
  cursor - Headroom <= Capacity => /\ \A i \in DOMAIN iov : ~ Stale(iov[i])
                                   /\ fault \notin {"freed_read", "freed_write"}
==============================================================================
