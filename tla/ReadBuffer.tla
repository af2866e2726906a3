------------------------------ MODULE ReadBuffer ------------------------------
(***************************************************************************)
(* What the server reads out of a packet: first its length, from however   *)
(* few bytes have come, then what its handler asks for, one value at a     *)
(* time, out of the primary buffer and, when the packet is longer than     *)
(* that, the secondary one.                                                *)
(*                                                                         *)
(*   src/network/readbuffer.cpp   ReadBuffer                               *)
(*   src/network/writebuffer.cpp  WRITE_VARINT, which writes a length      *)
(*   src/network/worker.cpp       the handlers that read                   *)
(*                                                                         *)
(* A byte of the packet is its number, counted from 1, so that a value is  *)
(* the sequence of the bytes it was made of, most significant first.       *)
(* Reading outside what was received is a fault and ends the model.        *)
(***************************************************************************)
EXTENDS Varint, SequencesExt

CONSTANTS
  Numbers,      \* numbers that write_varint is given
  ClientBytes,  \* bytes that begin a stream, whatever wrote them
  VarintSizes,  \* bytes of a varint in a packet
  StringSizes,  \* bytes of a string in a packet
  MaxAhead,     \* bound on the bytes of the next packet in primary
  MaxShort      \* bound on the bytes a packet has less than its handler reads

ASSUME ReadAssumption ==
  /\ Numbers \subseteq - (Values \div 2) .. Values \div 2 - 1
  /\ ClientBytes \subseteq Seq(Bytes)
  /\ VarintSizes \subseteq 1 .. Groups + 1
  /\ StringSizes \subseteq Nat
  /\ MaxAhead \in Nat /\ MaxShort \in Nat

VARIABLES
  phase,    \* "write", "length", "handler" or "malformed"
  number,   \* what is being written as a varint
  rest,     \* what write_varint has still to write of it
  wire,     \* the bytes written, or a client's
  got,      \* how many of them recv() has returned
  length,   \* packet_length, pos and sizeof_length
  answer,   \* what read_length returned last
  packet,   \* [fields, split, bytes, ahead]
  field,    \* the field that the handler reads next
  cursor,   \* [index, at]: cursor_index, and the byte that cursor->buf points to
  out,      \* the bytes of the value read last
  fault     \* a byte outside of what was received was read

lengthVars == <<number, rest, wire, got, length, answer>>
readVars   == <<field, cursor, out, fault>>
vars == <<phase, lengthVars, packet, readVars>>
------------------------------------------------------------------------------
(* The packets, as their handlers read them. *)

Char         == [kind |-> "char",   len |-> 0, size |-> 1]
Number(n)    == [kind |-> "number", len |-> 0, size |-> n]
AVarint(n)   == [kind |-> "varint", len |-> 0, size |-> n]
AString(l, n) == [kind |-> "string", len |-> l, size |-> n]

\* A short has 2 bytes, a long 3 here instead of 8.
Short == Number(2)
Long  == Number(3)

Strings == {AString(l, n) : l \in VarintSizes, n \in StringSizes}
Varints == {AVarint(n) : n \in VarintSizes}

\* What follows the id in each packet that is read.
HandshakePackets   == {<<v, s, Short, w>> : v, w \in Varints, s \in Strings}
PingPackets        == {<<Long>>}
LoginPackets       == {<<s, Long, Long>> : s \in Strings}
EncryptionPackets  == {<<s, t>> : s, t \in Strings}
InformationPackets == {<<s, Char, Char>> : s \in Strings}  \* eight in the code
BrandPackets       == {<<s, t>> : s, t \in Strings}

Layouts == HandshakePackets \cup PingPackets \cup LoginPackets \cup EncryptionPackets
            \cup InformationPackets \cup BrandPackets

FieldSize(f) == f.len + f.size

\* The first byte behind each field, and behind none of them.
NextByte(fields) ==
  LET next[k \in 0 .. Len(fields)] ==
        IF k = 0 THEN 1 ELSE next[k - 1] + FieldSize(fields[k])
  IN  next

\* The first byte of field k, and the first behind the last one.
StartOf(fields, k) == NextByte(fields)[k - 1]

\* A packet that is longer than primary leaves "split" of its bytes there; any
\* other one may have bytes of the next packet behind it.
PacketsOf(fields) ==
  LET all == StartOf(fields, Len(fields) + 1) - 1
  IN  UNION {{[fields |-> fields, split |-> b, bytes |-> n, ahead |-> a] :
                a \in 0 .. MaxAhead, b \in {n}}
             \cup {[fields |-> fields, split |-> b, bytes |-> n, ahead |-> 0] : b \in 1 .. n - 1} :
               n \in (all - MaxShort .. all) \cap Nat}

NoPacket == [fields |-> << >>, split |-> 1, bytes |-> 1, ahead |-> 0]

Packets == UNION {PacketsOf(<<Char>> \o l) : l \in Layouts}

\* The length of a packet is an int.
ASSUME PacketAssumption == \A p \in Packets : p.bytes < Values \div 2
------------------------------------------------------------------------------
(* The length. *)

\* WRITE_VARINT: one byte.
WriteByte ==
  /\ phase = "write"
  /\ Len(wire) <= Groups + 1  \* a negative number is written for ever
  /\ wire' = Append(wire, ByteOf(rest))
  /\ IF IsLast(rest)
     THEN phase' = "length" /\ UNCHANGED rest
     ELSE rest' = Shifted(rest) /\ UNCHANGED phase
  /\ UNCHANGED <<number, got, length, answer, packet, readVars>>

\* Mutation: the place in the prefix is forgotten between two calls.
ResumedAnew(d) == [d EXCEPT !.status = "reading", !.pos = 0]

Resumed(d) == [d EXCEPT !.status = "reading"]

TakeNext(d, c) == IF d.status = "reading" THEN Take(d, c) ELSE d

\* recv() returns n more bytes; read_length takes what it needs of them.
ReadLength(n) ==
  /\ phase = "length"
  /\ got + n <= Len(wire)
  /\ got' = got + n
  /\ length' = LET taken[i \in 0 .. got' - length.size] ==
                     IF i = 0 THEN Resumed(length)
                     ELSE TakeNext(taken[i - 1], wire[length.size + i])
               IN  taken[got' - length.size]
  /\ answer' = IF length'.status = "done" THEN AsInt(length'.value) ELSE -1
  /\ phase' = CASE length'.status = "malformed" -> "malformed"
                [] answer' # -1                 -> "handler"
                [] OTHER                        -> "length"
  /\ UNCHANGED <<number, rest, wire, packet, readVars>>
------------------------------------------------------------------------------
(* The values.  A read gives [cur, out, ok]: where it leaves the cursor, the  *)
(* bytes it made the value of, and whether it kept to what was received.      *)

Spills == packet.split < packet.bytes

\* The byte behind the buffer with index i; only one that holds bytes has one.
Usable(c) == c.index = 0 \/ (c.index = 1 /\ Spills)
EndOf(c)  == IF c.index = 0 THEN packet.split + packet.ahead + 1 ELSE packet.bytes + 1

\* sector_remaining
Remaining(c) == IF Usable(c) THEN EndOf(c) - c.at ELSE 0

\* next_cursor; the index may reach 2, where there is no buffer.
NextCursor(c) == [index |-> c.index + 1, at |-> packet.split + 1]

\* n bytes from the cursor on, whether or not they are there.
Bare(c, n) ==
  [cur |-> [c EXCEPT !.at = @ + n],
   out |-> [i \in 1 .. n |-> c.at + i - 1],
   ok  |-> n = 0 \/ (Usable(c) /\ n <= Remaining(c))]

\* Mutation: the last byte of a buffer is not used.
ReadCharEarly(c) == Bare(IF Remaining(c) < 2 THEN NextCursor(c) ELSE c, 1)

\* read_char
ReadChar(c) == Bare(IF Remaining(c) < 1 THEN NextCursor(c) ELSE c, 1)

\* What r has read, and one byte more.
AndChar(r) ==
  LET b == ReadChar(r.cur)
  IN  [cur |-> b.cur, out |-> r.out \o b.out, ok |-> r.ok /\ b.ok]

\* read_varint, byte after byte
ReadVarint(c, n) ==
  LET read[i \in 0 .. n] == IF i = 0 THEN Bare(c, 0) ELSE AndChar(read[i - 1])
  IN  read[n]

\* Mutation: the secondary buffer is read for the whole value.
IntoSecondaryAll(size, remaining) == size

IntoSecondary(size, remaining) == size - remaining

\* read_across_buffers; "remaining" is what the caller took it to be.
ReadAcross(c, remaining, size) ==
  LET first  == Bare(c, remaining)
      second == Bare(NextCursor(c), IntoSecondary(size, remaining))
  IN  [cur |-> second.cur, out |-> first.out \o second.out, ok |-> first.ok /\ second.ok]

\* Mutation: no byte swap at all.
SwappedNever(bytes) == bytes

\* __builtin_bswap: memory order, taken as a little-endian number, and back.
Swapped(bytes) == Reverse(bytes)

\* read_ulong, read_ushort: what is copied across the buffers is not swapped.
ReadNumber(c, n) ==
  LET raw(r) == [r EXCEPT !.out = Reverse(@)]
      one    == raw(Bare(c, n))
  IN  IF Remaining(c) < n
      THEN raw(ReadAcross(c, Remaining(c), n))
      ELSE [one EXCEPT !.out = Swapped(@)]

\* read_string takes what remains of the buffer before it reads the length.
ReadString(c, l, n) ==
  LET remaining == Remaining(c)
      head      == ReadVarint(c, l)
      body      == IF remaining < n
                   THEN ReadAcross(head.cur, remaining, n)
                   ELSE Bare(head.cur, n)
  IN  [body EXCEPT !.out = head.out \o @, !.ok = @ /\ head.ok]

Read(c, f) ==
  CASE f.kind = "char"   -> ReadChar(c)
    [] f.kind = "varint" -> ReadVarint(c, f.size)
    [] f.kind = "number" -> ReadNumber(c, f.size)
    [] f.kind = "string" -> ReadString(c, f.len, f.size)

\* The handler's next read.
ReadField ==
  /\ phase = "handler" /\ ~ fault
  /\ field <= Len(packet.fields)
  /\ LET r == Read(cursor, packet.fields[field])
     IN  IF r.ok
         THEN cursor' = r.cur /\ out' = r.out /\ field' = field + 1 /\ UNCHANGED fault
         ELSE fault' = TRUE /\ UNCHANGED <<cursor, out, field>>
  /\ UNCHANGED <<phase, lengthVars, packet>>
------------------------------------------------------------------------------
\* A number is written and read back, with a packet of that length behind it if
\* there is one; or some client's bytes are read.
Init ==
  /\ \/ /\ \/ number \in Numbers /\ packet = NoPacket
           \/ packet \in Packets /\ number = packet.bytes
        /\ phase = "write"
        /\ wire = << >>
     \/ /\ packet = NoPacket
        /\ number = -1
        /\ phase = "length"
        /\ wire \in ClientBytes
  /\ rest = number
  /\ got = 0
  /\ length = NothingRead
  /\ answer = -1
  /\ field = 1
  /\ cursor = [index |-> 0, at |-> 1]
  /\ out = << >>
  /\ fault = FALSE

Next == WriteByte \/ (\E n \in 1 .. Groups + 2 : ReadLength(n)) \/ ReadField

Spec == Init /\ [][Next]_vars
------------------------------------------------------------------------------
ReadTypeOK ==
  /\ phase \in {"write", "length", "handler", "malformed"}
  /\ number \in Int /\ rest \in Int
  /\ wire \in Seq(Bytes) /\ got \in 0 .. Len(wire)
  /\ length.value \in 0 .. Values - 1 /\ length.pos \in 0 .. Groups /\ length.size \in 0 .. got
  /\ answer \in Int
  /\ field \in 1 .. Len(packet.fields) + 1
  /\ cursor.index \in 0 .. 1 /\ cursor.at \in 1 .. StartOf(packet.fields, Len(packet.fields) + 1)
  /\ out \in Seq(Nat)
  /\ fault \in BOOLEAN

\* A number that is not negative is written in as many bytes as the array of
\* iov() and the room in front of the packet have, and then the loop ends
\* (write_varint, iov).
VarintFits == number >= 0 /\ phase = "write" => Len(wire) <= Groups

\* What was written is what is read (write_varint, read_length).
RoundTrip == number >= 0 /\ phase = "handler" => answer = number

\* However the bytes come, read_length answers as soon as the prefix is complete
\* and never before, with its value, and consumes no byte behind it; only a
\* prefix that says -1 goes unanswered (read_length, sizeof_packet_length).
LengthExact ==
  LET come == SubSeq(wire, 1, got)
  IN  CASE phase = "handler"   -> /\ length.size = SizeIn(come) /\ WellFormed(come)
                                  /\ answer = AsInt(ValueOf(come))
        [] phase = "length"    -> SizeIn(come) = 0 \/ AsInt(ValueOf(come)) = -1
        [] phase = "malformed" -> ~ WellFormed(come) \/ AsInt(ValueOf(come)) = -1
        [] OTHER               -> TRUE

\* The field that was read last; and whether field k has bytes on both sides of
\* the end of primary, or its first one right behind it.
LastRead      == packet.fields[field - 1]
From(k)   == StartOf(packet.fields, k)
Crosses(k) == Spills /\ From(k) <= packet.split + 1 /\ From(k + 1) > packet.split + 1

\* The bytes of that field, in the order in which they came.
OwnBytes == [i \in 1 .. FieldSize(LastRead) |-> From(field - 1) + i - 1]

\* Every value but a number across the buffers is made of its own bytes in their
\* order, wherever the packet is split and whatever follows it; no string that was
\* read across them without leaving them is out of order either
\* (read_char, read_varint, read_ulong, read_ushort, read_string).
ValuesExact ==
  field > 1 /\ ~ fault /\ ~ (LastRead.kind = "number" /\ Crosses(field - 1)) => out = OwnBytes

\* After each of them the next one is found where it begins, in whichever of the
\* two buffers that is (read_across_buffers, next_cursor).
ReadsInStep ==
  ~ fault => /\ cursor.at = From(field)
             /\ cursor.index = 0 => ~ Spills \/ From(field) <= packet.split + 1
             /\ cursor.index = 1 => Spills /\ From(field) > packet.split

\* A read leaves the buffers for two reasons only: the field does not end within
\* its packet, for whose end nobody looks, or it is a string that lies across the
\* buffers or begins with the secondary one, which takes what remains of primary for
\* more than it is.  Whatever ended in time before it was read without a fault, on
\* both sides of the split (read_char, read_ulong, read_string, read_across_buffers).
FaultHasCause ==
  fault => \/ From(field + 1) - 1 > packet.bytes
           \/ packet.fields[field].kind = "string" /\ Crosses(field)

(***************************************************************************)
(* What the code says of itself.                                           *)
(***************************************************************************)
\* readbuffer.cpp:162: midway between the buffers, the bytes are copied "byte by
\* byte in the right order" (read_across_buffers, read_ulong, read_ushort).
NumbersInOrder == field > 1 /\ ~ fault /\ LastRead.kind = "number" => out = OwnBytes

\* readbuffer.hpp:16: BufferOverflowException is "Thrown when you try to read
\* completely out of the bounds of the buffers": nothing that begins behind the last
\* byte received is read (next_cursor, read_char, read_across_buffers).
OutsideIsThrown == fault => From(field) <= packet.bytes + packet.ahead
==============================================================================
