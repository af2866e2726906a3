------------------------------- MODULE WriteProof -------------------------------
(***************************************************************************)
(* Theorems about the write path: no write leaves the array of entries or  *)
(* the room for the length, write_wbuf leaves the array in one way only,   *)
(* and a packet that copies no more into the buffer than it first held     *)
(* finds its entries alive.  For any sizes of buffer and values, any mix   *)
(* of writes and any way writev takes them; and so for every sender.  A    *)
(* sender's own packets find their entries alive even where they outgrow   *)
(* the buffer (LayoutInv).                                                 *)
(***************************************************************************)
EXTENDS Senders, FiniteSetTheorems, TLAPS

Entries == [own : BOOLEAN, mem : Nat, off : Int, len : Int]

\* The offsets into buf and the counters of iov keep their order.
OffsetInv ==
  /\ size \in Nat /\ mem \in Nat /\ start \in Nat /\ cursor \in Nat
  /\ iovSize \in Nat /\ written \in Nat /\ at \in Int
  /\ Headroom <= start /\ start <= cursor /\ cursor <= size
  /\ Capacity + Headroom <= size
  /\ iov \in Seq(Entries)
  /\ -2 <= at /\ at <= Len(iov)
  /\ reach = 0 \/ (reach = at + 1 /\ at >= 0)

\* Until the length is written, the first entry begins behind the room for it;
\* and as long as there is none, all that was written lies in buf.
FirstInv ==
  /\ at < 0 /\ Len(iov) = 0 => start = Headroom /\ cursor = Headroom + written
  /\ at < 0 /\ Len(iov) > 0 => iov[1].off = Headroom
  /\ at = -2 => Len(iov) > 0

WriteInv == OffsetInv /\ FirstInv /\ ArrayLeftAtEnd /\ SmallPacketsSafe

\* No entry is left behind by a new buffer.
Live ==
  /\ \A i \in DOMAIN iov : ~ Stale(iov[i])
  /\ fault \notin {"freed_read", "freed_write"}

\* What SmallPacketsSafe asks of a step that takes no new buffer.
LEMMA LiveIsSafe ==
  ASSUME WriteInv, Live => Live', cursor' = cursor
  PROVE  SmallPacketsSafe'
BY DEF WriteInv, SmallPacketsSafe, Live
------------------------------------------------------------------------------
\* No number of up to Headroom bytes is longer than the room for the length.
LEMMA LengthHasRoom ==
  ASSUME NEW x
  PROVE  VarintSize(x) \in Nat /\ VarintSize(x) <= Headroom
<1> DEFINE J == {j \in 1 .. Headroom - 1 : x >= Radix ^ j}
<1>1. Headroom \in Nat \ {0} /\ Headroom - 1 \in Int
  BY WriteAssumption DEF WriteAssumption
<1>2. IsFiniteSet(1 .. Headroom - 1) /\ Cardinality(1 .. Headroom - 1) <= Headroom - 1
  BY <1>1, FS_Interval
<1>3. Cardinality(1 .. Headroom - 1) \in Nat
  BY <1>2, FS_CardinalityType
<1>4. J \in SUBSET (1 .. Headroom - 1)
  OBVIOUS
<1>5. IsFiniteSet(J) /\ Cardinality(J) <= Cardinality(1 .. Headroom - 1)
  BY <1>2, <1>4, FS_Subset
<1>6. Cardinality(J) \in Nat
  BY <1>5, FS_CardinalityType
<1> HIDE DEF J
<1>7. 1 + Cardinality(J) \in Nat /\ 1 + Cardinality(J) <= Headroom
  BY <1>1, <1>2, <1>3, <1>5, <1>6
<1> QED
  BY <1>7 DEF VarintSize, J

\* A value that is copied: buf grows only when it holds more than at first.
LEMMA WriteKeeps ==
  ASSUME WriteInv, NEW n \in Nat, Write(n)
  PROVE  /\ WriteInv'
         /\ mem' = mem /\ Live => Live'
<1> USE WriteAssumption DEF WriteAssumption
<1>0. /\ at = -1 /\ at' = at /\ start' = start /\ cursor' = cursor + n
      /\ written' = written + n /\ UNCHANGED <<iov, iovSize, reach, fault>>
  BY DEF Write, Building, iovVars
<1>1. /\ size' \in Nat /\ mem' \in Nat /\ size <= size' /\ cursor + n <= size'
      /\ size' # size \/ mem' # mem => cursor + n > Capacity + Headroom
  <2>1. /\ size \in Nat /\ mem \in Nat /\ cursor \in Nat /\ cursor <= size
        /\ Capacity + Headroom <= size
        /\ Capacity \in Nat /\ Headroom \in Nat /\ Extra \in Nat
    BY DEF WriteInv, OffsetInv
  <2>2. IF size - cursor < n
        THEN size' = size + n + Extra /\ mem' = mem + 1
        ELSE size' = size /\ mem' = mem
    BY DEF Write, TooSmall
  <2> QED
    BY <2>1, <2>2
<1>2. OffsetInv'
  BY <1>0, <1>1 DEF WriteInv, OffsetInv
<1>3. FirstInv'
  BY <1>0 DEF WriteInv, OffsetInv, FirstInv
<1>4. ArrayLeftAtEnd'
  BY <1>0 DEF WriteInv, ArrayLeftAtEnd, IovFits, LengthFits, LeavesByOne
<1>5. SmallPacketsSafe'
  <2> SUFFICES ASSUME cursor' - Headroom <= Capacity
               PROVE  /\ \A i \in DOMAIN iov' : ~ Stale(iov[i])'
                      /\ fault' \notin {"freed_read", "freed_write"}
    BY DEF SmallPacketsSafe
  <2>1. mem' = mem
    BY <1>0, <1>1 DEF WriteInv, OffsetInv
  <2>2. cursor - Headroom <= Capacity
    BY <1>0 DEF WriteInv, OffsetInv
  <2> QED
    BY <1>0, <2>1, <2>2 DEF WriteInv, SmallPacketsSafe, Stale
<1>6. mem' = mem /\ Live => Live'
  BY <1>0 DEF Live, Stale
<1> QED
  BY <1>2, <1>3, <1>4, <1>5, <1>6 DEF WriteInv

\* New entries for which there is room, and which are alive.
LEMMA PushKeeps ==
  ASSUME WriteInv, fault = "none",
         NEW es \in Seq(Entries), NEW n, NEW room \in Nat, Push(es, n, room),
         Len(iov) + Len(es) <= room,
         \A i \in DOMAIN es : ~ Stale(es[i]),
         mem' = mem, reach = 0
  PROVE  /\ iov' \in Seq(Entries) /\ iovSize' \in Nat /\ reach' = 0
         /\ Len(iov') = Len(iov) + Len(es)
         /\ Len(iov) > 0 => iov'[1] = iov[1]
         /\ Len(iov) = 0 /\ Len(es) > 0 => iov'[1] = es[1]
         /\ ArrayLeftAtEnd' /\ (Live => Live')
<1>1. iov \in Seq(Entries) /\ iov' = iov \o es /\ iovSize' = room
  BY DEF WriteInv, OffsetInv, Push
<1>2. iov' \in Seq(Entries) /\ Len(iov') = Len(iov) + Len(es)
  BY <1>1
<1>3. \A i \in 1 .. Len(iov') : iov'[i] = IF i <= Len(iov) THEN iov[i] ELSE es[i - Len(iov)]
  BY <1>1
<1>4. fault' = "none" /\ reach' = 0
  BY <1>1, <1>2 DEF Push
<1>5. ArrayLeftAtEnd'
  BY <1>1, <1>2, <1>4 DEF ArrayLeftAtEnd, IovFits, LengthFits, LeavesByOne
<1>6. Live => Live'
  <2> SUFFICES ASSUME Live, NEW i \in DOMAIN iov'
               PROVE  ~ Stale(iov[i])'
    BY <1>4 DEF Live
  <2>1. i \in 1 .. Len(iov') /\ i \in Int /\ Len(iov) \in Nat /\ Len(es) \in Nat
    BY <1>1, <1>2
  <2>2. CASE i <= Len(iov)
    <3>1. i \in DOMAIN iov /\ iov'[i] = iov[i]
      BY <1>1, <1>3, <2>1, <2>2
    <3> QED
      BY <3>1 DEF Live, Stale
  <2>3. CASE i > Len(iov)
    <3>1. i - Len(iov) \in 1 .. Len(es)
      BY <1>2, <2>1, <2>3
    <3>2. i - Len(iov) \in DOMAIN es /\ iov'[i] = es[i - Len(iov)]
      BY <1>3, <2>1, <2>3, <3>1
    <3> QED
      BY <3>2 DEF Stale
  <2> QED
    BY <2>1, <2>2, <2>3
<1>7. /\ Len(iov) > 0 => iov'[1] = iov[1]
      /\ Len(iov) = 0 /\ Len(es) > 0 => iov'[1] = es[1]
  BY <1>1, <1>2, <1>3
<1> QED
  BY <1>1, <1>2, <1>4, <1>5, <1>6, <1>7

LEMMA AppendOne ==
  ASSUME NEW seq \in Seq(Entries), NEW e \in Entries
  PROVE  /\ Append(seq, e) \in Seq(Entries) /\ Len(Append(seq, e)) = Len(seq) + 1
         /\ Append(seq, e)[Len(seq) + 1] = e
         /\ \A i \in 1 .. Len(seq) : Append(seq, e)[i] = seq[i]
  OBVIOUS

LEMMA ReplaceOne ==
  ASSUME NEW seq \in Seq(Entries), NEW k \in DOMAIN seq, NEW e \in Entries
  PROVE  /\ [seq EXCEPT ![k] = e] \in Seq(Entries) /\ Len([seq EXCEPT ![k] = e]) = Len(seq)
         /\ [seq EXCEPT ![k] = e][k] = e
         /\ \A i \in DOMAIN seq : i # k => [seq EXCEPT ![k] = e][i] = seq[i]
  OBVIOUS

LEMMA CutEntry ==
  ASSUME NEW e \in Entries, NEW d \in Int
  PROVE  Cut(e, d) \in Entries /\ Cut(e, d).own = e.own /\ Cut(e, d).mem = e.mem
<1>1. e.own \in BOOLEAN /\ e.mem \in Nat /\ e.off \in Int /\ e.len \in Int
  BY DEF Entries
<1>2. e.off + d \in Int /\ e.len - d \in Int
  BY <1>1
<1> QED
  BY <1>1, <1>2 DEF Entries, Cut

\* A sector of buf as it is now.
LEMMA SectorEntry ==
  ASSUME WriteInv
  PROVE  /\ Own(start, Sector) \in Entries /\ ~ Stale(Own(start, Sector))
         /\ Own(start, Sector).off = start
  BY DEF WriteInv, OffsetInv, Own, Entries, Stale, Sector

\* A string is never first: there is always a sector before it.
LEMMA WriteBytesKeeps ==
  ASSUME WriteInv, NEW n \in Nat, WriteBytes(n)
  PROVE  WriteInv' /\ (Live => Live')
<1> USE WriteAssumption DEF WriteAssumption
<1> DEFINE sector == IF Sector > 0 \/ iov = << >> THEN <<Own(start, Sector)>> ELSE << >>
           text   == String(written + 1, n)
           es     == Append(sector, text)
           room   == Room(IF Sector > 0 THEN 1 ELSE 0)
<1>0. /\ at = -1 /\ at' = at /\ start' = cursor /\ cursor' = cursor
      /\ written' = written + n /\ UNCHANGED <<size, mem>> /\ fault = "none"
      /\ Push(es, Sector + n, room)
  BY DEF WriteBytes, Building
<1>1. /\ Sector \in Nat /\ iovSize \in Nat /\ Len(iov) \in Nat /\ Len(iov) <= iovSize
      /\ reach = 0
  BY <1>0 DEF WriteInv, OffsetInv, ArrayLeftAtEnd, IovFits, Sector
<1>2. iov = << >> <=> Len(iov) = 0
  BY DEF WriteInv, OffsetInv
<1>3. text \in Entries /\ ~ Stale(text)
  BY DEF WriteInv, OffsetInv, String, Entries, Stale
<1>4. /\ sector \in Seq(Entries)
      /\ Len(sector) = IF Sector > 0 \/ iov = << >> THEN 1 ELSE 0
      /\ Len(sector) = 1 => sector[1] = Own(start, Sector)
  BY SectorEntry
<1> HIDE DEF sector, text
<1>5. /\ es \in Seq(Entries) /\ Len(es) = Len(sector) + 1
      /\ es[Len(es)] = text
      /\ Len(sector) = 1 => es[1] = Own(start, Sector)
      /\ \A i \in DOMAIN es : i = Len(es) \/ (Len(sector) = 1 /\ i = 1)
  <2>1. Len(sector) \in {0, 1}
    BY <1>4
  <2>2. /\ es \in Seq(Entries) /\ Len(es) = Len(sector) + 1
        /\ es[Len(sector) + 1] = text
        /\ \A i \in 1 .. Len(sector) : es[i] = sector[i]
    <3>1. sector \in Seq(Entries) /\ text \in Entries
      BY <1>3, <1>4
    <3> QED
      BY <3>1, AppendOne
  <2> HIDE DEF es
  <2>3. DOMAIN es = 1 .. Len(sector) + 1
    BY <2>2
  <2>4. Len(sector) = 1 => es[1] = Own(start, Sector)
    BY <1>4, <2>2
  <2>5. \A i \in DOMAIN es : i = Len(es) \/ (Len(sector) = 1 /\ i = 1)
    BY <2>1, <2>2, <2>3
  <2> QED
    BY <2>2, <2>4, <2>5
<1>6. \A i \in DOMAIN es : ~ Stale(es[i])
  BY <1>3, <1>5, SectorEntry
<1>7. room \in Nat /\ Len(iov) + Len(es) <= room
  BY <1>1, <1>2, <1>4, <1>5 DEF Room
<1> HIDE DEF es, room
<1>8. /\ iov' \in Seq(Entries) /\ iovSize' \in Nat /\ reach' = 0
      /\ Len(iov') = Len(iov) + Len(es)
      /\ Len(iov) > 0 => iov'[1] = iov[1]
      /\ Len(iov) = 0 /\ Len(es) > 0 => iov'[1] = es[1]
      /\ ArrayLeftAtEnd' /\ (Live => Live')
  BY <1>0, <1>1, <1>5, <1>6, <1>7, PushKeeps
<1>9. OffsetInv'
  BY <1>0, <1>1, <1>8 DEF WriteInv, OffsetInv
<1>10. FirstInv'
  <2>1. Len(iov') > 0
    BY <1>1, <1>4, <1>5, <1>8
  <2>2. iov'[1].off = Headroom
    <3>1. CASE Len(iov) > 0
      BY <1>0, <1>8, <3>1 DEF WriteInv, FirstInv
    <3>2. CASE Len(iov) = 0
      <4>1. iov'[1] = Own(start, Sector)
        BY <1>2, <1>4, <1>5, <1>8, <3>2
      <4>2. start = Headroom
        BY <1>0, <3>2 DEF WriteInv, FirstInv
      <4> QED
        BY <4>1, <4>2, SectorEntry
    <3> QED
      BY <1>1, <3>1, <3>2
  <2> QED
    BY <2>1, <2>2, <1>0 DEF FirstInv
<1> QED
  BY <1>0, <1>8, <1>9, <1>10, LiveIsSafe DEF WriteInv

\* The end of the packet: what is left of buf becomes the last entry, and there
\* is a first one.
LEMMA LastWriteKeeps ==
  ASSUME WriteInv, LastWrite
  PROVE  WriteInv' /\ (Live => Live')
<1> USE WriteAssumption DEF WriteAssumption
<1>0. /\ at = -1 /\ at' = -2 /\ cursor' = cursor /\ written > 0 /\ fault = "none"
      /\ UNCHANGED <<size, mem, written>> /\ Flush
  BY DEF LastWrite, Building
<1>1. /\ Sector \in Nat /\ iovSize \in Nat /\ Len(iov) \in Nat /\ Len(iov) <= iovSize
      /\ reach = 0
  BY <1>0 DEF WriteInv, OffsetInv, ArrayLeftAtEnd, IovFits, Sector
<1>2. CASE Sector > 0
  <2> DEFINE es   == <<Own(start, Sector)>>
             room == IF Len(iov) >= iovSize - 1 THEN Len(iov) + 1 ELSE iovSize
  <2>1. Push(es, Sector, room) /\ start' = cursor
    BY <1>0, <1>2 DEF Flush
  <2>2. /\ es \in Seq(Entries) /\ Len(es) = 1 /\ es[1] = Own(start, Sector)
        /\ \A i \in DOMAIN es : ~ Stale(es[i])
    BY SectorEntry
  <2>3. room \in Nat /\ Len(iov) + Len(es) <= room
    BY <1>1, <2>2
  <2> HIDE DEF es, room
  <2>4. /\ iov' \in Seq(Entries) /\ iovSize' \in Nat /\ reach' = 0
        /\ Len(iov') = Len(iov) + Len(es)
        /\ Len(iov) > 0 => iov'[1] = iov[1]
        /\ Len(iov) = 0 /\ Len(es) > 0 => iov'[1] = es[1]
        /\ ArrayLeftAtEnd' /\ (Live => Live')
    BY <1>0, <1>1, <2>1, <2>2, <2>3, PushKeeps
  <2>5. OffsetInv'
    <3>1. at' = -2 /\ at' <= Len(iov')
      BY <1>0, <1>1, <2>2, <2>4
    <3>2. /\ start' = cursor /\ cursor' = cursor
          /\ UNCHANGED <<size, mem, written>> /\ OffsetInv
      BY <1>0, <2>1 DEF WriteInv
    <3>3. /\ size' \in Nat /\ mem' \in Nat /\ start' \in Nat /\ cursor' \in Nat /\ written' \in Nat
          /\ Headroom <= start' /\ start' <= cursor' /\ cursor' <= size'
          /\ Capacity + Headroom <= size'
      BY <3>2, WriteAssumption DEF OffsetInv, WriteAssumption
    <3> QED
      BY <2>4, <3>1, <3>3 DEF OffsetInv
  <2>6. iov'[1].off = Headroom
    <3>1. CASE Len(iov) > 0
      BY <1>0, <2>4, <3>1 DEF WriteInv, FirstInv
    <3>2. CASE Len(iov) = 0
      <4>1. iov'[1] = Own(start, Sector)
        BY <2>2, <2>4, <3>2
      <4>2. start = Headroom
        BY <1>0, <3>2 DEF WriteInv, FirstInv
      <4> QED
        BY <4>1, <4>2, SectorEntry
    <3> QED
      BY <1>1, <3>1, <3>2
  <2>7. FirstInv'
    BY <1>0, <1>1, <2>2, <2>4, <2>6 DEF FirstInv
  <2> QED
    BY <1>0, <2>4, <2>5, <2>7, LiveIsSafe DEF WriteInv
<1>3. CASE ~ Sector > 0
  <2>1. UNCHANGED <<iov, iovSize, reach, start, fault>>
    BY <1>0, <1>3 DEF Flush, iovVars
  <2>2. Len(iov) > 0
    BY <1>0, <1>1, <1>3 DEF WriteInv, OffsetInv, FirstInv, Sector
  <2>3. OffsetInv' /\ FirstInv' /\ ArrayLeftAtEnd'
    BY <1>0, <1>1, <2>1, <2>2 DEF WriteInv, OffsetInv, FirstInv, ArrayLeftAtEnd, IovFits, LengthFits, LeavesByOne
  <2>4. Live => Live'
    BY <1>0, <2>1 DEF Live, Stale
  <2> QED
    BY <1>0, <2>3, <2>4, LiveIsSafe DEF WriteInv
<1> QED
  BY <1>2, <1>3

\* The length goes in front of the first entry, where there is room for it.
LEMMA WriteLengthKeeps ==
  ASSUME WriteInv, WriteLength
  PROVE  WriteInv' /\ (Live => Live')
<1> USE WriteAssumption DEF WriteAssumption
<1> DEFINE n     == VarintSize(plen)
           first == iov[1]
           from  == first.off - n
<1>0. /\ at = -2 /\ fault = "none"
      /\ UNCHANGED <<size, mem, start, cursor, iovSize, reach, written>>
  BY DEF WriteLength
<1>1. /\ iov \in Seq(Entries) /\ Len(iov) \in Nat /\ Len(iov) > 0 /\ first.off = Headroom
      /\ Len(iov) <= iovSize /\ reach = 0
  BY <1>0 DEF WriteInv, OffsetInv, FirstInv, ArrayLeftAtEnd, IovFits
<1>2. n \in Nat /\ n <= Headroom
  BY LengthHasRoom
<1>3. first \in Entries /\ first.len \in Int /\ first.own \in BOOLEAN /\ first.mem \in Nat
  <2>1. first \in Entries
    BY <1>1
  <2> QED
    BY <2>1 DEF Entries
<1>4. CASE Stale(first)
  <2>1. fault' = "freed_write" /\ UNCHANGED <<iov, at>>
    BY <1>4 DEF WriteLength
  <2>2. OffsetInv' /\ FirstInv' /\ ArrayLeftAtEnd'
    BY <1>0, <1>1, <2>1 DEF WriteInv, OffsetInv, FirstInv, ArrayLeftAtEnd, IovFits, LengthFits, LeavesByOne
  <2>3. ~ Live
    BY <1>1, <1>4 DEF Live
  <2> QED
    BY <1>0, <2>2, <2>3, LiveIsSafe DEF WriteInv
<1>5. CASE ~ Stale(first)
  <2> HIDE DEF n
  <2>1. ~ (from < 0) /\ from \in Int
    BY <1>1, <1>2
  <2>2. /\ iov' = [iov EXCEPT ![1] = Cut(@, - n)]
        /\ at' = 0 /\ fault' = fault
    BY <1>5, <2>1 DEF WriteLength, n
  <2>3. /\ iov' \in Seq(Entries) /\ Len(iov') = Len(iov)
        /\ \A i \in 2 .. Len(iov) : iov'[i] = iov[i]
        /\ iov'[1].own = first.own /\ iov'[1].mem = first.mem
    <3> DEFINE e == Cut(first, - n)
    <3>1. e \in Entries /\ e.own = first.own /\ e.mem = first.mem
      <4>1. first \in Entries /\ - n \in Int
        BY <1>2, <1>3
      <4> HIDE DEF first
      <4> QED
        BY <4>1, CutEntry
    <3>2. iov' = [iov EXCEPT ![1] = e]
      BY <2>2
    <3> HIDE DEF e
    <3> QED
      BY <1>1, <3>1, <3>2, ReplaceOne
  <2>4. OffsetInv' /\ FirstInv' /\ ArrayLeftAtEnd'
    BY <1>0, <1>1, <2>2, <2>3
       DEF WriteInv, OffsetInv, FirstInv, ArrayLeftAtEnd, IovFits, LengthFits, LeavesByOne
  <2>5. Live => Live'
    <3> SUFFICES ASSUME Live, NEW i \in DOMAIN iov'
                 PROVE  ~ Stale(iov[i])'
      BY <1>0, <2>2 DEF Live
    <3>1. i \in DOMAIN iov /\ (i = 1 \/ i \in 2 .. Len(iov))
      BY <1>1, <2>3
    <3>2. iov'[i].own = iov[i].own /\ iov'[i].mem = iov[i].mem
      BY <2>3, <3>1
    <3> QED
      BY <1>0, <3>1, <3>2 DEF Live, Stale
  <2> QED
    BY <1>0, <2>4, <2>5, LiveIsSafe DEF WriteInv
<1> QED
  BY <1>4, <1>5

\* writev reads only entries that there are, and changes none but its last.
LEMMA WritevKeeps ==
  ASSUME WriteInv, Sending, at < Len(iov), NEW n \in Int, Writev(n)
  PROVE  WriteInv' /\ (Live => Live')
<1>0. /\ UNCHANGED <<size, mem, start, cursor, iovSize, written>>
      /\ at \in Nat /\ fault = "none"
  BY DEF Writev, bufVars, Sending, WriteInv, OffsetInv
<1>1. PICK done \in 0 .. Len(Pending), rest \in 0 .. n :
        LET last == at + done = Len(iov)
            read == at + 1 .. at + done + (IF rest > 0 THEN 1 ELSE 0)
        IN  /\ Finishes(n, done, rest)
            /\ at' = at + done
            /\ reach' = at + done + 1
            /\ iov' = IF last THEN iov ELSE [iov EXCEPT ![at + done + 1] = Cut(@, rest)]
            /\ fault' \in IF \E i \in read : Stale(iov[i]) THEN {"freed_read"}
                         ELSE IF last /\ Len(iov) = highest THEN {"none", "ran_off"}
                         ELSE {"none"}
  BY DEF Writev
<1> DEFINE read == at + 1 .. at + done + (IF rest > 0 THEN 1 ELSE 0)
<1>2. iov \in Seq(Entries) /\ Len(iov) \in Nat /\ Len(Pending) = Len(iov) - at
  BY <1>0 DEF WriteInv, OffsetInv, Pending
<1>3. done \in Nat /\ rest \in Nat /\ at + done <= Len(iov)
  BY <1>0, <1>1, <1>2
<1>4. rest > 0 => at + done < Len(iov)
  BY <1>0, <1>1, <1>2, <1>3 DEF Finishes
<1>5. read \subseteq DOMAIN iov
  BY <1>0, <1>2, <1>3, <1>4
<1>6. /\ iov' \in Seq(Entries) /\ Len(iov') = Len(iov)
      /\ \A i \in DOMAIN iov : iov'[i].own = iov[i].own /\ iov'[i].mem = iov[i].mem
  <2>1. CASE at + done = Len(iov)
    BY <1>1, <1>2, <2>1
  <2>2. CASE at + done # Len(iov)
    <3> DEFINE k == at + done + 1
    <3>1. k \in DOMAIN iov /\ iov' = [iov EXCEPT ![k] = Cut(iov[k], rest)]
      <4>1. k \in DOMAIN iov
        BY <1>0, <1>2, <1>3, <2>2
      <4>2. iov' = [iov EXCEPT ![at + done + 1] = Cut(@, rest)]
        BY <1>1, <2>2
      <4> QED
        BY <4>1, <4>2
    <3>2. iov[k] \in Entries
      BY <1>2, <3>1
    <3>3. /\ Cut(iov[k], rest) \in Entries
          /\ Cut(iov[k], rest).own = iov[k].own /\ Cut(iov[k], rest).mem = iov[k].mem
      <4>1. rest \in Int
        BY <1>3
      <4> HIDE DEF k
      <4> QED
        BY <4>1, <3>2, CutEntry
    <3> HIDE DEF k
    <3> QED
      BY <1>2, <3>1, <3>3, ReplaceOne
  <2> QED
    BY <2>1, <2>2
<1>7. /\ fault' \in {"none", "freed_read", "ran_off"} /\ at' = at + done /\ reach' = at' + 1
      /\ fault' = "ran_off" => at' = Len(iov)
      /\ fault' = "freed_read" => \E i \in read : Stale(iov[i])
  BY <1>1
<1> HIDE DEF read
<1>8. OffsetInv' /\ FirstInv' /\ ArrayLeftAtEnd'
  BY <1>0, <1>1, <1>2, <1>3, <1>6, <1>7
     DEF WriteInv, OffsetInv, FirstInv, ArrayLeftAtEnd, IovFits, LengthFits, LeavesByOne
<1>9. Live => Live'
  <2> SUFFICES ASSUME Live
               PROVE  /\ \A i \in DOMAIN iov' : ~ Stale(iov[i])'
                      /\ fault' \notin {"freed_read", "freed_write"}
    BY DEF Live
  <2>1. \A i \in DOMAIN iov : ~ Stale(iov[i])
    BY DEF Live
  <2>2. DOMAIN iov' = DOMAIN iov
    BY <1>2, <1>6
  <2> QED
    BY <1>0, <1>5, <1>6, <1>7, <2>1, <2>2 DEF Stale
<1> QED
  BY <1>0, <1>8, <1>9, LiveIsSafe DEF WriteInv

LEMMA ResetKeeps ==
  ASSUME WriteInv, Sending, Reset
  PROVE  WriteInv' /\ Live'
<1> USE WriteAssumption DEF WriteAssumption
<1>1. /\ start' = Headroom /\ cursor' = Headroom /\ iov' = << >> /\ at' = -1 /\ written' = 0
      /\ reach' = 0 /\ UNCHANGED <<size, mem, iovSize, fault>> /\ fault = "none"
  BY DEF Reset, FirstSector, Sending
<1>2. iov' \in Seq(Entries) /\ Len(iov') = 0 /\ DOMAIN iov' = {}
  BY <1>1
<1>3. OffsetInv' /\ FirstInv' /\ ArrayLeftAtEnd'
  BY <1>1, <1>2 DEF WriteInv, OffsetInv, FirstInv, ArrayLeftAtEnd, IovFits, LengthFits, LeavesByOne
<1> QED
  BY <1>1, <1>2, <1>3 DEF WriteInv, SmallPacketsSafe, Live
------------------------------------------------------------------------------
LEMMA WriteInit == Init => WriteInv
<1> USE WriteAssumption DEF WriteAssumption
<1> SUFFICES ASSUME Init PROVE WriteInv
  OBVIOUS
<1>1. iov \in Seq(Entries) /\ Len(iov) = 0 /\ DOMAIN iov = {}
  BY DEF Init
<1>2. OffsetInv /\ FirstInv /\ ArrayLeftAtEnd
  BY <1>1 DEF Init, OffsetInv, FirstInv, ArrayLeftAtEnd, IovFits, LengthFits, LeavesByOne
<1> QED
  BY <1>1, <1>2 DEF Init, WriteInv, SmallPacketsSafe

LEMMA WriteStutter == WriteInv /\ UNCHANGED vars => WriteInv'
BY DEF WriteInv, OffsetInv, FirstInv, ArrayLeftAtEnd, IovFits, LengthFits, LeavesByOne, SmallPacketsSafe, Stale,
       vars, bufVars, iovVars

LEMMA SendSomeKeeps == WriteInv /\ SendSome => WriteInv' /\ (Live => Live')
<1> SUFFICES ASSUME WriteInv, SendSome PROVE WriteInv' /\ (Live => Live')
  OBVIOUS
<1>1. PICK n \in Min({1, Left}) .. Left : Writev(n)
  BY DEF SendSome
<1>2. n \in Int
  BY <1>1
<1> QED
  BY <1>1, <1>2, WritevKeeps DEF SendSome

\* One step for any mix of writes.
LEMMA WriteNext == WriteInv /\ [Next]_vars => WriteInv'
<1> SUFFICES ASSUME WriteInv, [Next]_vars PROVE WriteInv'
  OBVIOUS
<1>1. ASSUME NEW n \in OwnSizes, Write(n) PROVE WriteInv'
  BY <1>1, WriteKeeps, WriteAssumption DEF WriteAssumption
<1>2. ASSUME NEW n \in StringSizes, WriteBytes(n) PROVE WriteInv'
  BY <1>2, WriteBytesKeeps, WriteAssumption DEF WriteAssumption
<1>3. CASE LastWrite
  BY <1>3, LastWriteKeeps
<1>4. CASE WriteLength
  BY <1>4, WriteLengthKeeps
<1>5. CASE SendSome
  BY <1>5, SendSomeKeeps
<1>6. CASE Sent
  BY <1>6, ResetKeeps DEF Sent
<1>7. CASE WritevFails
  BY <1>7, ResetKeeps DEF WritevFails
<1>8. CASE UNCHANGED vars
  BY <1>8, WriteStutter
<1> QED
  BY <1>1, <1>2, <1>3, <1>4, <1>5, <1>6, <1>7, <1>8 DEF Next

LEMMA WriteInvariant == Spec => []WriteInv
BY WriteInit, WriteNext, PTL DEF Spec

\* Whatever the sizes of values, strings and buffer and the mix of writes, no write
\* leaves the array of entries or the room for the length; write_wbuf leaves the array
\* by the one entry behind it, once the packet is out, and goes further only over an
\* empty one (write_bytes, flush_buffer, iov, write_wbuf).
THEOREM MixesFit == Spec => []ArrayLeftAtEnd
BY WriteInvariant, PTL DEF WriteInv

\* A packet that copies no more than the initial capacity keeps all of its
\* entries alive, whatever its writes (ensure_capacity, buffer_resize).
THEOREM SmallMixesSafe == Spec => []SmallPacketsSafe
BY WriteInvariant, PTL DEF WriteInv
------------------------------------------------------------------------------
(* The senders: each does writes of some sizes. *)

Writes == [copied : BOOLEAN, size : Nat]

\* The first write of todo that is not copied.
FirstText(f) ==
  /\ f \in DOMAIN todo /\ ~ todo[f].copied
  /\ \A i \in DOMAIN todo : i < f => todo[i].copied

\* No entry is made before the packet's last write.
EntryLast == iov = << >> /\ \A i \in DOMAIN todo : i < Len(todo) => todo[i].copied

\* The UUID of a login is still to be written, behind the packet id.
BeforeUuid ==
  /\ iov = << >>
  /\ \E u \in DOMAIN todo, f \in DOMAIN todo :
       /\ u \in {1, 2} /\ cursor + u = Headroom + 2 /\ todo[u] = Uuid
       /\ FirstText(f) /\ u < f /\ Len(todo) <= u + 2 * Headroom + 1
       /\ \A i \in DOMAIN todo : i # u /\ todo[i].copied => todo[i].size = 1

\* What is left to be copied are single bytes, and there is room for them; in
\* todo the first text stands between them.
BeforeText ==
  /\ iov = << >>
  /\ \E f \in DOMAIN todo :
       /\ FirstText(f)
       /\ \A i \in DOMAIN todo : todo[i].copied =>
            todo[i].size = 1 /\ cursor + i <= size + (IF i > f THEN 1 ELSE 0)

AfterText ==
  \A i \in DOMAIN todo : todo[i].copied => todo[i].size = 1 /\ cursor + i <= size

Stages == EntryLast \/ BeforeUuid \/ BeforeText \/ AfterText

Resting == at = -1 /\ fault = "none" /\ iov = << >> /\ cursor = Headroom /\ todo = << >>

\* A sender's packet is alive, and no write that is left takes a new buffer once
\* it has an entry; a buffer that has grown once has room for a whole login.
LayoutInv ==
  /\ size = Capacity + Headroom \/ size > Capacity + Headroom + Extra
  /\ at # -1 => todo = << >>
  /\ sender = "nobody" => Resting
  /\ sender = "any" => todo = << >>
  /\ sender \in DOMAIN Layouts => Live /\ (at = -1 => Stages)

SendersInv == WriteInv /\ todo \in Seq(Writes) /\ LayoutInv

LEMMA ConcatWrites ==
  ASSUME NEW s \in Seq(Writes), NEW t \in Seq(Writes)
  PROVE  s \o t \in Seq(Writes)
OBVIOUS

LEMMA SingleWrites ==
  ASSUME NEW a \in Writes, NEW b \in Writes
  PROVE  << >> \in Seq(Writes) /\ <<a>> \in Seq(Writes) /\ <<a, b>> \in Seq(Writes)
OBVIOUS

LEMMA EachIsWrite ==
  /\ Byte \in Writes /\ Long \in Writes /\ Uuid \in Writes
  /\ \A n \in Nat : Behind(n) \in Writes
BY SendersAssumption DEF SendersAssumption, Writes, Byte, Long, Uuid, Copied, Behind

LEMMA VarintIsWrites ==
  ASSUME NEW x
  PROVE  VarintOf(x) \in Seq(Writes)
<1>1. VarintSize(x) \in Nat
  BY LengthHasRoom
<1>2. VarintOf(x) \in [1 .. VarintSize(x) -> Writes]
  BY EachIsWrite DEF VarintOf
<1> QED
  BY <1>1, <1>2

LEMMA StringIsWrites ==
  ASSUME NEW n \in Nat
  PROVE  StringOf(n) \in Seq(Writes)
<1>1. VarintOf(n) \in Seq(Writes)
  BY VarintIsWrites
<1>2. (IF n > 0 THEN <<Behind(n)>> ELSE << >>) \in Seq(Writes)
  BY EachIsWrite, SingleWrites
<1> QED
  BY <1>1, <1>2, ConcatWrites DEF StringOf

LEMMA LayoutsAreWrites ==
  ASSUME NEW s \in DOMAIN Layouts
  PROVE  Layouts[s] \subseteq Seq(Writes)
<1> USE SendersAssumption DEF SendersAssumption
<1>1. LoginSuccess \subseteq Seq(Writes)
  <2> SUFFICES ASSUME NEW n \in NameSizes
               PROVE  <<Byte, Uuid>> \o StringOf(n) \o StringOf(0) \in Seq(Writes)
    BY DEF LoginSuccess
  <2>1. <<Byte, Uuid>> \in Seq(Writes) /\ StringOf(n) \in Seq(Writes) /\ StringOf(0) \in Seq(Writes)
    BY EachIsWrite, SingleWrites, StringIsWrites
  <2>2. <<Byte, Uuid>> \o StringOf(n) \in Seq(Writes)
    BY <2>1, ConcatWrites
  <2> QED
    BY <2>1, <2>2, ConcatWrites
<1>2. <<Byte>> \in Seq(Writes) /\ <<Byte, Long>> \in Seq(Writes)
  BY EachIsWrite, SingleWrites
<1>3. /\ StringOf(LongText) \in Seq(Writes) /\ StringOf(ShortText) \in Seq(Writes)
      /\ VarintOf(1) \in Seq(Writes)
  BY StringIsWrites, VarintIsWrites
<1>4. <<Byte>> \o StringOf(LongText) \in Seq(Writes) /\ <<Byte>> \o VarintOf(1) \in Seq(Writes)
  BY <1>2, <1>3, ConcatWrites
<1>5. /\ <<Byte>> \o StringOf(LongText) \o StringOf(ShortText) \in Seq(Writes)
      /\ <<Byte>> \o VarintOf(1) \o StringOf(LongText) \in Seq(Writes)
  BY <1>3, <1>4, ConcatWrites
<1>6. /\ StatusResponse \subseteq Seq(Writes) /\ PongResponse \subseteq Seq(Writes)
      /\ PluginMessage \subseteq Seq(Writes) /\ FeatureFlags \subseteq Seq(Writes)
      /\ FinishConfig \subseteq Seq(Writes)
  BY <1>2, <1>4, <1>5 DEF StatusResponse, PongResponse, PluginMessage, FeatureFlags, FinishConfig
<1> QED
  BY <1>1, <1>6 DEF Layouts

LEMMA ConcatItems ==
  ASSUME NEW s \in Seq(Writes), NEW t \in Seq(Writes)
  PROVE  /\ s \o t \in Seq(Writes) /\ Len(s \o t) = Len(s) + Len(t)
         /\ \A i \in 1 .. Len(s) + Len(t) :
              (s \o t)[i] = IF i <= Len(s) THEN s[i] ELSE t[i - Len(s)]
OBVIOUS

\* A string is its length, in single bytes, and then its text, if it has one.
LEMMA StringItems ==
  ASSUME NEW n \in Nat
  PROVE  /\ StringOf(n) \in Seq(Writes) /\ VarintSize(n) \in Nat
         /\ Len(StringOf(n)) = VarintSize(n) + (IF n > 0 THEN 1 ELSE 0)
         /\ \A i \in 1 .. VarintSize(n) : StringOf(n)[i] = Byte
         /\ n > 0 => StringOf(n)[VarintSize(n) + 1] = Behind(n)
<1> DEFINE text == IF n > 0 THEN <<Behind(n)>> ELSE << >>
           v    == VarintOf(n)
<1>1. /\ v \in Seq(Writes) /\ VarintSize(n) \in Nat /\ Len(v) = VarintSize(n)
      /\ \A i \in 1 .. VarintSize(n) : v[i] = Byte
  BY VarintIsWrites, LengthHasRoom DEF VarintOf
<1>2. /\ text \in Seq(Writes) /\ Len(text) = IF n > 0 THEN 1 ELSE 0
      /\ n > 0 => text[1] = Behind(n)
  BY EachIsWrite, SingleWrites
<1>3. StringOf(n) = v \o text
  BY DEF StringOf
<1> HIDE DEF v, text
<1> QED
  BY <1>1, <1>2, <1>3, ConcatItems

AllCopied(s) == \A i \in DOMAIN s : s[i].copied

\* Copied values and one string behind them.
LEMMA OneString ==
  ASSUME NEW s \in Seq(Writes), AllCopied(s), NEW n \in Nat
  PROVE  \A i \in DOMAIN (s \o StringOf(n)) :
           \/ (s \o StringOf(n))[i].copied
           \/ i = Len(s \o StringOf(n)) /\ n > 0
<1> DEFINE t == StringOf(n)
<1>1. /\ t \in Seq(Writes) /\ VarintSize(n) \in Nat
      /\ Len(t) = VarintSize(n) + (IF n > 0 THEN 1 ELSE 0)
      /\ \A i \in 1 .. VarintSize(n) : t[i] = Byte
  BY StringItems
<1>2. Byte.copied
  BY DEF Byte, Copied
<1> HIDE DEF t
<1>3. /\ Len(s) \in Nat /\ DOMAIN (s \o t) = 1 .. Len(s) + Len(t) /\ Len(s \o t) = Len(s) + Len(t)
      /\ \A i \in 1 .. Len(s) + Len(t) : (s \o t)[i] = IF i <= Len(s) THEN s[i] ELSE t[i - Len(s)]
  <2> DEFINE w == s \o t
  <2>1. /\ w \in Seq(Writes) /\ Len(w) = Len(s) + Len(t)
        /\ \A i \in 1 .. Len(s) + Len(t) : w[i] = IF i <= Len(s) THEN s[i] ELSE t[i - Len(s)]
    BY <1>1, ConcatItems
  <2> HIDE DEF w
  <2>2. Len(s) \in Nat /\ DOMAIN w = 1 .. Len(s) + Len(t)
    BY <2>1
  <2> QED
    BY <2>1, <2>2 DEF w
<1> SUFFICES ASSUME NEW i \in 1 .. Len(s) + Len(t)
             PROVE  (s \o t)[i].copied \/ (i = Len(s) + Len(t) /\ n > 0)
  BY <1>3 DEF t
<1>4. CASE i <= Len(s)
  BY <1>3, <1>4 DEF AllCopied
<1>5. CASE i > Len(s) /\ i - Len(s) <= VarintSize(n)
  <2>1. i - Len(s) \in 1 .. VarintSize(n)
    BY <1>1, <1>3, <1>5
  <2> QED
    BY <1>1, <1>2, <1>3, <1>5, <2>1
<1>6. CASE i - Len(s) > VarintSize(n)
  BY <1>1, <1>3, <1>6
<1> QED
  BY <1>1, <1>3, <1>4, <1>5, <1>6

\* An empty string is copied as a whole.
LEMMA NoString ==
  ASSUME NEW s \in Seq(Writes), AllCopied(s)
  PROVE  s \o StringOf(0) \in Seq(Writes) /\ AllCopied(s \o StringOf(0))
<1>1. StringOf(0) \in Seq(Writes)
  BY StringIsWrites
<1>2. \A i \in DOMAIN (s \o StringOf(0)) :
        (s \o StringOf(0))[i].copied \/ (i = Len(s \o StringOf(0)) /\ 0 > 0)
  BY OneString
<1> QED
  BY <1>1, <1>2, ConcatWrites DEF AllCopied

\* Where the strings of a layout with two of them are, the first one not empty:
\* each write but the two texts is a copied value, and behind s a single byte.
WithStrings(s, n, m) == s \o StringOf(n) \o StringOf(m)

\* The first text's place among the writes.
TextAt(s, n) == Len(s) + VarintSize(n) + 1

\* How w goes on behind s: single bytes but for the text at f and one at the end.
TextsAt(w, f, s, m) ==
  /\ w \in Seq(Writes) /\ f \in DOMAIN w /\ ~ w[f].copied
  /\ Len(w) = f + VarintSize(m) + (IF m > 0 THEN 1 ELSE 0)
  /\ \A i \in 1 .. Len(s) : w[i] = s[i]
  /\ \A i \in DOMAIN w : i > Len(s) /\ i # f /\ i <= f + VarintSize(m) => w[i] = Byte
  /\ \A i \in DOMAIN w : i > f + VarintSize(m) => ~ w[i].copied

LEMMA TwoStrings ==
  ASSUME NEW s \in Seq(Writes), AllCopied(s), NEW n \in Nat \ {0}, NEW m \in Nat,
         NEW w, WithStrings(s, n, m) = w, NEW f, TextAt(s, n) = f
  PROVE  TextsAt(w, f, s, m)
<1> DEFINE t == StringOf(n)
           u == StringOf(m)
           a == s \o t
<1>0. f = Len(s) + VarintSize(n) + 1
  BY DEF TextAt
<1>1. /\ t \in Seq(Writes) /\ VarintSize(n) \in Nat /\ Len(t) = VarintSize(n) + 1
      /\ \A i \in 1 .. VarintSize(n) : t[i] = Byte
      /\ t[VarintSize(n) + 1] = Behind(n)
  BY StringItems
<1>2. /\ u \in Seq(Writes) /\ VarintSize(m) \in Nat
      /\ Len(u) = VarintSize(m) + (IF m > 0 THEN 1 ELSE 0)
      /\ \A i \in 1 .. VarintSize(m) : u[i] = Byte
      /\ m > 0 => u[VarintSize(m) + 1] = Behind(m)
  BY StringItems
<1>3. ~ Behind(n).copied /\ ~ Behind(m).copied
  BY DEF Behind
<1> HIDE DEF t, u
<1>4. /\ a \in Seq(Writes) /\ Len(a) = Len(s) + Len(t)
      /\ \A i \in 1 .. Len(a) : a[i] = IF i <= Len(s) THEN s[i] ELSE t[i - Len(s)]
  BY <1>1, ConcatItems
<1>5. /\ Len(a) = f /\ f \in Nat /\ f > Len(s) /\ Len(s) \in Nat
      /\ \A i \in 1 .. Len(s) : a[i] = s[i]
      /\ \A i \in Len(s) + 1 .. f - 1 : a[i] = Byte
      /\ a[f] = Behind(n)
  <2>1. Len(a) = f /\ f \in Nat /\ f > Len(s) /\ Len(s) \in Nat
    BY <1>0, <1>1, <1>4
  <2>2. \A i \in 1 .. Len(s) : a[i] = s[i]
    BY <1>4, <2>1
  <2>3. ASSUME NEW i \in Len(s) + 1 .. f - 1 PROVE a[i] = Byte
    <3>1. i - Len(s) \in 1 .. VarintSize(n) /\ i \in 1 .. Len(a) /\ ~ i <= Len(s)
      BY <1>0, <1>1, <2>1
    <3> QED
      BY <1>1, <1>4, <3>1
  <2>4. a[f] = Behind(n)
    <3>1. f - Len(s) = VarintSize(n) + 1 /\ f \in 1 .. Len(a) /\ ~ f <= Len(s)
      BY <1>0, <1>1, <2>1
    <3> QED
      BY <1>1, <1>4, <3>1
  <2> QED
    BY <2>1, <2>2, <2>3, <2>4
<1> HIDE DEF a
<1>6. w = a \o u
  BY DEF a, t, u, WithStrings
<1>7. /\ w \in Seq(Writes) /\ Len(w) = f + Len(u)
      /\ \A i \in 1 .. f + Len(u) : w[i] = IF i <= f THEN a[i] ELSE u[i - f]
  <2>1. /\ a \o u \in Seq(Writes) /\ Len(a \o u) = Len(a) + Len(u)
        /\ \A i \in 1 .. Len(a) + Len(u) :
             (a \o u)[i] = IF i <= Len(a) THEN a[i] ELSE u[i - Len(a)]
    <3>1. a \in Seq(Writes) /\ u \in Seq(Writes)
      BY <1>2, <1>4
    <3> QED
      BY <3>1, ConcatItems
  <2> QED
    BY <1>5, <1>6, <2>1
<1>8. DOMAIN w = 1 .. f + Len(u)
  BY <1>7
<1>9. ASSUME NEW i \in DOMAIN w, i > Len(s), i # f, i <= f + VarintSize(m) PROVE w[i] = Byte
  <2>1. CASE i < f
    <3>1. i \in Len(s) + 1 .. f - 1 /\ i <= f /\ i \in 1 .. f + Len(u)
      BY <1>5, <1>8, <1>9, <2>1
    <3>2. a[i] = Byte
      BY <1>5, <3>1
    <3>3. w[i] = a[i]
      BY <1>7, <3>1
    <3> QED
      BY <3>2, <3>3
  <2>2. CASE i > f
    <3>1. i - f \in 1 .. VarintSize(m)
      BY <1>2, <1>5, <1>8, <1>9, <2>2
    <3>2. ~ i <= f /\ i \in 1 .. f + Len(u)
      BY <1>5, <1>8, <1>9, <2>2
    <3>3. w[i] = u[i - f]
      BY <1>7, <3>2
    <3> QED
      BY <1>2, <3>1, <3>3
  <2> QED
    BY <1>5, <1>8, <1>9, <2>1, <2>2
<1>10. ASSUME NEW i \in DOMAIN w, i > f + VarintSize(m) PROVE ~ w[i].copied
  <2>1. i - f = VarintSize(m) + 1 /\ m > 0 /\ ~ i <= f
    BY <1>2, <1>5, <1>8, <1>10
  <2> QED
    BY <1>2, <1>3, <1>7, <1>8, <2>1
<1>11. /\ f \in DOMAIN w /\ ~ w[f].copied
       /\ Len(w) = f + VarintSize(m) + (IF m > 0 THEN 1 ELSE 0)
       /\ \A i \in 1 .. Len(s) : w[i] = s[i]
  <2>1. /\ f \in 1 .. f + Len(u) /\ f <= f
        /\ Len(w) = f + VarintSize(m) + (IF m > 0 THEN 1 ELSE 0)
    BY <1>2, <1>5, <1>7
  <2>2. w[f] = Behind(n)
    BY <1>5, <1>7, <2>1
  <2>3. ASSUME NEW i \in 1 .. Len(s) PROVE w[i] = s[i]
    <3>1. i <= f /\ i \in 1 .. f + Len(u)
      BY <1>2, <1>5
    <3> QED
      BY <1>5, <1>7, <3>1
  <2> QED
    BY <1>3, <1>8, <2>1, <2>2, <2>3
<1> QED
  BY <1>7, <1>9, <1>10, <1>11 DEF TextsAt

LEMMA LayoutNumbers ==
  /\ Headroom \in Nat /\ Headroom >= 1 /\ Capacity \in Nat /\ Capacity >= 1 /\ Extra \in Nat
  /\ UuidSize \in Nat /\ UuidSize >= Capacity /\ UuidSize + 2 * Headroom <= Capacity + Extra
  /\ LongText \in Nat /\ ShortText \in Nat /\ NameSizes \subseteq Nat
  /\ 1 + VarintSize(LongText) + VarintSize(ShortText) <= Capacity
  /\ Byte.copied /\ Byte.size = 1 /\ Long.copied /\ Uuid.copied /\ Uuid.size = UuidSize
BY WriteAssumption, SendersAssumption, LayoutAssumption
   DEF WriteAssumption, SendersAssumption, LayoutAssumption, Byte, Long, Uuid, Copied

\* At most one string, and nothing behind it.
LEMMA EntryLastLayouts ==
  ASSUME iov = << >>, NEW s \in Seq(Writes), AllCopied(s), NEW n \in Nat,
         todo = s \o StringOf(n)
  PROVE  EntryLast
<1>1. \A i \in DOMAIN todo : todo[i].copied \/ i = Len(todo)
  BY OneString
<1>2. \A i \in DOMAIN todo : i < Len(todo) => i # Len(todo)
  <2>1. todo \in Seq(Writes)
    BY ConcatWrites, StringIsWrites
  <2> QED
    BY <2>1
<1> QED
  BY <1>1, <1>2 DEF EntryLast

LEMMA ShortLayouts ==
  /\ <<Byte>> \in Seq(Writes) /\ AllCopied(<<Byte>>)
  /\ <<Byte, Long>> \in Seq(Writes) /\ AllCopied(<<Byte, Long>>)
  /\ <<Byte, Uuid>> \in Seq(Writes) /\ AllCopied(<<Byte, Uuid>>)
  /\ <<Byte>> \o VarintOf(1) \in Seq(Writes) /\ AllCopied(<<Byte>> \o VarintOf(1))
<1>1. /\ <<Byte>> \in Seq(Writes) /\ <<Byte, Long>> \in Seq(Writes) /\ <<Byte, Uuid>> \in Seq(Writes)
  BY EachIsWrite, SingleWrites
<1>2. AllCopied(<<Byte>>) /\ AllCopied(<<Byte, Long>>) /\ AllCopied(<<Byte, Uuid>>)
  BY LayoutNumbers DEF AllCopied
<1>3. <<Byte>> \o VarintOf(1) \in Seq(Writes) /\ AllCopied(<<Byte>> \o VarintOf(1))
  <2> DEFINE v == VarintOf(1)
             b == <<Byte>>
  <2>1. v \in Seq(Writes) /\ \A i \in DOMAIN v : v[i] = Byte
    BY VarintIsWrites DEF VarintOf
  <2>2. b \in Seq(Writes) /\ \A i \in DOMAIN b : b[i] = Byte
    BY <1>1
  <2> HIDE DEF v, b
  <2>3. /\ b \o v \in Seq(Writes) /\ Len(b \o v) = Len(b) + Len(v)
        /\ \A i \in 1 .. Len(b) + Len(v) :
             (b \o v)[i] = IF i <= Len(b) THEN b[i] ELSE v[i - Len(b)]
    BY <2>1, <2>2, ConcatItems
  <2>4. /\ DOMAIN (b \o v) = 1 .. Len(b) + Len(v) /\ Len(b) \in Nat /\ Len(v) \in Nat
        /\ DOMAIN b = 1 .. Len(b) /\ DOMAIN v = 1 .. Len(v)
    BY <2>1, <2>2, <2>3
  <2>5. ASSUME NEW i \in 1 .. Len(b) + Len(v) PROVE (b \o v)[i] = Byte
    <3>1. CASE i <= Len(b)
      BY <2>2, <2>3, <2>4, <3>1
    <3>2. CASE ~ i <= Len(b)
      <4>1. i - Len(b) \in DOMAIN v
        BY <2>4, <3>2
      <4> QED
        BY <2>1, <2>3, <3>2, <4>1
    <3> QED
      BY <3>1, <3>2
  <2> QED
    BY <2>3, <2>4, <2>5, LayoutNumbers DEF AllCopied, v, b
<1> QED
  BY <1>1, <1>2, <1>3

LEMMA PluginStage ==
  ASSUME WriteInv, iov = << >>, cursor = Headroom, todo \in PluginMessage
  PROVE  Stages
<1> DEFINE f == 1 + VarintSize(LongText) + 1
           m == VarintSize(ShortText)
<1>1. todo = <<Byte>> \o StringOf(LongText) \o StringOf(ShortText)
  BY DEF PluginMessage
<1>2. CASE LongText = 0
  <2>1. AllCopied(<<Byte>> \o StringOf(LongText)) /\ <<Byte>> \o StringOf(LongText) \in Seq(Writes)
    BY <1>2, ShortLayouts, NoString
  <2> QED
    BY <1>1, <2>1, EntryLastLayouts, LayoutNumbers DEF Stages
<1>3. CASE LongText # 0
  <2>1. PICK s \in Seq(Writes) : s = <<Byte>> /\ AllCopied(s) /\ Len(s) = 1 /\ s[1] = Byte
    BY ShortLayouts
  <2>2. /\ todo \in Seq(Writes) /\ f \in DOMAIN todo /\ ~ todo[f].copied
        /\ \A i \in 1 .. 1 : todo[i] = s[i]
        /\ \A i \in DOMAIN todo : i > 1 /\ i # f /\ i <= f + m => todo[i] = Byte
        /\ \A i \in DOMAIN todo : i > f + m => ~ todo[i].copied
    <3>1. WithStrings(s, LongText, ShortText) = todo
      BY <1>1, <2>1 DEF WithStrings
    <3>2. s \in Seq(Writes) /\ AllCopied(s) /\ Len(s) = 1
      BY <2>1
    <3>3. LongText \in Nat \ {0} /\ ShortText \in Nat
      BY <1>3, LayoutNumbers
    <3>4. TextAt(s, LongText) = f
      BY <3>2 DEF TextAt
    <3> HIDE DEF f
    <3>5. TextsAt(todo, f, s, ShortText)
      BY <3>1, <3>2, <3>3, <3>4, TwoStrings
    <3> QED
      BY <3>2, <3>5 DEF TextsAt
  <2>3. VarintSize(LongText) \in Nat /\ m \in Nat
    BY LengthHasRoom
  <2>4. todo[1] = Byte
    BY <2>1, <2>2
  <2>5. \A i \in DOMAIN todo : i \in Nat /\ i >= 1
    BY <2>2
  <2>6. \A i \in DOMAIN todo : i # f /\ i <= f + m => todo[i] = Byte
    <3> SUFFICES ASSUME NEW i \in DOMAIN todo, i # f, i <= f + m PROVE todo[i] = Byte
      OBVIOUS
    <3>1. CASE i = 1
      BY <2>4, <3>1
    <3>2. CASE i # 1
      BY <2>2, <2>5, <3>2
    <3> QED
      BY <3>1, <3>2
  <2>7. FirstText(f)
    <3> SUFFICES ASSUME NEW i \in DOMAIN todo, i < f PROVE todo[i].copied
      BY <2>2 DEF FirstText
    <3>1. i # f /\ i <= f + m
      BY <2>3, <2>5
    <3> QED
      BY <2>6, <3>1, LayoutNumbers
  <2>8. ASSUME NEW i \in DOMAIN todo, todo[i].copied
        PROVE  todo[i].size = 1 /\ cursor + i <= size + (IF i > f THEN 1 ELSE 0)
    <3>1. i # f /\ ~ i > f + m
      BY <2>2, <2>8
    <3>2. todo[i] = Byte
      BY <2>3, <2>5, <2>6, <3>1
    <3>3. size \in Nat /\ Capacity + Headroom <= size
      BY DEF WriteInv, OffsetInv
    <3>4. f + m <= Capacity + 1
      BY <2>3, LayoutNumbers
    <3>5. todo[i].size = 1
      BY <3>2, LayoutNumbers
    <3>6. i \in Nat /\ f \in Nat /\ i <= f + m
      BY <2>3, <2>5, <3>1, LayoutNumbers
    <3> HIDE DEF f, m
    <3>7. CASE i > f
      BY <2>3, <3>3, <3>4, <3>5, <3>6, <3>7, LayoutNumbers
    <3>8. CASE ~ i > f
      <4>1. i + 1 <= f
        BY <3>1, <3>6, <3>8
      <4> QED
        BY <2>3, <3>3, <3>4, <3>5, <3>6, <3>8, <4>1, LayoutNumbers
    <3> QED
      BY <3>7, <3>8
  <2>9. BeforeText
    BY <2>7, <2>8 DEF BeforeText, FirstText
  <2> QED
    BY <2>9 DEF Stages
<1> QED
  BY <1>2, <1>3

LEMMA LoginStage ==
  ASSUME WriteInv, iov = << >>, cursor = Headroom, todo \in LoginSuccess
  PROVE  Stages
<1>1. PICK n \in NameSizes : todo = <<Byte, Uuid>> \o StringOf(n) \o StringOf(0)
  BY DEF LoginSuccess
<1> DEFINE f == 2 + VarintSize(n) + 1
           m == VarintSize(0)
<1>2. n \in Nat
  BY LayoutNumbers
<1>3. CASE n = 0
  <2>1. /\ AllCopied(<<Byte, Uuid>> \o StringOf(n))
        /\ <<Byte, Uuid>> \o StringOf(n) \in Seq(Writes)
    BY <1>3, ShortLayouts, NoString
  <2> QED
    BY <1>1, <2>1, EntryLastLayouts DEF Stages
<1>4. CASE n # 0
  <2>1. PICK s \in Seq(Writes) :
          s = <<Byte, Uuid>> /\ AllCopied(s) /\ Len(s) = 2 /\ s[1] = Byte /\ s[2] = Uuid
    BY ShortLayouts
  <2>2. /\ todo \in Seq(Writes) /\ f \in DOMAIN todo /\ ~ todo[f].copied
        /\ Len(todo) = f + m
        /\ \A i \in 1 .. 2 : todo[i] = s[i]
        /\ \A i \in DOMAIN todo : i > 2 /\ i # f /\ i <= f + m => todo[i] = Byte
    <3>1. n \in Nat \ {0} /\ 0 \in Nat
      BY <1>2, <1>4
    <3>2. /\ todo \in Seq(Writes) /\ f \in DOMAIN todo /\ ~ todo[f].copied
          /\ Len(todo) = f + m + (IF 0 > 0 THEN 1 ELSE 0)
          /\ \A i \in 1 .. 2 : todo[i] = s[i]
          /\ \A i \in DOMAIN todo : i > 2 /\ i # f /\ i <= f + m => todo[i] = Byte
      <4>1. WithStrings(s, n, 0) = todo
        BY <1>1, <2>1 DEF WithStrings
      <4>2. s \in Seq(Writes) /\ AllCopied(s) /\ Len(s) = 2
        BY <2>1
      <4>3. TextAt(s, n) = f
        BY <4>2 DEF TextAt
      <4> HIDE DEF f
      <4>4. TextsAt(todo, f, s, 0)
        BY <3>1, <4>1, <4>2, <4>3, TwoStrings
      <4> QED
        BY <4>2, <4>4 DEF TextsAt
    <3>3. f + m \in Nat
      BY LengthHasRoom
    <3> QED
      BY <3>2, <3>3
  <2>3. VarintSize(n) \in Nat /\ VarintSize(n) <= Headroom /\ m \in Nat /\ m <= Headroom
    BY LengthHasRoom
  <2>4. todo[1] = Byte /\ todo[2] = Uuid
    BY <2>1, <2>2
  <2>5. \A i \in DOMAIN todo : i \in Nat /\ i >= 1 /\ i <= f + m
    BY <2>2
  <2>6. ASSUME NEW i \in DOMAIN todo PROVE i = 1 \/ i = 2 \/ i = f \/ todo[i] = Byte
    BY <2>2, <2>5
  <2>7. FirstText(f)
    <3> SUFFICES ASSUME NEW i \in DOMAIN todo, i < f PROVE todo[i].copied
      BY <2>2 DEF FirstText
    <3>1. i # f
      BY <2>3, <2>5
    <3>2. i = 1 \/ i = 2 \/ todo[i] = Byte
      BY <2>6, <3>1
    <3> QED
      BY <2>4, <3>2, LayoutNumbers
  <2>8. \A i \in DOMAIN todo : i # 2 /\ todo[i].copied => todo[i].size = 1
    BY <2>2, <2>4, <2>6, LayoutNumbers
  <2>9. /\ 2 \in DOMAIN todo /\ 2 < f /\ Len(todo) <= 2 + 2 * Headroom + 1
        /\ cursor + 2 = Headroom + 2
    <3>1. PICK h \in Nat, x \in Nat : h = Headroom /\ x = VarintSize(n) /\ x <= h /\ m <= h
      BY <2>3, LayoutNumbers
    <3>2. f = 2 + x + 1 /\ 2 < f /\ 2 <= f + m /\ f + m <= 2 + 2 * h + 1
      BY <2>3, <3>1
    <3>3. 2 \in DOMAIN todo
      BY <2>2, <2>3, <3>2
    <3> QED
      BY <2>2, <3>1, <3>2, <3>3
  <2>10. BeforeUuid
    BY <2>4, <2>7, <2>8, <2>9 DEF BeforeUuid, FirstText
  <2> QED
    BY <2>10 DEF Stages
<1> QED
  BY <1>3, <1>4

\* A sender that is called can write its layout.
LEMMA LayoutStages ==
  WriteInv /\ iov = << >> /\ cursor = Headroom
    => \A s \in DOMAIN Layouts : todo \in Layouts[s] => Stages
<1> SUFFICES ASSUME WriteInv, iov = << >>, cursor = Headroom,
                    NEW s \in DOMAIN Layouts, todo \in Layouts[s]
             PROVE  Stages
  OBVIOUS
<1>1. \/ todo \in LoginSuccess \/ todo \in PluginMessage
      \/ todo \in StatusResponse \/ todo \in PongResponse
      \/ todo \in FeatureFlags \/ todo \in FinishConfig
  BY DEF Layouts
<1>2. CASE todo \in StatusResponse
  BY <1>2, EntryLastLayouts, ShortLayouts, LayoutNumbers DEF StatusResponse, Stages
<1>3. CASE todo \in FeatureFlags
  BY <1>3, EntryLastLayouts, ShortLayouts, LayoutNumbers DEF FeatureFlags, Stages
<1>4. CASE todo \in PongResponse \/ todo \in FinishConfig
  <2>1. AllCopied(todo)
    BY <1>4, ShortLayouts DEF PongResponse, FinishConfig
  <2> QED
    BY <2>1 DEF AllCopied, EntryLast, Stages
<1> QED
  BY <1>1, <1>2, <1>3, <1>4, PluginStage, LoginStage
------------------------------------------------------------------------------
LEMMA TailItems ==
  ASSUME NEW s \in Seq(Writes), s # << >>
  PROVE  /\ Head(s) = s[1] /\ Head(s) \in Writes /\ Tail(s) \in Seq(Writes)
         /\ Len(s) \in Nat /\ Len(s) >= 1 /\ Len(Tail(s)) = Len(s) - 1
         /\ DOMAIN s = 1 .. Len(s) /\ DOMAIN Tail(s) = 1 .. Len(s) - 1
         /\ \A i \in 1 .. Len(s) - 1 : Tail(s)[i] = s[i + 1]
OBVIOUS

LEMMA LessOne ==
  ASSUME NEW a \in Int, NEW b \in Int, NEW c \in Int, a + b + 1 <= c + 1
  PROVE  a + b <= c
OBVIOUS

LEMMA AddLess ==
  ASSUME NEW c \in Int, NEW i \in Int, NEW h \in Int, NEW s \in Int, c + h <= s, i <= h
  PROVE  c + i <= s
OBVIOUS

\* A value is copied: either there is no entry yet, or there is room for it.
LEMMA CopiedStage ==
  ASSUME SendersInv, sender \in DOMAIN Layouts, Stages, Live, todo # << >>,
         Head(todo).copied, Write(Head(todo).size), todo' = Tail(todo)
  PROVE  Stages' /\ Live'
<1> DEFINE n == Head(todo).size
<1>1. /\ Head(todo) = todo[1] /\ Head(todo) \in Writes
      /\ Len(todo) \in Nat /\ Len(todo) >= 1 /\ Len(todo') = Len(todo) - 1
      /\ DOMAIN todo = 1 .. Len(todo) /\ DOMAIN todo' = 1 .. Len(todo) - 1
      /\ \A i \in 1 .. Len(todo) - 1 : todo'[i] = todo[i + 1]
  BY TailItems DEF SendersInv
<1>2. n \in Nat /\ todo[1].size = n /\ todo[1].copied /\ 1 \in DOMAIN todo
  BY <1>1 DEF Writes
<1>3. /\ iov' = iov /\ cursor' = cursor + n /\ fault' = fault
      /\ IF size - cursor < n
         THEN size' = size + n + Extra /\ mem' = mem + 1
         ELSE size' = size /\ mem' = mem
  BY DEF Write, TooSmall, iovVars
<1>4. /\ size \in Nat /\ cursor \in Nat /\ cursor <= size /\ Headroom <= cursor
      /\ Capacity + Headroom <= size
      /\ size = Capacity + Headroom \/ size > Capacity + Headroom + Extra
  BY LayoutNumbers DEF SendersInv, WriteInv, OffsetInv, LayoutInv
<1> HIDE DEF n
<1>5. size' \in Nat /\ size <= size'
  <2>1. Extra \in Nat /\ size + n + Extra \in Nat /\ size <= size + n + Extra
    BY <1>2, <1>4, LayoutNumbers
  <2> QED
    BY <1>3, <1>4, <2>1
<1>6. CASE EntryLast
  <2>1. \A i \in DOMAIN todo' : i < Len(todo') => todo'[i].copied
    BY <1>1, <1>6 DEF EntryLast
  <2> QED
    BY <1>3, <1>6, <2>1 DEF EntryLast, Stages, Live
<1>7. CASE BeforeUuid
  <2>1. PICK u \in DOMAIN todo, f \in DOMAIN todo :
          /\ u \in {1, 2} /\ cursor + u = Headroom + 2 /\ todo[u] = Uuid
          /\ FirstText(f) /\ u < f /\ Len(todo) <= u + 2 * Headroom + 1
          /\ \A i \in DOMAIN todo : i # u /\ todo[i].copied => todo[i].size = 1
    BY <1>7 DEF BeforeUuid
  <2>2. iov = << >>
    BY <1>7 DEF BeforeUuid
  <2>3. f - 1 \in DOMAIN todo' /\ FirstText(f - 1)'
    <3>1. f - 1 \in DOMAIN todo' /\ f - 1 + 1 = f
      BY <1>1, <2>1
    <3>2. ~ todo'[f - 1].copied
      BY <1>1, <2>1, <3>1 DEF FirstText
    <3>3. ASSUME NEW i \in DOMAIN todo', i < f - 1 PROVE todo'[i].copied
      <4>1. i + 1 \in DOMAIN todo /\ i + 1 < f
        BY <1>1, <2>1, <3>1, <3>3
      <4> QED
        BY <1>1, <2>1, <4>1 DEF FirstText
    <3> QED
      BY <3>1, <3>2, <3>3 DEF FirstText
  <2>4. CASE u = 2
    <3>1. n = 1 /\ size' = size
      BY <1>2, <1>3, <1>4, <2>1, <2>4, LayoutNumbers
    <3>2. /\ 1 \in DOMAIN todo' /\ todo'[1] = Uuid /\ cursor' + 1 = Headroom + 2 /\ 1 < f - 1
          /\ Len(todo') <= 1 + 2 * Headroom + 1
      BY <1>1, <1>3, <1>4, <2>1, <2>3, <2>4, <3>1, LayoutNumbers
    <3>3. \A i \in DOMAIN todo' : i # 1 /\ todo'[i].copied => todo'[i].size = 1
      BY <1>1, <2>1, <2>4
    <3>4. BeforeUuid'
      BY <1>3, <2>2, <2>3, <3>2, <3>3 DEF BeforeUuid
    <3> QED
      BY <1>3, <2>2, <3>4 DEF Stages, Live
  <2>5. CASE u = 1
    <3>0. \A i \in DOMAIN todo : i # 1 /\ todo[i].copied => todo[i].size = 1
      BY <2>1, <2>5
    <3>1. n = UuidSize /\ cursor = Headroom + 1
      BY <1>2, <1>4, <2>1, <2>5, LayoutNumbers
    <3>2. cursor' + 2 * Headroom + 1 <= size' + 1
      BY <1>3, <1>4, <3>1, LayoutNumbers
    <3>3. ASSUME NEW i \in DOMAIN todo', todo'[i].copied
          PROVE  todo'[i].size = 1 /\ cursor' + i <= size' + (IF i > f - 1 THEN 1 ELSE 0)
      <4>1. i + 1 \in DOMAIN todo /\ i + 1 # 1 /\ todo'[i] = todo[i + 1]
        BY <1>1
      <4>2. todo'[i].size = 1
        <5>1. todo[i + 1].copied
          BY <3>3, <4>1
        <5>2. todo[i + 1].size = 1
          BY <3>0, <4>1, <5>1
        <5> QED
          BY <4>1, <5>2
      <4>3. i <= 2 * Headroom + 1
        BY <1>1, <2>1, <2>5, LayoutNumbers
      <4>4. CASE i > f - 1
        <5>1. cursor' \in Int /\ i \in Int /\ size' + 1 \in Int
          BY <1>1, <1>3, <1>4, <1>5, <3>1, LayoutNumbers
        <5>2. cursor' + i <= size' + 1
          BY <3>2, <4>3, <5>1, AddLess, LayoutNumbers
        <5> QED
          BY <4>2, <4>4, <5>2
      <4>5. CASE ~ i > f - 1
        <5>1. i # f - 1
          BY <2>3, <3>3 DEF FirstText
        <5>2. i < f - 1 /\ f <= 2 + 2 * Headroom
          BY <1>1, <2>1, <2>5, <4>5, <5>1, LayoutNumbers
        <5>3. i <= 2 * Headroom
          BY <1>1, <2>1, <5>2, LayoutNumbers
        <5>4. cursor' \in Int /\ i \in Int
          BY <1>1, <1>3, <1>4, <3>1, LayoutNumbers
        <5>5. cursor' + i <= size'
          <6>1. size' \in Int /\ 2 * Headroom \in Int
            BY <1>5, LayoutNumbers
          <6>2. cursor' + 2 * Headroom <= size'
            BY <3>2, <5>4, <6>1, LessOne
          <6> QED
            BY <5>3, <5>4, <6>1, <6>2, AddLess
        <5> QED
          BY <1>5, <4>2, <4>5, <5>5
      <4> QED
        BY <4>4, <4>5
    <3>4. BeforeText'
      BY <1>3, <2>2, <2>3, <3>3 DEF BeforeText
    <3> QED
      BY <1>3, <2>2, <3>4 DEF Stages, Live
  <2> QED
    BY <2>1, <2>4, <2>5
<1>8. CASE BeforeText
  <2>1. PICK f \in DOMAIN todo :
          /\ FirstText(f)
          /\ \A i \in DOMAIN todo : todo[i].copied =>
               todo[i].size = 1 /\ cursor + i <= size + (IF i > f THEN 1 ELSE 0)
    BY <1>8 DEF BeforeText
  <2>2. iov = << >> /\ n = 1 /\ f # 1
    BY <1>2, <1>8, <2>1 DEF BeforeText, FirstText
  <2>3. f - 1 \in DOMAIN todo' /\ FirstText(f - 1)'
    <3>1. f - 1 \in DOMAIN todo' /\ f - 1 + 1 = f
      BY <1>1, <2>1, <2>2
    <3>2. ~ todo'[f - 1].copied
      BY <1>1, <2>1, <3>1 DEF FirstText
    <3>3. ASSUME NEW i \in DOMAIN todo', i < f - 1 PROVE todo'[i].copied
      <4>1. i + 1 \in DOMAIN todo /\ i + 1 < f
        BY <1>1, <2>1, <3>1, <3>3
      <4> QED
        BY <1>1, <2>1, <4>1 DEF FirstText
    <3> QED
      BY <3>1, <3>2, <3>3 DEF FirstText
  <2>4. ASSUME NEW i \in DOMAIN todo', todo'[i].copied
        PROVE  todo'[i].size = 1 /\ cursor' + i <= size' + (IF i > f - 1 THEN 1 ELSE 0)
    <3>1. /\ i + 1 \in DOMAIN todo /\ todo'[i] = todo[i + 1] /\ i \in Nat
          /\ i > f - 1 <=> i + 1 > f
      BY <1>1, <2>1
    <3>2. todo[i + 1].size = 1 /\ cursor + (i + 1) <= size + (IF i + 1 > f THEN 1 ELSE 0)
      BY <2>1, <2>4, <3>1
    <3> QED
      BY <1>3, <1>4, <1>5, <2>2, <3>1, <3>2
  <2>5. BeforeText'
    BY <1>3, <2>2, <2>3, <2>4 DEF BeforeText
  <2> QED
    BY <1>3, <2>2, <2>5 DEF Stages, Live
<1>9. CASE AfterText
  <2>1. n = 1 /\ cursor + 1 <= size
    BY <1>2, <1>9 DEF AfterText
  <2>2. size' = size /\ mem' = mem
    BY <1>3, <1>4, <2>1
  <2>3. ASSUME NEW i \in DOMAIN todo', todo'[i].copied
        PROVE  todo'[i].size = 1 /\ cursor' + i <= size'
    <3>1. i + 1 \in DOMAIN todo /\ todo'[i] = todo[i + 1] /\ i \in Nat
      BY <1>1
    <3>2. todo[i + 1].size = 1 /\ cursor + (i + 1) <= size
      BY <1>9, <2>3, <3>1 DEF AfterText
    <3> QED
      BY <1>3, <1>4, <2>1, <2>2, <3>1, <3>2
  <2>4. Live'
    BY <1>3, <2>2 DEF Live, Stale
  <2> QED
    BY <2>3, <2>4 DEF AfterText, Stages
<1> QED
  BY <1>6, <1>7, <1>8, <1>9 DEF Stages

\* A text is written: from here on there are entries, and room for what follows.
LEMMA TextStage ==
  ASSUME SendersInv, sender \in DOMAIN Layouts, Stages, Live, todo # << >>,
         ~ Head(todo).copied, WriteBytes(Head(todo).size), todo' = Tail(todo)
  PROVE  Stages' /\ Live'
<1>1. /\ Head(todo) = todo[1] /\ Head(todo) \in Writes
      /\ Len(todo) \in Nat /\ Len(todo) >= 1 /\ Len(todo') = Len(todo) - 1
      /\ DOMAIN todo = 1 .. Len(todo) /\ DOMAIN todo' = 1 .. Len(todo) - 1
      /\ \A i \in 1 .. Len(todo) - 1 : todo'[i] = todo[i + 1]
  BY TailItems DEF SendersInv
<1>2. ~ todo[1].copied /\ 1 \in DOMAIN todo /\ Head(todo).size \in Nat
  BY <1>1 DEF Writes
<1>3. cursor' = cursor /\ size' = size /\ cursor \in Nat /\ size \in Nat
  BY DEF WriteBytes, SendersInv, WriteInv, OffsetInv
<1>4. Live'
  BY <1>2, WriteBytesKeeps DEF SendersInv
<1>5. AfterText'
  <2> SUFFICES ASSUME NEW i \in DOMAIN todo', todo'[i].copied
               PROVE  todo'[i].size = 1 /\ cursor + i <= size
    BY <1>3 DEF AfterText
  <2>1. i + 1 \in DOMAIN todo /\ todo'[i] = todo[i + 1] /\ i \in Nat /\ i >= 1
    BY <1>1
  <2>2. CASE EntryLast
    <3>1. ~ 1 < Len(todo)
      BY <1>2, <2>2 DEF EntryLast
    <3> QED
      BY <1>1, <3>1
  <2>3. CASE BeforeUuid
    <3>1. PICK f \in DOMAIN todo : FirstText(f) /\ \E u \in DOMAIN todo : u < f
      BY <2>3 DEF BeforeUuid
    <3>2. 1 < f
      BY <1>1, <3>1
    <3> QED
      BY <1>2, <3>1, <3>2 DEF FirstText
  <2>4. CASE BeforeText
    <3>1. PICK f \in DOMAIN todo :
            /\ FirstText(f)
            /\ \A k \in DOMAIN todo : todo[k].copied =>
                 todo[k].size = 1 /\ cursor + k <= size + (IF k > f THEN 1 ELSE 0)
      BY <2>4 DEF BeforeText
    <3>2. f = 1
      BY <1>1, <1>2, <3>1 DEF FirstText
    <3>3. todo[i + 1].size = 1 /\ cursor + (i + 1) <= size + (IF i + 1 > f THEN 1 ELSE 0)
      BY <2>1, <3>1
    <3> QED
      BY <1>3, <2>1, <3>2, <3>3
  <2>5. CASE AfterText
    <3>1. todo[i + 1].size = 1 /\ cursor + (i + 1) <= size
      BY <2>1, <2>5 DEF AfterText
    <3> QED
      BY <1>3, <2>1, <3>1
  <2> QED
    BY <2>2, <2>3, <2>4, <2>5 DEF Stages
<1> QED
  BY <1>4, <1>5 DEF Stages

\* The buffer grows by more than Extra, if it grows.
LEMMA GrowsByMore ==
  ASSUME SendersInv, NEW n \in Nat, Write(n)
  PROVE  size' = Capacity + Headroom \/ size' > Capacity + Headroom + Extra
<1>1. /\ size \in Nat /\ cursor \in Nat /\ cursor <= size /\ Capacity + Headroom <= size
      /\ size = Capacity + Headroom \/ size > Capacity + Headroom + Extra
  BY DEF SendersInv, WriteInv, OffsetInv, LayoutInv
<1>2. IF size - cursor < n THEN size' = size + n + Extra ELSE size' = size
  BY DEF Write, TooSmall
<1> QED
  BY <1>1, <1>2, LayoutNumbers

LEMMA NobodySends ==
  "nobody" \notin DOMAIN Layouts /\ "any" \notin DOMAIN Layouts
BY DEF Layouts

LEMMA SendersStep == SendersInv /\ [SendersNext]_sendVars => SendersInv'
<1> SUFFICES ASSUME SendersInv, [SendersNext]_sendVars PROVE SendersInv'
  OBVIOUS
<1> USE NobodySends
<1>1. CASE Call
  <2>1. WriteInv' /\ UNCHANGED vars
    BY <1>1, WriteStutter DEF SendersInv, Call
  <2>2. todo' \in Seq(Writes)
    <3>1. CASE \E s \in DOMAIN Layouts : todo' \in Layouts[s]
      BY <3>1, LayoutsAreWrites
    <3>2. CASE todo' = << >>
      BY <3>2
    <3> QED
      BY <1>1, <3>1, <3>2 DEF Call
  <2>3. Resting /\ size' = size /\ at' = at /\ fault' = fault /\ iov' = iov /\ cursor' = cursor
    BY <1>1, <2>1 DEF Call, SendersInv, LayoutInv, vars, bufVars, iovVars
  <2>4. \A s \in DOMAIN Layouts : todo' \in Layouts[s] => Stages'
    <3>1. (WriteInv /\ iov = << >> /\ cursor = Headroom
            => \A s \in DOMAIN Layouts : todo \in Layouts[s] => Stages)'
      BY LayoutStages, PTL
    <3> QED
      BY <2>1, <2>3, <3>1 DEF Resting
  <2>5. Live'
    BY <2>3 DEF Resting, Live
  <2>6. /\ sender' # "nobody" /\ (sender' = "any" => todo' = << >>)
        /\ sender' \in DOMAIN Layouts => todo' \in Layouts[sender']
    BY <1>1 DEF Call
  <2>7. LayoutInv'
    BY <2>3, <2>4, <2>5, <2>6 DEF LayoutInv, SendersInv, Resting
  <2> QED
    BY <2>1, <2>2, <2>7 DEF SendersInv
<1>2. CASE NextWrite
  <2>1. /\ todo \in Seq(Writes) /\ todo # << >> /\ todo' = Tail(todo) /\ sender' = sender
        /\ IF Head(todo).copied THEN Write(Head(todo).size) ELSE WriteBytes(Head(todo).size)
    BY <1>2 DEF SendersInv, NextWrite
  <2>2. Head(todo) \in Writes /\ Tail(todo) \in Seq(Writes)
    BY <2>1
  <2>3. Head(todo).size \in Nat
    BY <2>2 DEF Writes
  <2>4. WriteInv'
    BY <2>1, <2>3, WriteKeeps, WriteBytesKeeps DEF SendersInv
  <2>5. at = -1 /\ at' = at
    BY <2>1 DEF Write, WriteBytes, Building
  <2>6. sender # "nobody" /\ sender # "any"
    BY <2>1 DEF SendersInv, LayoutInv, Resting
  <2>7. size' = Capacity + Headroom \/ size' > Capacity + Headroom + Extra
    <3>1. CASE Head(todo).copied
      BY <2>1, <2>3, <3>1, GrowsByMore
    <3>2. CASE ~ Head(todo).copied
      BY <2>1, <3>2 DEF WriteBytes, SendersInv, LayoutInv
    <3> QED
      BY <3>1, <3>2
  <2>8. sender \in DOMAIN Layouts => Stages' /\ Live'
    <3> SUFFICES ASSUME sender \in DOMAIN Layouts PROVE Stages' /\ Live'
      OBVIOUS
    <3>1. Stages /\ Live
      BY <2>5 DEF SendersInv, LayoutInv
    <3> QED
      BY <2>1, <3>1, CopiedStage, TextStage
  <2>9. LayoutInv'
    BY <2>1, <2>5, <2>6, <2>7, <2>8 DEF LayoutInv
  <2> QED
    BY <2>1, <2>2, <2>4, <2>9 DEF SendersInv
<1>3. CASE AnyWrite
  <2>1. PICK n \in OwnSizes \cup StringSizes : Write(n) \/ WriteBytes(n)
    BY <1>3 DEF AnyWrite
  <2>2. n \in Nat
    BY WriteAssumption DEF WriteAssumption
  <2>3. WriteInv' /\ sender = "any" /\ UNCHANGED <<sender, todo>>
    BY <1>3, <2>1, <2>2, WriteKeeps, WriteBytesKeeps DEF SendersInv, AnyWrite
  <2>4. size' = Capacity + Headroom \/ size' > Capacity + Headroom + Extra
    <3>1. CASE Write(n)
      BY <2>2, <3>1, GrowsByMore
    <3>2. CASE WriteBytes(n)
      BY <3>2 DEF WriteBytes, SendersInv, LayoutInv
    <3> QED
      BY <2>1, <3>1, <3>2
  <2>5. LayoutInv'
    BY <2>3, <2>4 DEF LayoutInv, SendersInv
  <2> QED
    BY <2>3, <2>5 DEF SendersInv
<1>4. CASE Finish
  <2>1. WriteInv' /\ (Live => Live')
    BY <1>4, LastWriteKeeps, WriteLengthKeeps DEF SendersInv, Finish
  <2>2. /\ UNCHANGED <<sender, todo, size>> /\ todo = << >> /\ at' # -1
        /\ sender # "nobody"
    <3>1. CASE LastWrite
      <4>1. written > 0 /\ at = -1 /\ at' = -2 /\ size' = size
        BY <3>1 DEF LastWrite, Building
      <4>2. ~ Resting
        BY <4>1, LayoutNumbers DEF Resting, SendersInv, WriteInv, OffsetInv, FirstInv
      <4> QED
        BY <1>4, <4>1, <4>2 DEF Finish, SendersInv, LayoutInv
    <3>2. CASE WriteLength
      <4>1. at = -2 /\ at' \in {-2, 0} /\ size' = size
        BY <3>2 DEF WriteLength
      <4> QED
        BY <1>4, <4>1 DEF Finish, SendersInv, LayoutInv, Resting
    <3> QED
      BY <1>4, <3>1, <3>2 DEF Finish
  <2> QED
    BY <2>1, <2>2 DEF SendersInv, LayoutInv
<1>5. CASE Send
  <2>1. WriteInv' /\ (Live => Live')
    BY <1>5, SendSomeKeeps DEF SendersInv, Send
  <2>2. at >= 0 /\ at \in Int /\ UNCHANGED <<sender, todo>> /\ \E n : Writev(n)
    BY <1>5 DEF Send, SendSome, Sending, SendersInv, WriteInv, OffsetInv
  <2>3. size' = size /\ at' >= 0
    BY <2>2 DEF Writev, bufVars
  <2> QED
    BY <2>1, <2>2, <2>3 DEF SendersInv, LayoutInv, Resting
<1>6. CASE Return \/ Fail
  <2>1. WriteInv'
    BY <1>6, ResetKeeps DEF SendersInv, Return, Fail, Sent, WritevFails
  <2>2. /\ at >= 0 /\ fault = "none" /\ Reset /\ sender' = "nobody" /\ todo' = todo
    BY <1>6 DEF Return, Fail, Sent, WritevFails, Sending
  <2>3. /\ at' = -1 /\ fault' = "none" /\ iov' = << >> /\ cursor' = Headroom /\ size' = size
    BY <2>2 DEF Reset, FirstSector
  <2>4. todo = << >>
    BY <2>2 DEF SendersInv, LayoutInv
  <2>5. LayoutInv'
    BY <2>2, <2>3, <2>4 DEF SendersInv, LayoutInv, Resting
  <2> QED
    BY <2>1, <2>2, <2>5 DEF SendersInv
<1>7. CASE UNCHANGED sendVars
  <2>1. UNCHANGED vars /\ UNCHANGED <<sender, todo>>
    BY <1>7 DEF sendVars
  <2>2. WriteInv'
    BY <2>1, WriteStutter DEF SendersInv
  <2>3. UNCHANGED <<size, at, iov, cursor, fault, mem, todo, sender>>
    BY <2>1 DEF vars, bufVars, iovVars
  <2>4. LayoutInv'
    BY <2>3 DEF SendersInv, LayoutInv, Resting, Live, Stale, Stages, EntryLast, BeforeUuid,
                BeforeText, AfterText, FirstText
  <2> QED
    BY <2>1, <2>2, <2>4 DEF SendersInv
<1> QED
  BY <1>1, <1>2, <1>3, <1>4, <1>5, <1>6, <1>7 DEF SendersNext

LEMMA SendersInvariant == SendersSpec => []SendersInv
<1>1. SendersInit => SendersInv
  <2> SUFFICES ASSUME SendersInit PROVE SendersInv
    OBVIOUS
  <2>1. WriteInv /\ sender = "nobody" /\ todo = << >>
    BY WriteInit DEF SendersInit
  <2>2. LayoutInv
    BY <2>1, NobodySends DEF SendersInit, Init, LayoutInv, Resting
  <2> QED
    BY <2>1, <2>2 DEF SendersInv
<1> QED
  BY <1>1, SendersStep, PTL DEF SendersSpec

\* And so does no sender, whatever its layout, leave the array other than by the entry
\* behind it, and that only once its packet is out (the functions send_*, write_wbuf).
THEOREM SendersFit == SendersSpec => []ArrayLeftAtEnd
BY SendersInvariant, PTL DEF SendersInv, WriteInv

\* A packet of any sender that copies no more than the initial capacity keeps all
\* of its entries alive (ensure_capacity, buffer_resize).
THEOREM SmallPacketsLive == SendersSpec => []SmallPacketsSafe
BY SendersInvariant, PTL DEF SendersInv, WriteInv

\* No entry is ever left behind by a new buffer, for any of the server's packets,
\* user names, and buffers that earlier packets have made grow (send_login_success,
\* send_plugin_message_config, ensure_capacity).
THEOREM SendersEntriesLive == SendersSpec => []EntriesLive
<1>1. SendersInv => EntriesLive
  BY DEF SendersInv, WriteInv, LayoutInv, Live, EntriesLive, SendersSafe
<1> QED
  BY <1>1, SendersInvariant, PTL
------------------------------------------------------------------------------
(* The first packet fills the array. *)

\* Every string of s comes right behind a value that is copied; "copied" says so of
\* what is in front of s.
BehindCopies(s, copied) ==
  \A i \in DOMAIN s : ~ s[i].copied =>
    IF i = 1 THEN copied ELSE s[i - 1].copied /\ s[i - 1].size > 0

\* As long as all its strings do, the array has just the first packet's entries, and
\* writev moves reach together with at.
ArrayInv ==
  /\ packets \in Nat
  /\ packets = 0 /\ sender # "any" =>
       /\ iovSize = (IF Len(iov) = 0 THEN 1 ELSE Len(iov))
       /\ at = -1 => BehindCopies(todo, Sector > 0)
       /\ at # -1 => Len(iov) > 0
       /\ reach = 0 => at <= 0

LEMMA StringFollows ==
  ASSUME NEW s \in Seq(Writes), BehindCopies(s, FALSE), NEW n \in Nat
  PROVE  BehindCopies(s \o StringOf(n), FALSE)
<1> DEFINE t == StringOf(n)
           w == s \o t
<1>1. /\ t \in Seq(Writes) /\ VarintSize(n) \in Nat
      /\ Len(t) = VarintSize(n) + (IF n > 0 THEN 1 ELSE 0)
      /\ \A i \in 1 .. VarintSize(n) : t[i] = Byte
  BY StringItems
<1>2. VarintSize(n) >= 1
  <2> DEFINE J == {j \in 1 .. Headroom - 1 : n >= Radix ^ j}
  <2>1. IsFiniteSet(1 .. Headroom - 1) /\ J \subseteq 1 .. Headroom - 1
    BY WriteAssumption, FS_Interval DEF WriteAssumption
  <2>2. Cardinality(J) \in Nat
    BY <2>1, FS_Subset, FS_CardinalityType
  <2> HIDE DEF J
  <2>3. 1 + Cardinality(J) >= 1
    BY <2>2
  <2> QED
    BY <2>3 DEF VarintSize, J
<1>3. Byte.copied /\ Byte.size = 1
  BY DEF Byte, Copied
<1> HIDE DEF t
<1>10. /\ w \in Seq(Writes) /\ Len(w) = Len(s) + Len(t)
       /\ \A i \in 1 .. Len(s) + Len(t) : w[i] = IF i <= Len(s) THEN s[i] ELSE t[i - Len(s)]
  BY <1>1, ConcatItems
<1> HIDE DEF w
<1>4. /\ w \in Seq(Writes) /\ Len(w) = Len(s) + Len(t) /\ Len(s) \in Nat
      /\ \A i \in 1 .. Len(s) + Len(t) : w[i] = IF i <= Len(s) THEN s[i] ELSE t[i - Len(s)]
  BY <1>10
<1> SUFFICES ASSUME NEW i \in DOMAIN w, ~ w[i].copied
             PROVE  i # 1 /\ w[i - 1].copied /\ w[i - 1].size > 0
  BY DEF BehindCopies, w, t
<1>5. i \in 1 .. Len(s) + Len(t)
  BY <1>4
<1>6. CASE i <= Len(s)
  <2>1. i \in DOMAIN s /\ ~ s[i].copied
    BY <1>4, <1>5, <1>6
  <2>2. i # 1 /\ s[i - 1].copied /\ s[i - 1].size > 0
    BY <2>1 DEF BehindCopies
  <2>3. w[i - 1] = s[i - 1]
    BY <1>4, <1>5, <1>6, <2>2
  <2> QED
    BY <2>2, <2>3
<1>7. CASE i > Len(s)
  <2>1. w[i] = t[i - Len(s)] /\ i - Len(s) \in 1 .. Len(t)
    BY <1>1, <1>4, <1>5, <1>7
  <2>2. i - Len(s) = VarintSize(n) + 1
    <3>1. i - Len(s) \notin 1 .. VarintSize(n)
      BY <1>1, <1>3, <2>1
    <3>2. Len(t) <= VarintSize(n) + 1
      BY <1>1
    <3> QED
      BY <1>1, <2>1, <3>1, <3>2
  <2>3. i - 1 \in 1 .. Len(s) + Len(t) /\ ~ (i - 1 <= Len(s)) /\ i - 1 - Len(s) = VarintSize(n)
    <3>1. Len(t) \in Nat /\ Len(s) \in Nat /\ VarintSize(n) \in Nat /\ i \in Int
      BY <1>1, <1>4, <1>5
    <3> QED
      BY <1>2, <1>5, <2>2, <3>1
  <2>4. w[i - 1] = t[VarintSize(n)] /\ i # 1
    BY <1>4, <1>5, <2>3
  <2>5. t[VarintSize(n)] = Byte
    BY <1>1, <1>2
  <2> QED
    BY <1>3, <2>4, <2>5
<1> QED
  BY <1>4, <1>5, <1>6, <1>7

\* The layouts of the senders are like that.
LEMMA LayoutsFollow ==
  ASSUME NEW s \in DOMAIN Layouts, NEW w \in Layouts[s]
  PROVE  BehindCopies(w, FALSE)
<1> USE SendersAssumption DEF SendersAssumption
<1>1. ASSUME NEW c \in Seq(Writes), AllCopied(c) PROVE BehindCopies(c, FALSE)
  BY <1>1 DEF AllCopied, BehindCopies
<1>2. /\ <<Byte>> \in Seq(Writes) /\ AllCopied(<<Byte>>)
      /\ <<Byte, Uuid>> \in Seq(Writes) /\ AllCopied(<<Byte, Uuid>>)
      /\ <<Byte, Long>> \in Seq(Writes) /\ AllCopied(<<Byte, Long>>)
  <2>1. <<Byte>> \in Seq(Writes) /\ <<Byte, Uuid>> \in Seq(Writes) /\ <<Byte, Long>> \in Seq(Writes)
    BY EachIsWrite, SingleWrites
  <2> QED
    BY <2>1 DEF AllCopied, Byte, Uuid, Long, Copied
<1>3. <<Byte>> \o VarintOf(1) \in Seq(Writes) /\ AllCopied(<<Byte>> \o VarintOf(1))
  <2> DEFINE v == VarintOf(1)
             b == <<Byte>>
  <2>1. v \in Seq(Writes) /\ \A i \in DOMAIN v : v[i].copied
    BY VarintIsWrites DEF VarintOf, Byte, Copied
  <2>2. b \in Seq(Writes) /\ \A i \in DOMAIN b : b[i].copied
    BY <1>2 DEF AllCopied
  <2> HIDE DEF v, b
  <2>3. b \o v \in Seq(Writes) /\ \A i \in DOMAIN (b \o v) : (b \o v)[i].copied
    BY <2>1, <2>2
  <2> QED
    BY <2>3 DEF AllCopied, v, b
<1>4. ASSUME NEW c \in Seq(Writes), AllCopied(c), NEW n \in Nat
      PROVE  c \o StringOf(n) \in Seq(Writes) /\ BehindCopies(c \o StringOf(n), FALSE)
  BY <1>1, <1>4, StringFollows, StringIsWrites, ConcatWrites
<1>5. ASSUME NEW c \in Seq(Writes), AllCopied(c), NEW n \in Nat, NEW m \in Nat
      PROVE  BehindCopies(c \o StringOf(n) \o StringOf(m), FALSE)
  BY <1>4, <1>5, StringFollows
<1>6. CASE w \in LoginSuccess
  BY <1>2, <1>5, <1>6 DEF LoginSuccess
<1>7. CASE w \in StatusResponse \cup PluginMessage \cup FeatureFlags
  BY <1>2, <1>3, <1>4, <1>5, <1>7 DEF StatusResponse, PluginMessage, FeatureFlags
<1>8. CASE w \in PongResponse \cup FinishConfig
  BY <1>1, <1>2, <1>8 DEF PongResponse, FinishConfig
<1>9. \/ w \in LoginSuccess \/ w \in StatusResponse \/ w \in PluginMessage
      \/ w \in FeatureFlags \/ w \in PongResponse \/ w \in FinishConfig
  BY DEF Layouts
<1> QED
  BY <1>6, <1>7, <1>8, <1>9

LEMMA TailFollows ==
  ASSUME NEW s \in Seq(Writes), s # << >>, NEW a \in BOOLEAN, NEW b \in BOOLEAN,
         BehindCopies(s, a), Head(s).copied /\ Head(s).size > 0 => b
  PROVE  BehindCopies(Tail(s), b)
<1> DEFINE t == Tail(s)
<1>1. /\ Head(s) = s[1] /\ Len(s) \in Nat /\ DOMAIN s = 1 .. Len(s)
      /\ DOMAIN t = 1 .. Len(s) - 1 /\ \A i \in 1 .. Len(s) - 1 : t[i] = s[i + 1]
  BY TailItems
<1> HIDE DEF t
<1> SUFFICES ASSUME NEW i \in DOMAIN t, ~ t[i].copied
             PROVE  IF i = 1 THEN b ELSE t[i - 1].copied /\ t[i - 1].size > 0
  BY DEF BehindCopies, t
<1>2. i \in 1 .. Len(s) - 1 /\ i + 1 \in DOMAIN s /\ i + 1 # 1 /\ i + 1 - 1 = i /\ t[i] = s[i + 1]
  BY <1>1
<1>3. s[i].copied /\ s[i].size > 0
  <2> DEFINE k == i + 1
  <2>1. k \in DOMAIN s /\ k # 1 /\ k - 1 = i /\ ~ s[k].copied
    BY <1>2
  <2> HIDE DEF k
  <2>2. s[k - 1].copied /\ s[k - 1].size > 0
    BY <2>1 DEF BehindCopies
  <2> QED
    BY <2>1, <2>2
<1>4. CASE i = 1
  BY <1>1, <1>3, <1>4
<1>5. CASE i # 1
  <2>1. i - 1 \in 1 .. Len(s) - 1 /\ i - 1 + 1 = i
    BY <1>1, <1>2, <1>5
  <2>2. t[i - 1] = s[i]
    BY <1>1, <2>1
  <2> QED
    BY <1>3, <1>5, <2>2
<1> QED
  BY <1>4, <1>5

LEMMA ArrayStep == SendersInv /\ ArrayInv /\ [SendersNext]_sendVars => ArrayInv'
<1> SUFFICES ASSUME SendersInv, ArrayInv, [SendersNext]_sendVars PROVE ArrayInv'
  OBVIOUS
<1> USE NobodySends
<1>1. /\ packets \in Nat /\ Len(iov) \in Nat /\ iovSize \in Nat /\ todo \in Seq(Writes)
      /\ iov \in Seq(Entries) /\ at \in Int /\ Sector \in Nat /\ start \in Nat /\ cursor \in Nat
  BY DEF SendersInv, WriteInv, OffsetInv, ArrayInv, Sector
<1>2. CASE Call
  <2>1. UNCHANGED <<packets, iovSize, iov, at, reach, cursor, start>>
    BY <1>2 DEF Call, vars, bufVars, iovVars
  <2>2. ASSUME sender' # "any" PROVE BehindCopies(todo', Sector > 0)
    <3>1. BehindCopies(todo', FALSE)
      BY <1>2, <2>2, LayoutsFollow DEF Call
    <3> QED
      BY <3>1 DEF BehindCopies
  <2>3. sender # "any"
    BY <1>2 DEF Call
  <2> QED
    BY <2>1, <2>2, <2>3 DEF ArrayInv, Sector, BehindCopies
<1>3. CASE NextWrite
  <2> DEFINE h == Head(todo)
  <2>1. /\ todo # << >> /\ todo' = Tail(todo) /\ sender' = sender /\ h \in Writes
        /\ IF h.copied THEN Write(h.size) ELSE WriteBytes(h.size)
    BY <1>1, <1>3 DEF NextWrite
  <2>2. /\ h = todo[1] /\ 1 \in DOMAIN todo
        /\ \A i \in DOMAIN Tail(todo) :
             i \in Nat \ {0} /\ i + 1 \in DOMAIN todo /\ i \in DOMAIN todo
             /\ Tail(todo)[i] = todo[i + 1]
    BY <1>1, <2>1, TailItems
  <2>3. at = -1 /\ at' = -1 /\ packets' = packets
    BY <2>1 DEF Write, WriteBytes, Building
  <2> SUFFICES ASSUME packets = 0, sender # "any"
               PROVE  /\ iovSize' = (IF Len(iov') = 0 THEN 1 ELSE Len(iov'))
                      /\ BehindCopies(todo', (Sector > 0)')
    BY <1>1, <2>1, <2>3 DEF ArrayInv
  <2>4. /\ iovSize = (IF Len(iov) = 0 THEN 1 ELSE Len(iov))
        /\ BehindCopies(todo, Sector > 0)
    BY <2>3 DEF ArrayInv
  <2>5. ASSUME h.copied /\ h.size > 0 => (Sector > 0)'
        PROVE  BehindCopies(todo', (Sector > 0)')
    <3>1. (Sector > 0) \in BOOLEAN /\ (Sector > 0)' \in BOOLEAN
      OBVIOUS
    <3>2. BehindCopies(Tail(todo), (Sector > 0)')
      BY <1>1, <2>1, <2>4, <2>5, <3>1, TailFollows
    <3> QED
      BY <2>1, <3>2
  <2>6. CASE h.copied
    <3>1. cursor' = cursor + h.size /\ start' = start /\ iov' = iov /\ iovSize' = iovSize
      BY <2>1, <2>6 DEF Write, iovVars
    <3>2. h.size > 0 => (Sector > 0)'
      BY <1>1, <2>1, <3>1 DEF Sector, Writes
    <3> QED
      BY <2>4, <2>5, <3>1, <3>2
  <2>7. CASE ~ h.copied
    <3>1. Sector > 0
      BY <2>2, <2>4, <2>7 DEF BehindCopies
    <3> DEFINE es == Append(<<Own(start, Sector)>>, String(written + 1, h.size))
    <3>2. iov' = iov \o es /\ iovSize' = Room(1)
      BY <2>1, <2>7, <3>1 DEF WriteBytes, Push
    <3>3. Len(iov') = Len(iov) + 2
      BY <1>1, <3>2
    <3>4. iovSize' = Len(iov) + 2
      BY <1>1, <2>4, <3>2 DEF Room
    <3> QED
      BY <1>1, <2>5, <2>7, <3>3, <3>4
  <2> QED
    BY <2>6, <2>7
<1>4. CASE AnyWrite
  <2>1. sender' = "any" /\ packets' = packets
    BY <1>4 DEF AnyWrite, Write, WriteBytes
  <2> QED
    BY <1>1, <2>1 DEF ArrayInv
<1>5. CASE Finish /\ LastWrite
  <2>1. /\ at = -1 /\ at' = -2 /\ packets' = packets /\ sender' = sender /\ Flush
    BY <1>5 DEF LastWrite, Finish, Building
  <2>2. Len(iov') > 0 /\ reach' = 0
    <3>1. FirstInv' /\ OffsetInv'
      BY <1>5, LastWriteKeeps DEF SendersInv, WriteInv
    <3> QED
      BY <2>1, <3>1 DEF FirstInv, OffsetInv
  <2>3. ASSUME packets = 0, sender # "any"
        PROVE  iovSize' = (IF Len(iov') = 0 THEN 1 ELSE Len(iov'))
    <3>1. iovSize = (IF Len(iov) = 0 THEN 1 ELSE Len(iov))
      BY <2>3 DEF ArrayInv
    <3>2. CASE Sector > 0
      <4>1. /\ iov' = iov \o <<Own(start, Sector)>>
            /\ iovSize' = IF Len(iov) >= iovSize - 1 THEN Len(iov) + 1 ELSE iovSize
        BY <2>1, <3>2 DEF Flush, Push
      <4>2. Len(iov') = Len(iov) + 1
        BY <1>1, <4>1
      <4> QED
        BY <1>1, <3>1, <4>1, <4>2
    <3>3. CASE ~ (Sector > 0)
      BY <2>1, <3>1, <3>3 DEF Flush, iovVars
    <3> QED
      BY <3>2, <3>3
  <2> QED
    BY <1>1, <2>1, <2>2, <2>3 DEF ArrayInv
<1>6. CASE Finish /\ WriteLength
  <2>1. /\ at = -2 /\ at' \in {-2, 0} /\ UNCHANGED <<packets, sender, iovSize, reach>>
        /\ Len(iov') = Len(iov)
    BY <1>1, <1>6 DEF WriteLength, Finish
  <2> QED
    BY <2>1 DEF ArrayInv
<1>7. CASE Send
  <2>1. /\ UNCHANGED <<packets, sender, iovSize>> /\ Len(iov') = Len(iov)
        /\ at' \in Nat /\ reach' \in Nat \ {0}
    <3>1. at >= 0 /\ \E n : Writev(n)
      BY <1>7 DEF Send, SendSome, Sending
    <3>2. PICK done \in 0 .. Len(Pending) :
            /\ at' = at + done /\ reach' = at + done + 1
            /\ Len(iov') = Len(iov)
            /\ UNCHANGED <<packets, iovSize>>
      BY <1>1, <3>1 DEF Writev
    <3>3. done \in Nat /\ at + done \in Nat /\ at + done + 1 \in Nat \ {0}
      BY <1>1, <3>1, <3>2
    <3> QED
      BY <1>7, <3>2, <3>3 DEF Send
  <2>2. reach' # 0 /\ at' # -1 /\ at # -1
    <3>1. at >= 0
      BY <1>7 DEF Send, SendSome, Sending
    <3> QED
      BY <1>1, <2>1, <3>1
  <2> QED
    BY <2>1, <2>2 DEF ArrayInv
<1>8. CASE Return \/ Fail
  <2>1. packets' = packets + 1
    BY <1>8 DEF Return, Fail, Sent, WritevFails, Reset
  <2> QED
    BY <1>1, <2>1 DEF ArrayInv
<1>9. CASE UNCHANGED sendVars
  BY <1>9 DEF sendVars, vars, bufVars, iovVars, ArrayInv, BehindCopies, Sector
<1> QED
  BY <1>2, <1>3, <1>4, <1>5, <1>6, <1>7, <1>8, <1>9 DEF SendersNext, Finish

\* The first packet of a connection always ends outside of the array, for every sender
\* and all sizes: its entries fill the array, and write_wbuf goes one behind the last
\* (write_string, write_bytes, flush_buffer, write_wbuf).
THEOREM FirstPacketEndsOutside == SendersSpec => []FirstPacketLeavesArray
<1>1. SendersInit => ArrayInv
  BY NobodySends DEF SendersInit, Init, ArrayInv, BehindCopies
<1>2. SendersInv /\ ArrayInv => FirstPacketLeavesArray
  <2> SUFFICES ASSUME SendersInv, ArrayInv, packets = 0, sender \in DOMAIN Layouts, at = Len(iov),
                      at >= 0
               PROVE  reach > iovSize
    BY DEF FirstPacketLeavesArray, Sending
  <2>1. /\ at \in Int /\ iovSize = (IF Len(iov) = 0 THEN 1 ELSE Len(iov))
        /\ reach = 0 => at <= 0
        /\ reach = 0 \/ reach = at + 1
        /\ at # -1 => Len(iov) > 0
    BY NobodySends DEF ArrayInv, SendersInv, WriteInv, OffsetInv
  <2> QED
    BY <2>1
<1> QED
  BY <1>1, <1>2, ArrayStep, SendersInvariant, PTL DEF SendersSpec
=============================================================================
