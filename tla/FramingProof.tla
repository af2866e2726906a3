----------------------------- MODULE FramingProof -----------------------------
(***************************************************************************)
(* Theorems about Framing, for every buffer size, prefix length, stream of *)
(* packets and window.                                                     *)
(*                                                                         *)
(* CursorInv relates the offsets of one Connection to one another; it      *)
(* holds whatever the client does.  CutInv says which packet is being      *)
(* received, and how much of it is left, as long as no hazard was met.     *)
(* SpillInv and RoomInv say what each fault of the buffers needs, WorkLeft *)
(* how many steps the worker takes at most until it waits.                 *)
(***************************************************************************)
EXTENDS Framing, TLAPS

\* The worker may still use this connection.
Serving == fault = "none" /\ pc \in {"epoll", "ready"}

CursorInv ==
  Serving =>
    /\ len < 0 => "bad_length" \in hazards
    /\ phase = "resolve_length" =>
         /\ target = "primary"
         /\ IF len = -1
              THEN allowed >= 0
              ELSE rpos = wpos /\ allowed = PrimarySize - hdr /\ hdr < MaxHeader
    /\ phase = "transition_to_secondary" =>
         /\ target = "primary"
         /\ TotalLength > PrimarySize
         /\ allowed >= 0
    /\ allowed < 0 => target = "primary" /\ allowed = TotalLength - wpos
    /\ pc = "epoll" => allowed > 0
    /\ target = "primary" => base + wpos = taken

BasicInv == TypeOK /\ CursorInv

InPrimary   == phase = "copy_to_buffer" /\ target = "primary"
InSecondary == phase = "copy_to_buffer" /\ target = "secondary"

CutInv ==
  Serving /\ hazards = {} =>
    /\ Current \in 1 .. NumPackets + 1
    /\ base = Start[Current]
    /\ rpos = hdr
    /\ taken <= arrived
    /\ phase = "resolve_length" /\ Current \in Packets => hdr < HdrLen[Current]
    /\ phase # "resolve_length" =>
         /\ Current \in Packets
         /\ hdr = HdrLen[Current]
         /\ TotalLength = Total(Current)
    /\ phase = "transition_to_secondary" =>
         /\ allowed = PrimarySize - wpos
         /\ allowed > 0
    /\ InPrimary =>
         /\ TotalLength <= PrimarySize
         /\ allowed >= 0
         /\ allowed = TotalLength - wpos
    /\ InSecondary =>
         /\ allowed >= 0
         /\ allowed = base + TotalLength - taken

ExactInv ==
  /\ BasicInv
  /\ arrived <= Start[NumPackets + 1]
  /\ FramesExact
  /\ hazards = {} => \A i \in DOMAIN frames : frames[i].clean
  /\ CutInv
------------------------------------------------------------------------------
(* The client's stream. *)

LEMMA PacketFacts ==
  ASSUME NEW p \in Packets
  PROVE  /\ p \in Nat /\ p >= 1 /\ p + 1 \in 1 .. NumPackets + 1
         /\ Start[p] \in Nat /\ Start[p + 1] \in Nat
         /\ HdrLen[p] \in Nat /\ HdrLen[p] >= 1 /\ HdrLen[p] <= MaxHeader
         /\ Start[p] + HdrLen[p] < Start[p + 1]
         /\ Total(p) \in Nat /\ Total(p) = Start[p + 1] - Start[p]
  BY FramingAssumption DEF FramingAssumption, Packets, Total

LEMMA StartIncreases ==
  ASSUME NEW p \in Packets, NEW q \in p + 1 .. NumPackets + 1
  PROVE  Start[p] < Start[q]
<1>1. Start[p] + HdrLen[p] < Start[q]
  BY FramingAssumption DEF FramingAssumption
<1>2. Start[q] \in Nat
  BY PacketFacts, FramingAssumption DEF FramingAssumption
<1>3. QED
  BY <1>1, <1>2, PacketFacts

\* Two packets never start at the same position.
LEMMA StartInjective ==
  ASSUME NEW p \in Packets, NEW q \in 1 .. NumPackets + 1, Start[p] = Start[q]
  PROVE  p = q
<1>1. NumPackets \in Nat
  BY FramingAssumption DEF FramingAssumption
<1>2. Start[p] \in Nat /\ p \in 1 .. NumPackets
  BY PacketFacts DEF Packets
<1>3. CASE p < q
  BY <1>1, <1>2, <1>3, StartIncreases
<1>4. CASE q < p
  <2>1. q \in Packets /\ p \in q + 1 .. NumPackets + 1
    BY <1>1, <1>2, <1>4 DEF Packets
  <2>2. QED
    BY <1>2, <2>1, StartIncreases
<1>5. QED
  BY <1>1, <1>2, <1>3, <1>4

\* A completed prefix is longer than the part of it seen before.
LEMMA PrefixBounds ==
  ASSUME NEW s, NEW h \in Prefixes(s)
  PROVE  /\ h.size \in Nat /\ h.size <= MaxHeader /\ h.len \in Int
         /\ h.size > hdr
<1>1. h.size > hdr
  BY DEF Prefixes
<1>2. CASE \E p \in Packets : h = [size |-> HdrLen[p], len |-> Total(p) - HdrLen[p]]
  BY <1>1, <1>2, PacketFacts
<1>3. CASE h \in Stray
  <2>1. h \in [size : 1 .. MaxHeader, len : Int] /\ MaxHeader \in Nat
    BY <1>3, FramingAssumption DEF FramingAssumption
  <2>2. QED
    BY <1>1, <2>1
<1>4. QED
  BY <1>2, <1>3 DEF Prefixes

\* At the start of packet k a length of at least 1 is packet k's.
LEMMA PrefixOfPacket ==
  ASSUME NEW k \in Packets, NEW h \in Prefixes(Start[k]), BadLength(h) = {}
  PROVE  h.size = HdrLen[k] /\ h.len = Total(k) - HdrLen[k]
<1>1. ~ h.len < 1
  BY DEF BadLength
<1>2. PICK p \in Packets : Start[p] = Start[k] /\ h = [size |-> HdrLen[p], len |-> Total(p) - HdrLen[p]]
  <2> DEFINE own == {[size |-> HdrLen[p], len |-> Total(p) - HdrLen[p]] :
                       p \in {q \in Packets : Start[q] = Start[k]}}
  <2>1. own # {}
    OBVIOUS
  <2>2. h \in own
    BY <1>1, <2>1 DEF Prefixes
  <2>3. QED
    BY <2>2
<1>3. p = k
  <2>1. k \in 1 .. NumPackets + 1
    BY FramingAssumption DEF FramingAssumption, Packets
  <2>2. QED
    BY <1>2, <2>1, StartInjective
<1>4. QED
  BY <1>2, <1>3
------------------------------------------------------------------------------
(* The offsets of one connection. *)

LEMMA BasicInit == Init => BasicInv
<1>1. SUFFICES ASSUME Init PROVE BasicInv
  OBVIOUS
<1>2. TypeOK
  BY <1>1, FramingAssumption DEF Init, TypeOK, FramingAssumption, Phases, Faults, Frame
<1>3. CursorInv
  BY <1>1, FramingAssumption DEF Init, CursorInv, FramingAssumption
<1>4. QED
  BY <1>2, <1>3 DEF BasicInv

\* A step that changes none of the offsets keeps what was true of them.
LEMMA BasicUntouched ==
  ASSUME BasicInv, arrived' \in Nat, peer' \in {"open", "fin", "rst"},
         pc' = pc, fault' = fault,
         UNCHANGED <<taken, base, wpos, rpos, hdr, len, allowed, phase, target,
                     sec, frames, hazards>>
  PROVE  BasicInv'
BY DEF BasicInv, TypeOK, CursorInv, Serving, From, TotalLength

LEMMA BasicPartial ==
  ASSUME BasicInv, len # -1,
         NEW n \in 1 .. allowed, NEW h \in Prefixes(From), ResolvePartial(n, h)
  PROVE  BasicInv'
<1>1. /\ phase = "resolve_length" /\ pc = "epoll" /\ fault = "none" /\ pc' = "ready"
      /\ taken' = taken + n /\ wpos' = wpos + n /\ rpos' = wpos + n
      /\ hdr' = hdr + (wpos + n - rpos) /\ allowed' = allowed - n
      /\ wpos + n - rpos < h.size - hdr
      /\ hazards \subseteq hazards' /\ hazards' \subseteq Hazards
      /\ UNCHANGED <<clientVars, base, len, phase, target, sec, frames, fault>>
  BY DEF ResolvePartial, RecvToPrimary, Recv, BadLength, BasicInv, TypeOK, Hazards
<1>2. /\ target = "primary" /\ rpos = wpos /\ allowed = PrimarySize - hdr
      /\ base + wpos = taken /\ (len < 0 => "bad_length" \in hazards)
  BY <1>1 DEF BasicInv, CursorInv, Serving
<1>3. h.size \in Nat /\ h.size <= MaxHeader /\ h.size > hdr
  BY PrefixBounds
<1>4. /\ taken \in Nat /\ base \in Int /\ wpos \in Nat /\ rpos \in Nat /\ hdr \in Nat
      /\ allowed \in Int /\ n \in Nat /\ n >= 1
      /\ PrimarySize \in Nat /\ MaxHeader \in Nat /\ PrimarySize > MaxHeader
  BY FramingAssumption DEF BasicInv, TypeOK, FramingAssumption
<1>5. hdr' = hdr + n /\ hdr' < MaxHeader
  BY <1>1, <1>2, <1>3, <1>4
<1>6. TypeOK'
  BY <1>1, <1>2, <1>4, <1>5 DEF BasicInv, TypeOK, clientVars
<1>7. CursorInv'
  BY <1>1, <1>2, <1>4, <1>5 DEF CursorInv, Serving
<1>8. QED
  BY <1>6, <1>7 DEF BasicInv

\* What the outcomes of a completed prefix share.
LEMMA LengthKnownFacts ==
  ASSUME BasicInv, len # -1,
         NEW n \in 1 .. allowed, NEW h \in Prefixes(From), LengthKnown(n, h)
  PROVE  /\ phase = "resolve_length" /\ pc = "epoll" /\ fault = "none" /\ pc' = "ready"
         /\ target = "primary" /\ allowed = PrimarySize - hdr
         /\ taken + n <= arrived /\ taken' = taken + n
         /\ wpos + n <= PrimarySize /\ wpos' = wpos + n
         /\ rpos' \in Nat /\ rpos' = rpos + (h.size - hdr) /\ rpos = wpos
         /\ hdr' \in Nat /\ hdr' = h.size /\ len' \in Int /\ len' = h.len
         /\ hdr' <= MaxHeader /\ base + wpos = taken /\ n \in Nat /\ n >= 1 /\ n <= allowed
<1>1. /\ phase = "resolve_length" /\ pc = "epoll" /\ fault = "none" /\ pc' = "ready"
      /\ taken + n <= arrived /\ taken' = taken + n
      /\ wpos + n <= PrimarySize /\ wpos' = wpos + n
      /\ rpos' = rpos + (h.size - hdr) /\ hdr' = h.size /\ len' = h.len
  BY DEF LengthKnown, RecvToPrimary, Recv
<1>2. /\ target = "primary" /\ rpos = wpos /\ allowed = PrimarySize - hdr
      /\ base + wpos = taken
  BY <1>1 DEF BasicInv, CursorInv, Serving
<1>3. h.size \in Nat /\ h.size > hdr /\ h.size <= MaxHeader /\ h.len \in Int
  BY PrefixBounds
<1>4. rpos \in Nat /\ hdr \in Nat /\ allowed \in Int
  BY DEF BasicInv, TypeOK
<1>5. QED
  BY <1>1, <1>2, <1>3, <1>4

\* A length of -1, and what is read behind it.
LEMMA BasicMinusOne ==
  ASSUME BasicInv, len # -1,
         NEW n \in 1 .. allowed, NEW h \in Prefixes(From), ResolveMinusOne(n, h)
  PROVE  BasicInv'
<1>1. LengthKnown(n, h) /\ len' = -1
  BY DEF ResolveMinusOne, LengthKnown
<1>2. /\ allowed' = allowed - n
      /\ "bad_length" \in hazards' /\ hazards' \subseteq Hazards
      /\ UNCHANGED <<clientVars, base, phase, target, sec, frames, fault>>
  BY DEF ResolveMinusOne, BadLength, BasicInv, TypeOK, Hazards
<1>3. base \in Int /\ wpos \in Nat /\ taken \in Nat /\ allowed \in Int
  BY DEF BasicInv, TypeOK
<1>4. TypeOK'
  BY <1>1, <1>2, <1>3, LengthKnownFacts DEF BasicInv, TypeOK, clientVars
<1>5. CursorInv'
  BY <1>1, <1>2, <1>3, LengthKnownFacts DEF CursorInv, Serving
<1>6. QED
  BY <1>4, <1>5 DEF BasicInv

LEMMA BasicAfterMinusOne ==
  ASSUME BasicInv, NEW n \in 1 .. allowed, AfterMinusOne(n)
  PROVE  BasicInv'
<1>1. /\ phase = "resolve_length" /\ len = -1 /\ pc = "epoll" /\ fault = "none"
      /\ pc' = "ready" /\ taken' = taken + n /\ wpos' = wpos + n /\ target = "primary"
      /\ hdr' = hdr + 1 /\ rpos' = rpos + 1 /\ allowed' = allowed - n
      /\ UNCHANGED <<clientVars, base, len, phase, target, sec, frames, fault, hazards>>
  BY DEF AfterMinusOne, RecvToPrimary, Recv
<1>2. /\ base \in Int /\ wpos \in Nat /\ taken \in Nat /\ allowed \in Int
      /\ hdr \in Nat /\ rpos \in Nat /\ n \in Nat /\ n <= allowed
  BY DEF BasicInv, TypeOK
<1>3. base + wpos = taken /\ "bad_length" \in hazards
  BY <1>1 DEF BasicInv, CursorInv, Serving
<1>4. TypeOK'
  BY <1>1, <1>2 DEF BasicInv, TypeOK, clientVars
<1>5. CursorInv'
  BY <1>1, <1>2, <1>3 DEF CursorInv, Serving
<1>6. QED
  BY <1>4, <1>5 DEF BasicInv

LEMMA BasicFits ==
  ASSUME BasicInv, len # -1,
         NEW n \in 1 .. allowed, NEW h \in Prefixes(From), ResolveFits(n, h)
  PROVE  BasicInv'
<1>1. LengthKnown(n, h)
  BY DEF ResolveFits
<1>2. /\ allowed' = hdr' + len' - wpos'
      /\ phase' = "copy_to_buffer"
      /\ hazards' \subseteq Hazards
      /\ len' < 0 => "bad_length" \in hazards'
      /\ UNCHANGED <<clientVars, base, target, sec, frames, fault>>
  <2>0. wpos \in Nat
    BY DEF BasicInv, TypeOK
  <2>1. PICK s \in Nat, l \in Int, w \in Nat :
          s = h.size /\ l = h.len /\ w = wpos + n /\ hdr' = s /\ len' = l /\ wpos' = w
    BY <1>1, <2>0, LengthKnownFacts
  <2>2. allowed' = (h.size + h.len) - (wpos + n) /\ (s + l) - w = s + (l - w)
    BY DEF ResolveFits, BytesToRead
  <2>3. hazards' \subseteq Hazards
    BY DEF ResolveFits, BadLength, BasicInv, TypeOK, Hazards
  <2>4. l < 0 => "bad_length" \in hazards'
    BY <2>1 DEF ResolveFits, BadLength
  <2> QED
    BY <2>1, <2>2, <2>3, <2>4 DEF ResolveFits
<1>3. TypeOK'
  BY <1>1, <1>2, LengthKnownFacts DEF BasicInv, TypeOK, clientVars, Phases
<1>4. CursorInv'
  <2>1. base \in Int /\ wpos \in Nat /\ taken \in Nat
    BY DEF BasicInv, TypeOK
  <2>2. pc' = "ready" /\ target' = "primary" /\ base' + wpos' = taken'
    BY <1>1, <1>2, <2>1, LengthKnownFacts
  <2>3. allowed' = TotalLength' - wpos'
    <3>1. hdr' \in Nat /\ len' \in Int /\ wpos' \in Int
      BY <1>1, <2>1, LengthKnownFacts
    <3>2. QED
      BY <1>2, <3>1 DEF TotalLength
  <2>4. QED
    BY <1>2, <2>2, <2>3 DEF CursorInv, Serving
<1>5. QED
  BY <1>3, <1>4 DEF BasicInv

LEMMA BasicSpills ==
  ASSUME BasicInv, len # -1,
         NEW n \in 1 .. allowed, NEW h \in Prefixes(From), ResolveSpills(n, h)
  PROVE  BasicInv'
<1>1. LengthKnown(n, h)
  BY DEF ResolveSpills
<1>2. /\ allowed' = allowed - n
      /\ ~ (PrimarySize - h.size >= h.len)
      /\ phase' = "transition_to_secondary"
      /\ hazards' \subseteq Hazards
      /\ UNCHANGED <<clientVars, base, target, sec, frames, fault>>
  BY DEF ResolveSpills, FitsPrimary, BasicInv, TypeOK, Hazards
<1>3. PrimarySize \in Nat /\ MaxHeader \in Nat /\ PrimarySize > MaxHeader
  BY FramingAssumption DEF FramingAssumption
<1>4. TypeOK'
  BY <1>1, <1>2, LengthKnownFacts DEF BasicInv, TypeOK, clientVars, Phases
<1>5. CursorInv'
  <2>1. base \in Int /\ wpos \in Nat /\ taken \in Nat /\ allowed \in Int
    BY DEF BasicInv, TypeOK
  <2>2. pc' = "ready" /\ target' = "primary" /\ base' + wpos' = taken'
    BY <1>1, <1>2, <2>1, LengthKnownFacts
  <2>3. TotalLength' > PrimarySize /\ ~ len' < 0
    BY <1>1, <1>2, <1>3, LengthKnownFacts DEF TotalLength
  <2>4. allowed' \in Int /\ allowed' >= 0
    BY <1>2, <2>1
  <2>5. QED
    BY <1>2, <2>2, <2>3, <2>4 DEF CursorInv, Serving
<1>6. QED
  BY <1>4, <1>5 DEF BasicInv

LEMMA BasicTransition ==
  ASSUME BasicInv, NEW n \in 1 .. allowed, Transition(n)
  PROVE  BasicInv'
<1>1. /\ phase = "transition_to_secondary" /\ pc = "epoll" /\ fault = "none" /\ pc' = "ready"
      /\ taken' = taken + n /\ wpos' = wpos + n /\ target = "primary"
      /\ UNCHANGED <<clientVars, base, rpos, hdr, len, frames, fault>>
  BY DEF Transition, RecvToPrimary, Recv
<1>2. /\ TotalLength > PrimarySize /\ allowed >= 0 /\ base + wpos = taken /\ n \in Nat
      /\ PrimarySize \in Nat /\ TotalLength' = TotalLength
      /\ (len < 0 => "bad_length" \in hazards) /\ len' = len
  BY <1>1, FramingAssumption DEF BasicInv, TypeOK, CursorInv, Serving, FramingAssumption, TotalLength
<1>3. CASE /\ FillsPrimary(n) /\ allowed' = TotalLength - PrimarySize /\ sec' = "live"
           /\ target' = "secondary" /\ phase' = "copy_to_buffer" /\ UNCHANGED hazards
  <2>1. TypeOK'
    BY <1>1, <1>2, <1>3 DEF BasicInv, TypeOK, clientVars, Phases, TotalLength
  <2>2. CursorInv'
    BY <1>1, <1>2, <1>3 DEF BasicInv, TypeOK, CursorInv, Serving, TotalLength
  <2>3. QED
    BY <2>1, <2>2 DEF BasicInv
<1>4. CASE /\ ~ FillsPrimary(n) /\ hazards' = hazards \cup {"short_fill"}
           /\ UNCHANGED <<allowed, sec, target, phase>>
  <2>1. TypeOK'
    BY <1>1, <1>2, <1>4 DEF BasicInv, TypeOK, clientVars, Hazards
  <2>2. CursorInv'
    BY <1>1, <1>2, <1>4 DEF BasicInv, TypeOK, CursorInv, Serving
  <2>3. QED
    BY <2>1, <2>2 DEF BasicInv
<1>5. QED
  BY <1>3, <1>4 DEF Transition

LEMMA BasicCopy ==
  ASSUME BasicInv, NEW n \in 1 .. allowed, CopyToBuffer(n)
  PROVE  BasicInv'
<1>1. /\ phase = "copy_to_buffer" /\ pc = "epoll" /\ fault = "none" /\ pc' = "ready"
      /\ taken' = taken + n /\ allowed' = allowed - n
      /\ (target = "primary" /\ wpos' = wpos + n) \/ (target = "secondary" /\ wpos' = wpos)
      /\ UNCHANGED <<clientVars, base, rpos, hdr, len, phase, target, sec, frames,
                     fault, hazards>>
  <2>1. CASE RecvToPrimary(n)
    BY <2>1 DEF CopyToBuffer, RecvToPrimary, Recv
  <2>2. CASE target = "secondary" /\ Recv(n) /\ UNCHANGED wpos
    BY <2>2 DEF CopyToBuffer, Recv
  <2>3. QED
    BY <2>1, <2>2 DEF CopyToBuffer
<1>2. target = "primary" => wpos' = wpos + n
  BY <1>1
<1>3. allowed \in Int /\ n \in Nat /\ n <= allowed /\ wpos' \in Nat /\ taken \in Nat
  BY <1>1 DEF BasicInv, TypeOK
<1>4. TypeOK'
  BY <1>1, <1>3 DEF BasicInv, TypeOK, clientVars
<1>5. CursorInv'
  <2>1. base \in Int /\ wpos \in Nat
    BY DEF BasicInv, TypeOK
  <2>2. target = "primary" => base + wpos = taken
    BY <1>1 DEF BasicInv, CursorInv, Serving
  <2>3. target' = "primary" => base' + wpos' = taken'
    BY <1>1, <1>2, <1>3, <2>1, <2>2
  <2>4. /\ allowed' \in Int /\ allowed' >= 0 /\ phase' = "copy_to_buffer" /\ pc' = "ready"
        /\ len' < 0 => "bad_length" \in hazards'
    BY <1>1, <1>3 DEF BasicInv, CursorInv, Serving
  <2>5. QED
    BY <2>3, <2>4 DEF CursorInv
<1>6. QED
  BY <1>4, <1>5 DEF BasicInv

LEMMA BasicOverrun ==
  ASSUME BasicInv, Overrun
  PROVE  BasicInv'
<1>1. PICK n \in 1 .. allowed : Recv(n)
  BY DEF Overrun
<1>2. taken' \in Nat
  BY <1>1 DEF Recv, BasicInv, TypeOK
<1>3. TypeOK'
  BY <1>2 DEF Overrun, BasicInv, TypeOK, clientVars, Faults
<1>4. CursorInv'
  BY DEF Overrun, CursorInv, Serving
<1>5. QED
  BY <1>3, <1>4 DEF BasicInv

LEMMA BasicMalformed ==
  ASSUME BasicInv, Malformed
  PROVE  BasicInv'
<1>1. PICK n \in 1 .. allowed : RecvToPrimary(n)
  BY DEF Malformed
<1>2. taken' \in Nat /\ wpos' \in Nat
  BY <1>1 DEF RecvToPrimary, Recv, BasicInv, TypeOK
<1>3. TypeOK'
  BY <1>2 DEF Malformed, BasicInv, TypeOK, clientVars
<1>4. CursorInv'
  BY DEF Malformed, CursorInv, Serving
<1>5. QED
  BY <1>3, <1>4 DEF BasicInv

\* reset() puts the next packet where recv() goes on.
LEMMA BasicDispatch ==
  ASSUME BasicInv, Dispatch
  PROVE  BasicInv'
<1>1. /\ pc = "ready" /\ fault = "none" /\ allowed <= 0
      /\ base' = NextBase /\ rpos' = Overflow /\ wpos' = Overflow
      /\ hdr' = 0 /\ len' = 0 /\ allowed' = PrimarySize /\ phase' = "resolve_length"
      /\ target' = "primary" /\ pc' = "epoll"
      /\ UNCHANGED <<arrived, peer, taken, hazards>>
  BY DEF Dispatch, Ready, FeedAt, clientVars
<1>2. /\ taken \in Nat /\ base \in Int /\ wpos \in Nat /\ hdr \in Nat /\ len \in Int
      /\ allowed \in Int /\ rpos \in Nat
      /\ PrimarySize \in Nat /\ MaxHeader \in Nat \ {0} /\ PrimarySize > MaxHeader
  BY FramingAssumption DEF FramingAssumption, BasicInv, TypeOK
<1>3. Overflow \in Nat /\ NextBase \in Int
  BY <1>2 DEF Overflow, NextBase, TotalLength
<1>4. base' + wpos' = taken'
  <2>1. CASE allowed < 0
    <3>1. target = "primary" /\ allowed = TotalLength - wpos
      BY <1>1, <2>1 DEF BasicInv, CursorInv, Serving
    <3>2. base + wpos = taken
      BY <1>1, <3>1 DEF BasicInv, CursorInv, Serving
    <3>3. Overflow = - allowed /\ NextBase = base + TotalLength
      BY <1>2, <2>1 DEF Overflow, NextBase
    <3>4. TotalLength \in Int
      BY <1>2 DEF TotalLength
    <3>5. QED
      BY <1>1, <1>2, <3>1, <3>2, <3>3, <3>4
  <2>2. CASE allowed = 0
    BY <1>1, <1>2, <2>2 DEF Overflow, NextBase
  <2>3. QED
    BY <1>1, <1>2, <2>1, <2>2
<1>5. sec' \in {"null", "live", "dangling"} /\ fault' \in Faults
  BY DEF Dispatch, FreeSecondary, BasicInv, TypeOK, Faults
<1>6. frames' \in Seq(Frame)
  <2>1. [from |-> From, size |-> TotalLength, got |-> taken - From,
         clean |-> hazards = {}] \in Frame
    BY <1>2 DEF Frame, From, TotalLength
  <2>2. QED
    BY <2>1 DEF Dispatch, BasicInv, TypeOK
<1>7. TypeOK'
  BY <1>1, <1>2, <1>3, <1>5, <1>6 DEF BasicInv, TypeOK, Phases
<1>8. CursorInv'
  BY <1>1, <1>2, <1>4 DEF CursorInv
<1>9. QED
  BY <1>7, <1>8 DEF BasicInv

LEMMA BasicStep == BasicInv /\ [Next]_vars => BasicInv'
<1>1. SUFFICES ASSUME BasicInv, [Next]_vars PROVE BasicInv'
  OBVIOUS
<1>2. CASE Arrive
  <2>1. arrived' \in Nat
    <3>1. Horizon \in Nat
      <4>1. NumPackets \in Nat /\ Window \in Nat /\ Len(frames) \in Nat /\ Window >= 1
        BY <1>1, FramingAssumption DEF FramingAssumption, BasicInv, TypeOK
      <4>2. \A q \in 1 .. NumPackets + 1 : Start[q] \in Nat
        BY FramingAssumption DEF FramingAssumption
      <4>3. QED
        BY <4>1, <4>2 DEF Horizon
    <3>2. QED
      BY <1>1, <1>2, <3>1 DEF Arrive, BasicInv, TypeOK
  <2>2. QED
    BY <1>1, <1>2, <2>1, BasicUntouched DEF Arrive, BasicInv, TypeOK
<1>3. CASE Hangup
  BY <1>1, <1>3, BasicUntouched DEF Hangup, BasicInv, TypeOK
<1>4. CASE ResolveLength
  BY <1>1, <1>4, BasicPartial, BasicMinusOne, BasicFits, BasicSpills DEF ResolveLength
<1>5. CASE \E n \in 1 .. allowed : AfterMinusOne(n) \/ Transition(n) \/ CopyToBuffer(n)
  BY <1>1, <1>5, BasicAfterMinusOne, BasicTransition, BasicCopy
<1>6. CASE Overrun
  BY <1>1, <1>6, BasicOverrun
<1>7. CASE Malformed
  BY <1>1, <1>7, BasicMalformed
<1>8. CASE RecvFails \/ ReadyOnFreed \/ TruncatedRead
  <2>1. TypeOK'
    BY <1>1, <1>8 DEF RecvFails, ReadyOnFreed, TruncatedRead, BasicInv, TypeOK, clientVars, Faults
  <2>2. CursorInv'
    BY <1>8 DEF RecvFails, ReadyOnFreed, TruncatedRead, CursorInv, Serving
  <2>3. QED
    BY <2>1, <2>2 DEF BasicInv
<1>9. CASE NotReady
  <2>1. TypeOK'
    BY <1>1, <1>9 DEF NotReady, BasicInv, TypeOK, clientVars
  <2>2. CursorInv'
    BY <1>1, <1>9 DEF NotReady, Ready, BasicInv, TypeOK, CursorInv, Serving, From, TotalLength
  <2>3. QED
    BY <2>1, <2>2 DEF BasicInv
<1>10. CASE Dispatch
  BY <1>1, <1>10, BasicDispatch
<1>11. CASE UNCHANGED vars
  BY <1>1, <1>11, BasicUntouched DEF vars, BasicInv, TypeOK
<1>12. QED
  BY <1>1, <1>2, <1>3, <1>4, <1>5, <1>6, <1>7, <1>8, <1>9, <1>10, <1>11 DEF Next, Worker

\* The inductive core of every theorem below: the types of a connection's
\* members, and how bytes_allowed and the write cursor depend on its phase.
THEOREM BasicInvariant == Spec => []BasicInv
<1>1. Init => BasicInv
  BY BasicInit
<1>2. BasicInv /\ [Next]_vars => BasicInv'
  BY BasicStep
<1>3. QED
  BY <1>1, <1>2, PTL DEF Spec

\* Every offset of a connection stays in its range, however the client behaves.
THEOREM TypeCorrect == Spec => []TypeOK
<1>1. BasicInv => TypeOK
  BY DEF BasicInv
<1>2. QED
  BY <1>1, BasicInvariant, PTL

\* resolve_length's comment holds of every client: recv() is never called with
\* a bytes_allowed of zero or less.
THEOREM RecvAlwaysAsks == Spec => []RecvAsksForBytes
<1>1. BasicInv => RecvAsksForBytes
  BY DEF BasicInv, CursorInv, Serving, RecvAsksForBytes
<1>2. QED
  BY <1>1, BasicInvariant, PTL

\* reset() never leaves a gap or an overlap between leftovers and fresh bytes.
THEOREM PrimaryStaysContiguous == Spec => []PrimaryContiguous
<1>1. BasicInv => PrimaryContiguous
  BY DEF BasicInv, CursorInv, Serving, PrimaryContiguous
<1>2. QED
  BY <1>1, BasicInvariant, PTL
------------------------------------------------------------------------------
(* Which packet is being received. *)

LEMMA ExactInit == Init => ExactInv
<1>1. SUFFICES ASSUME Init PROVE ExactInv
  OBVIOUS
<1>2. NumPackets \in Nat /\ Start[1] = 0 /\ Start[NumPackets + 1] \in Nat
  BY FramingAssumption DEF FramingAssumption
<1>3. BasicInv
  BY <1>1, BasicInit
<1>4. FramesExact
  BY <1>1 DEF Init, FramesExact
<1>5. CutInv
  <2>1. Current = 1
    BY <1>1 DEF Init, Current
  <2>2. \A p \in Packets : 0 < HdrLen[p]
    BY PacketFacts
  <2>3. QED
    BY <1>1, <1>2, <2>1, <2>2 DEF Init, CutInv, InPrimary, InSecondary
<1>6. QED
  BY <1>1, <1>2, <1>3, <1>4, <1>5 DEF ExactInv, Init

\* Nothing is claimed once a hazard was met.
LEMMA ExactAfterHazard ==
  ASSUME ExactInv, BasicInv', arrived' = arrived, hazards' # {}
  PROVE  ExactInv'
BY DEF ExactInv, FramesExact, CutInv

\* Steps that leave the buffers and the frames alone.
LEMMA ExactUntouched ==
  ASSUME ExactInv, BasicInv', arrived' >= arrived, arrived' <= Start[NumPackets + 1],
         Serving' => Serving,
         UNCHANGED <<taken, base, wpos, rpos, hdr, len, allowed, phase, target,
                     frames, fault, hazards>>
  PROVE  ExactInv'
<1>1. taken <= arrived => taken' <= arrived'
  BY DEF ExactInv, BasicInv, TypeOK
<1>2. CutInv'
  BY <1>1 DEF ExactInv, CutInv, Current, InPrimary, InSecondary, TotalLength
<1>3. FramesExact'
  BY DEF ExactInv, FramesExact, Exact
<1>4. QED
  BY <1>2, <1>3 DEF ExactInv

\* Steps after which the connection is no longer used.
LEMMA ExactStops ==
  ASSUME ExactInv, BasicInv', arrived' = arrived, ~ Serving',
         fault' \notin {"primary_overrun", "truncated_read", "bad_copy"},
         UNCHANGED <<frames, hazards>>
  PROVE  ExactInv'
<1>1. FramesExact'
  BY DEF ExactInv, FramesExact, Exact
<1>2. QED
  BY <1>1 DEF ExactInv, CutInv

\* While a prefix is read the reader stands at the start of a packet.
LEMMA ResolvingFacts ==
  ASSUME ExactInv, hazards = {}, Serving, phase = "resolve_length",
         NEW n \in Nat \ {0}, taken + n <= arrived
  PROVE  /\ Current \in Packets
         /\ base = Start[Current] /\ From = Start[Current]
         /\ wpos = hdr /\ rpos = hdr /\ hdr \in Nat
         /\ taken = base + hdr /\ allowed = PrimarySize - hdr /\ len # -1
<1>1. /\ Current \in 1 .. NumPackets + 1 /\ base = Start[Current] /\ rpos = hdr
  BY DEF ExactInv, CutInv
<1>2. wpos = rpos /\ target = "primary" /\ allowed = PrimarySize - hdr /\ len # -1
  BY DEF ExactInv, BasicInv, CursorInv, Serving
<1>3. base + wpos = taken
  BY <1>2 DEF ExactInv, BasicInv, CursorInv
<1>4. hdr \in Nat /\ base \in Int /\ taken \in Nat /\ arrived \in Nat
  BY DEF ExactInv, BasicInv, TypeOK
<1>5. NumPackets \in Nat /\ Start[NumPackets + 1] \in Nat
  BY FramingAssumption DEF FramingAssumption
<1>6. arrived <= Start[NumPackets + 1]
  BY DEF ExactInv
<1>7. Current # NumPackets + 1
  <2>1. SUFFICES ASSUME Current = NumPackets + 1 PROVE FALSE
    OBVIOUS
  <2>2. base = Start[NumPackets + 1]
    BY <1>1, <2>1
  <2>3. QED
    BY <1>1, <1>2, <1>3, <1>4, <1>5, <1>6, <2>2
<1>8. Current \in Packets
  BY <1>1, <1>5, <1>7 DEF Packets
<1>9. From = Start[Current]
  BY <1>1, <1>4 DEF From
<1>10. QED
  BY <1>1, <1>2, <1>3, <1>4, <1>8, <1>9

LEMMA ExactPartial ==
  ASSUME ExactInv, BasicInv', hazards' = {}, hazards = {},
         NEW n \in 1 .. allowed, NEW h \in Prefixes(From), ResolvePartial(n, h)
  PROVE  ExactInv'
<1>1. /\ phase = "resolve_length" /\ Serving /\ taken + n <= arrived
      /\ taken' = taken + n /\ wpos' = wpos + n /\ rpos' = wpos + n
      /\ hdr' = hdr + (wpos + n - rpos) /\ phase' = phase
      /\ wpos + n - rpos < h.size - hdr /\ BadLength(h) = {}
      /\ UNCHANGED <<arrived, base, frames, fault>>
  BY DEF ResolvePartial, RecvToPrimary, Recv, Serving, clientVars
<1>2. n \in Nat \ {0}
  BY DEF ExactInv, BasicInv, TypeOK
<1>3. rpos' = hdr' /\ hdr' < HdrLen[Current]
  <2>1. Current \in Packets /\ h \in Prefixes(Start[Current])
    BY <1>1, <1>2, ResolvingFacts
  <2>2. h.size = HdrLen[Current]
    BY <1>1, <2>1, PrefixOfPacket
  <2>3. QED
    BY <1>1, <1>2, <2>1, <2>2, ResolvingFacts, PacketFacts
<1>4. CutInv'
  BY <1>1, <1>2, <1>3, ResolvingFacts DEF ExactInv, CutInv, Current, InPrimary, InSecondary
<1>5. FramesExact'
  BY <1>1 DEF ExactInv, FramesExact, Exact
<1>6. QED
  BY <1>1, <1>4, <1>5 DEF ExactInv

\* Once the prefix is complete, the packet's length is known exactly.
LEMMA LengthKnownExact ==
  ASSUME ExactInv, hazards = {}, len # -1,
         NEW n \in 1 .. allowed, NEW h \in Prefixes(From), LengthKnown(n, h),
         BadLength(h) = {}
  PROVE  /\ Current \in Packets
         /\ h.size = HdrLen[Current] /\ h.size + h.len = Total(Current)
         /\ hdr' = HdrLen[Current] /\ TotalLength' = Total(Current) /\ rpos' = hdr'
         /\ wpos' \in Nat /\ wpos' = hdr + n
         /\ n \in Nat /\ hdr \in Nat /\ taken + n = Start[Current] + wpos'
<1>1. /\ phase = "resolve_length" /\ Serving /\ taken + n <= arrived
      /\ wpos' = wpos + n /\ rpos' = rpos + (h.size - hdr) /\ hdr' = h.size /\ len' = h.len
  BY DEF LengthKnown, RecvToPrimary, Recv, Serving
<1>2. n \in Nat \ {0}
  BY DEF ExactInv, BasicInv, TypeOK
<1>3. /\ Current \in Packets /\ From = Start[Current] /\ wpos = hdr /\ rpos = hdr
      /\ hdr \in Nat /\ taken = Start[Current] + hdr
  BY <1>1, <1>2, ResolvingFacts
<1>4. h.size = HdrLen[Current] /\ h.len = Total(Current) - HdrLen[Current]
  BY <1>3, PrefixOfPacket
<1>5. HdrLen[Current] \in Nat /\ Total(Current) \in Nat /\ Start[Current] \in Nat
  BY <1>3, PacketFacts
<1>6. QED
  BY <1>1, <1>2, <1>3, <1>4, <1>5 DEF TotalLength

LEMMA ExactFits ==
  ASSUME ExactInv, BasicInv', hazards' = {}, hazards = {}, len # -1,
         NEW n \in 1 .. allowed, NEW h \in Prefixes(From), ResolveFits(n, h)
  PROVE  ExactInv'
<1>1. LengthKnown(n, h) /\ BadLength(h) = {} /\ ~ (h.len >= 1 /\ allowed' < 0)
  BY DEF ResolveFits
<1>2. /\ allowed' = Total(Current) - wpos' /\ ~ allowed' < 0
      /\ phase' = "copy_to_buffer" /\ target' = target
      /\ UNCHANGED <<arrived, base, frames, fault>>
  <2>1. wpos' = wpos + n
    BY <1>1 DEF LengthKnown, RecvToPrimary
  <2>2. ~ allowed' < 0
    BY <1>1, PrefixBounds DEF BadLength
  <2>3. QED
    BY <1>1, <2>1, <2>2, LengthKnownExact DEF ResolveFits, BytesToRead, clientVars
<1>3. /\ target = "primary" /\ taken + n <= arrived /\ taken' = taken + n /\ Serving
  BY <1>1, LengthKnownFacts DEF ExactInv, Serving
<1>4. PrimarySize \in Nat /\ Total(Current) \in Nat /\ Total(Current) <= PrimarySize
  <2>1. PrimarySize - h.size >= h.len
    BY DEF ResolveFits, FitsPrimary
  <2>2. h.size \in Nat /\ h.len \in Int /\ h.size + h.len = Total(Current)
    BY <1>1, LengthKnownExact, PrefixBounds
  <2>3. PrimarySize \in Nat /\ Total(Current) \in Nat
    BY <1>1, LengthKnownExact, PacketFacts, FramingAssumption DEF FramingAssumption
  <2>4. QED
    BY <2>1, <2>2, <2>3
<1>5. allowed' \in Int /\ allowed' >= 0
  BY <1>1, <1>2, <1>4, LengthKnownExact
<1>6. CutInv'
  BY <1>1, <1>2, <1>3, <1>4, <1>5, LengthKnownExact
     DEF ExactInv, CutInv, Current, InPrimary, InSecondary
<1>7. FramesExact'
  BY <1>2 DEF ExactInv, FramesExact, Exact
<1>8. QED
  BY <1>2, <1>6, <1>7 DEF ExactInv

\* A length that does not fit in primary is no bad one.
LEMMA SpillsLength ==
  ASSUME NEW h \in Prefixes(From), ~ FitsPrimary(h)
  PROVE  BadLength(h) = {}
<1>1. h.size \in Nat /\ h.size <= MaxHeader /\ h.len \in Int
  BY PrefixBounds
<1>2. PrimarySize \in Nat /\ MaxHeader \in Nat /\ PrimarySize > MaxHeader
  BY FramingAssumption DEF FramingAssumption
<1>3. QED
  BY <1>1, <1>2 DEF FitsPrimary, BadLength

LEMMA ExactSpills ==
  ASSUME ExactInv, BasicInv', hazards' = {}, hazards = {}, len # -1,
         NEW n \in 1 .. allowed, NEW h \in Prefixes(From), ResolveSpills(n, h)
  PROVE  ExactInv'
<1>1. LengthKnown(n, h) /\ BadLength(h) = {}
  BY SpillsLength DEF ResolveSpills
<1>2. /\ allowed' = allowed - n /\ allowed' # 0
      /\ phase' = "transition_to_secondary" /\ target' = target
      /\ UNCHANGED <<arrived, base, frames, fault>>
  BY DEF ResolveSpills, clientVars
<1>3. /\ target = "primary" /\ taken + n <= arrived /\ taken' = taken + n /\ Serving
      /\ allowed = PrimarySize - hdr
  BY <1>1, LengthKnownFacts DEF ExactInv, Serving
<1>4. PrimarySize \in Nat
  BY FramingAssumption DEF FramingAssumption
<1>5. allowed' > 0 /\ allowed' = PrimarySize - wpos'
  BY <1>1, <1>2, <1>3, <1>4, LengthKnownExact
<1>6. CutInv'
  BY <1>1, <1>2, <1>3, <1>5, LengthKnownExact
     DEF ExactInv, CutInv, Current, InPrimary, InSecondary
<1>7. FramesExact'
  BY <1>2 DEF ExactInv, FramesExact, Exact
<1>8. QED
  BY <1>2, <1>6, <1>7 DEF ExactInv

\* With the length known, what is left of the packet is known.
LEMMA CopyingFacts ==
  ASSUME ExactInv, hazards = {}, Serving, phase # "resolve_length"
  PROVE  /\ Current \in Packets
         /\ base = Start[Current] /\ From = base
         /\ TotalLength = Total(Current) /\ TotalLength \in Nat
         /\ taken \in Nat /\ base \in Nat /\ wpos \in Nat /\ allowed \in Int
         /\ PrimarySize \in Nat
<1>1. /\ Current \in Packets /\ base = Start[Current] /\ rpos = hdr
      /\ TotalLength = Total(Current)
  BY DEF ExactInv, CutInv
<1>2. hdr \in Nat /\ taken \in Nat /\ wpos \in Nat /\ allowed \in Int
  BY DEF ExactInv, BasicInv, TypeOK
<1>3. PrimarySize \in Nat
  BY FramingAssumption DEF FramingAssumption
<1>4. QED
  BY <1>1, <1>2, <1>3, PacketFacts DEF From

LEMMA ExactTransition ==
  ASSUME ExactInv, BasicInv', hazards' = {}, hazards = {},
         NEW n \in 1 .. allowed, Transition(n)
  PROVE  ExactInv'
<1>1. /\ phase = "transition_to_secondary" /\ Serving /\ target = "primary"
      /\ taken + n <= arrived /\ taken' = taken + n /\ wpos' = wpos + n
      /\ UNCHANGED <<arrived, base, rpos, hdr, len, frames, fault>>
  BY DEF Transition, RecvToPrimary, Recv, Serving, clientVars
<1>2. /\ FillsPrimary(n) /\ allowed' = TotalLength - PrimarySize
      /\ target' = "secondary" /\ phase' = "copy_to_buffer"
  BY DEF Transition
<1>3. /\ allowed = PrimarySize - wpos /\ TotalLength > PrimarySize /\ base + wpos = taken
  BY <1>1 DEF ExactInv, CutInv, BasicInv, CursorInv
<1>4. n \in Nat /\ n = allowed
  BY <1>1, <1>2, CopyingFacts DEF FillsPrimary
<1>5. allowed' >= 0 /\ allowed' = base' + TotalLength' - taken'
  BY <1>1, <1>2, <1>3, <1>4, CopyingFacts DEF TotalLength
<1>6. CutInv'
  BY <1>1, <1>2, <1>5 DEF ExactInv, CutInv, Current, InPrimary, InSecondary, TotalLength
<1>7. FramesExact'
  BY <1>1 DEF ExactInv, FramesExact, Exact
<1>8. QED
  BY <1>1, <1>6, <1>7 DEF ExactInv

LEMMA ExactCopy ==
  ASSUME ExactInv, BasicInv', hazards = {}, NEW n \in 1 .. allowed, CopyToBuffer(n)
  PROVE  ExactInv'
<1>1. /\ phase = "copy_to_buffer" /\ Serving
      /\ taken + n <= arrived /\ taken' = taken + n /\ allowed' = allowed - n
      /\ (target = "primary" /\ wpos' = wpos + n) \/ (target = "secondary" /\ wpos' = wpos)
      /\ UNCHANGED <<arrived, base, rpos, hdr, len, phase, target, frames, fault, hazards>>
  <2>1. CASE RecvToPrimary(n)
    BY <2>1 DEF CopyToBuffer, RecvToPrimary, Recv, Serving, clientVars
  <2>2. CASE target = "secondary" /\ Recv(n) /\ UNCHANGED wpos
    BY <2>2 DEF CopyToBuffer, Recv, Serving, clientVars
  <2>3. QED
    BY <2>1, <2>2 DEF CopyToBuffer
<1>2. n \in Nat /\ allowed' \in Int /\ allowed' >= 0 /\ TotalLength' = TotalLength
  BY <1>1, CopyingFacts DEF TotalLength
<1>3. CASE target = "primary"
  <2>1. TotalLength <= PrimarySize /\ allowed = TotalLength - wpos
    BY <1>1, <1>3 DEF ExactInv, CutInv, InPrimary
  <2>2. allowed' = TotalLength' - wpos'
    BY <1>1, <1>2, <1>3, <2>1, CopyingFacts
  <2>3. CutInv'
    BY <1>1, <1>2, <1>3, <2>1, <2>2 DEF ExactInv, CutInv, Current, InPrimary, InSecondary
  <2>4. QED
    BY <1>1, <2>3 DEF ExactInv, FramesExact, Exact
<1>4. CASE target = "secondary"
  <2>1. allowed = base + TotalLength - taken
    BY <1>1, <1>4 DEF ExactInv, CutInv, InSecondary
  <2>2. allowed' = base' + TotalLength' - taken'
    BY <1>1, <1>2, <2>1, CopyingFacts
  <2>3. CutInv'
    BY <1>1, <1>2, <1>4, <2>2 DEF ExactInv, CutInv, Current, InPrimary, InSecondary
  <2>4. QED
    BY <1>1, <2>3 DEF ExactInv, FramesExact, Exact
<1>5. QED
  BY <1>3, <1>4 DEF ExactInv, BasicInv, TypeOK

\* No write past primary, while no hazard was met.
LEMMA ExactNoOverrun ==
  ASSUME ExactInv, hazards = {}, Overrun
  PROVE  FALSE
<1>1. PICK n \in 1 .. allowed : Recv(n) /\ wpos + n > PrimarySize
  BY DEF Overrun
<1>2. target = "primary" /\ Serving /\ taken + n <= arrived
  BY <1>1 DEF Overrun, Recv, Serving
<1>3. n \in Nat \ {0} /\ n <= allowed /\ allowed \in Int /\ PrimarySize \in Nat /\ wpos \in Nat
  BY FramingAssumption DEF ExactInv, BasicInv, TypeOK, FramingAssumption
<1>4. CASE phase = "resolve_length"
  <2>1. wpos = hdr /\ hdr \in Nat /\ allowed = PrimarySize - hdr
    BY <1>2, <1>3, <1>4, ResolvingFacts
  <2>2. QED
    BY <1>1, <1>3, <2>1
<1>5. CASE phase = "transition_to_secondary"
  <2>1. allowed = PrimarySize - wpos
    BY <1>2, <1>5 DEF ExactInv, CutInv
  <2>2. QED
    BY <1>1, <1>3, <2>1
<1>6. CASE phase = "copy_to_buffer"
  <2>1. TotalLength <= PrimarySize /\ allowed = TotalLength - wpos
    BY <1>2, <1>6 DEF ExactInv, CutInv, InPrimary
  <2>2. TotalLength \in Nat
    BY <1>2, <1>6, CopyingFacts
  <2>3. QED
    BY <1>1, <1>3, <2>1, <2>2
<1>7. QED
  BY <1>4, <1>5, <1>6 DEF ExactInv, BasicInv, TypeOK, Phases

\* ready() means that the whole packet, and no more, was read.
LEMMA ReadyFacts ==
  ASSUME ExactInv, hazards = {}, Serving, Ready
  PROVE  /\ phase = "copy_to_buffer" /\ Current \in Packets
         /\ From = Start[Current] /\ base = Start[Current]
         /\ TotalLength = Total(Current) /\ allowed = 0 /\ hdr = HdrLen[Current]
         /\ taken = Start[Current] + Total(Current)
<1>1. allowed <= 0 /\ allowed \in Int /\ PrimarySize \in Nat /\ MaxHeader \in Nat
      /\ PrimarySize > MaxHeader /\ hdr \in Nat /\ taken \in Nat
  BY FramingAssumption DEF Ready, ExactInv, BasicInv, TypeOK, FramingAssumption
<1>2. phase # "resolve_length"
  <2>1. SUFFICES ASSUME phase = "resolve_length" PROVE FALSE
    OBVIOUS
  <2>2. allowed = PrimarySize - hdr /\ hdr < MaxHeader
    BY <2>1 DEF ExactInv, BasicInv, CursorInv, Serving
  <2>3. QED
    BY <1>1, <2>2
<1>3. phase # "transition_to_secondary"
  BY <1>1 DEF ExactInv, CutInv
<1>4. phase = "copy_to_buffer" /\ hdr = HdrLen[Current]
  BY <1>2, <1>3 DEF ExactInv, CutInv, BasicInv, TypeOK, Phases
<1>5. CASE target = "primary"
  <2>1. allowed >= 0 /\ allowed = TotalLength - wpos /\ base + wpos = taken
    BY <1>4, <1>5 DEF ExactInv, CutInv, InPrimary, BasicInv, CursorInv
  <2>2. QED
    BY <1>1, <1>4, <2>1, CopyingFacts
<1>6. CASE target = "secondary"
  <2>1. allowed >= 0 /\ allowed = base + TotalLength - taken
    BY <1>4, <1>6 DEF ExactInv, CutInv, InSecondary
  <2>2. QED
    BY <1>1, <1>4, <2>1, CopyingFacts
<1>7. QED
  BY <1>5, <1>6 DEF ExactInv, BasicInv, TypeOK

LEMMA ExactNotTruncated ==
  ASSUME ExactInv, hazards = {}, TruncatedRead
  PROVE  FALSE
<1>1. /\ Serving /\ Ready
      /\ taken <= From + hdr \/ taken < From + TotalLength \/ len < 1
  BY DEF TruncatedRead, NoPacketId, Serving
<1>2. /\ Current \in Packets /\ From = Start[Current] /\ TotalLength = Total(Current)
      /\ hdr = HdrLen[Current] /\ taken = Start[Current] + Total(Current)
  BY <1>1, ReadyFacts
<1>3. len = Total(Current) - HdrLen[Current]
  BY <1>2, PacketFacts DEF TotalLength, ExactInv, BasicInv, TypeOK
<1>4. QED
  BY <1>1, <1>2, <1>3, PacketFacts

\* The frame handed to a handler is the packet whose turn it is.
LEMMA DispatchFacts ==
  ASSUME ExactInv, hazards = {}, Dispatch
  PROVE  /\ Current \in Packets
         /\ frames' = Append(frames, [from |-> Start[Current], size |-> Total(Current),
                                      got |-> Total(Current), clean |-> TRUE])
         /\ base' = Start[Current + 1] /\ taken = Start[Current + 1]
         /\ Current' = Current + 1
         /\ rpos' = 0 /\ hdr' = 0 /\ phase' = "resolve_length" /\ target' = "primary"
<1>1. Serving /\ Ready
  BY DEF Dispatch, Serving
<1>2. /\ Current \in Packets /\ Start[Current] \in Nat /\ Total(Current) \in Nat
      /\ Start[Current + 1] \in Nat
      /\ taken = Start[Current] + Total(Current) /\ taken = Start[Current + 1]
  BY <1>1, ReadyFacts, PacketFacts
<1>3. Overflow = 0 /\ NextBase = taken
  BY <1>1, ReadyFacts DEF Overflow, NextBase
<1>4. taken - From = Total(Current)
  BY <1>1, <1>2, ReadyFacts
<1>5. frames' = Append(frames, [from |-> Start[Current], size |-> Total(Current),
                                got |-> Total(Current), clean |-> TRUE])
  BY <1>1, <1>4, ReadyFacts DEF Dispatch
<1>6. Len(frames') = Len(frames) + 1
  BY <1>5 DEF ExactInv, BasicInv, TypeOK
<1>7. QED
  BY <1>2, <1>3, <1>5, <1>6 DEF Dispatch, FeedAt, Current

LEMMA ExactDispatch ==
  ASSUME ExactInv, BasicInv', hazards = {}, Dispatch
  PROVE  ExactInv'
<1>1. /\ arrived' = arrived /\ taken' = taken /\ hazards' = hazards /\ Serving
  BY DEF Dispatch, clientVars, Serving
<1>2. /\ Current \in 1 .. NumPackets + 1 /\ Current \in Packets /\ taken <= arrived
  BY <1>1, DispatchFacts DEF ExactInv, CutInv
<1>3. Current + 1 \in 1 .. NumPackets + 1
  BY <1>2, PacketFacts
<1>4. CutInv'
  <2>1. \A p \in Packets : 0 < HdrLen[p]
    BY PacketFacts
  <2>2. QED
    BY <1>1, <1>2, <1>3, <2>1, DispatchFacts DEF CutInv, InPrimary, InSecondary
<1>5. \A i \in DOMAIN frames' : Exact(i)' /\ frames'[i].clean
  <2>1. SUFFICES ASSUME NEW i \in DOMAIN frames' PROVE Exact(i)' /\ frames'[i].clean
    OBVIOUS
  <2>2. frames \in Seq(Frame) /\ Len(frames) \in Nat
    BY DEF ExactInv, BasicInv, TypeOK
  <2>3. i \in 1 .. Current
    BY <2>1, <2>2, DispatchFacts DEF Current
  <2>4. CASE i = Current
    <3>1. frames'[i] = [from |-> Start[i], size |-> Total(i), got |-> Total(i), clean |-> TRUE]
      BY <2>2, <2>4, DispatchFacts DEF Current
    <3>2. QED
      BY <2>4, <3>1, DispatchFacts DEF Exact
  <2>5. CASE i # Current
    <3>1. i \in DOMAIN frames /\ frames'[i] = frames[i]
      BY <2>2, <2>3, <2>5, DispatchFacts DEF Current
    <3>2. Exact(i) /\ frames[i].clean
      BY <3>1 DEF ExactInv, FramesExact
    <3>3. QED
      BY <3>1, <3>2 DEF Exact
  <2>6. QED
    BY <2>4, <2>5
<1>6. fault' \notin {"primary_overrun", "truncated_read", "bad_copy"}
  <2>1. TotalLength = Total(Current) /\ Current \in Packets
    BY <1>1, ReadyFacts DEF Dispatch
  <2>2. CopiesFromPrimary
    BY <2>1, PacketFacts DEF CopiesFromPrimary
  <2>3. QED
    BY <2>2 DEF Dispatch, FreeSecondary, ExactInv, BasicInv, TypeOK
<1>7. FramesExact'
  BY <1>5, <1>6 DEF FramesExact
<1>8. QED
  BY <1>1, <1>4, <1>5, <1>7 DEF ExactInv

\* The client never runs past the end of its stream.
LEMMA HorizonBound ==
  ASSUME TypeOK
  PROVE  Horizon \in Nat /\ Horizon <= Start[NumPackets + 1]
<1>1. NumPackets \in Nat /\ Window \in Nat /\ Len(frames) \in Nat /\ Window >= 1
  BY FramingAssumption DEF FramingAssumption, TypeOK
<1>2. \A q \in 1 .. NumPackets + 1 : Start[q] \in Nat
  BY FramingAssumption DEF FramingAssumption
<1>3. CASE Len(frames) + Window < NumPackets
  <2>1. Len(frames) + Window + 1 \in Packets /\ NumPackets + 1 \in (Len(frames) + Window + 1) + 1 .. NumPackets + 1
    BY <1>1, <1>3 DEF Packets
  <2>2. Start[Len(frames) + Window + 1] < Start[NumPackets + 1]
    BY <2>1, StartIncreases
  <2>3. Horizon = Start[Len(frames) + Window + 1]
    BY <1>3 DEF Horizon
  <2>4. QED
    BY <1>1, <1>2, <1>3, <2>2, <2>3
<1>4. CASE ~ (Len(frames) + Window < NumPackets)
  BY <1>1, <1>2, <1>4 DEF Horizon
<1>5. QED
  BY <1>3, <1>4

LEMMA ExactStep == ExactInv /\ [Next]_vars => ExactInv'
<1>1. SUFFICES ASSUME ExactInv, [Next]_vars PROVE ExactInv'
  OBVIOUS
<1>2. BasicInv'
  BY <1>1, BasicStep DEF ExactInv
<1>3. CASE Arrive
  <2>1. arrived' \in arrived + 1 .. Horizon
    BY <1>3 DEF Arrive
  <2>2. arrived' >= arrived /\ arrived' <= Start[NumPackets + 1]
    <3>1. Start[NumPackets + 1] \in Nat /\ arrived \in Nat
      BY <1>1, FramingAssumption DEF FramingAssumption, ExactInv, BasicInv, TypeOK
    <3>2. QED
      BY <1>1, <2>1, <3>1, HorizonBound DEF ExactInv, BasicInv
  <2>3. QED
    BY <1>1, <1>2, <1>3, <2>2, ExactUntouched DEF Arrive, Serving
<1>4. CASE Hangup \/ NotReady \/ UNCHANGED vars
  <2>1. arrived' = arrived /\ arrived' >= arrived /\ arrived' <= Start[NumPackets + 1]
    BY <1>1, <1>4 DEF Hangup, NotReady, clientVars, vars, ExactInv, BasicInv, TypeOK
  <2>2. Serving' => Serving
    BY <1>4 DEF Hangup, NotReady, vars, Serving
  <2>3. QED
    BY <1>1, <1>2, <1>4, <2>1, <2>2, ExactUntouched DEF Hangup, NotReady, vars, clientVars
<1>5. CASE Worker /\ hazards' # {}
  <2>1. arrived' = arrived
    BY <1>5 DEF Worker, ResolveLength, ResolvePartial, ResolveMinusOne, ResolveFits,
                ResolveSpills, AfterMinusOne, Transition, CopyToBuffer, Overrun, Malformed, RecvFails, ReadyOnFreed, NotReady,
                TruncatedRead, Dispatch, clientVars
  <2>2. QED
    BY <1>1, <1>2, <1>5, <2>1, ExactAfterHazard
<1>6. CASE Worker /\ hazards' = {}
  <2>1. hazards = {}
    BY <1>6 DEF Worker, ResolveLength, ResolvePartial, ResolveMinusOne, ResolveFits,
                ResolveSpills, AfterMinusOne, Transition, CopyToBuffer, Overrun, Malformed, RecvFails, ReadyOnFreed, NotReady,
                TruncatedRead, Dispatch
  <2>2. CASE ResolveLength
    <3>1. ASSUME NEW n, NEW h, ResolveMinusOne(n, h) PROVE FALSE
      BY <1>6, <3>1 DEF ResolveMinusOne, BadLength
    <3>2. QED
      BY <1>1, <1>2, <1>6, <2>1, <2>2, <3>1, ExactPartial, ExactFits, ExactSpills
         DEF ResolveLength
  <2>3. CASE \E n \in 1 .. allowed : AfterMinusOne(n) \/ Transition(n) \/ CopyToBuffer(n)
    <3>1. ASSUME NEW n \in 1 .. allowed, AfterMinusOne(n) PROVE FALSE
      BY <1>1, <2>1, <3>1
         DEF AfterMinusOne, RecvToPrimary, Recv, ExactInv, BasicInv, CursorInv, Serving
    <3>2. QED
      BY <1>1, <1>2, <1>6, <2>1, <2>3, <3>1, ExactTransition, ExactCopy
  <2>4. CASE Overrun
    BY <1>1, <2>1, <2>4, ExactNoOverrun
  <2>5. CASE Malformed \/ RecvFails \/ ReadyOnFreed
    <3>1. arrived' = arrived /\ ~ Serving' /\ UNCHANGED <<frames, hazards>>
      BY <2>5 DEF Malformed, RecvFails, ReadyOnFreed, clientVars, Serving
    <3>2. fault' \notin {"primary_overrun", "truncated_read", "bad_copy"}
      <4>1. CASE Malformed
        BY <4>1 DEF Malformed, RecvToPrimary, Recv
      <4>2. CASE RecvFails
        BY <4>2 DEF RecvFails
      <4>3. CASE ReadyOnFreed
        BY <4>3 DEF ReadyOnFreed
      <4>4. QED
        BY <2>5, <4>1, <4>2, <4>3
    <3>3. QED
      BY <1>1, <1>2, <3>1, <3>2, ExactStops
  <2>6. CASE NotReady
    BY <1>4, <2>6
  <2>7. CASE TruncatedRead
    BY <1>1, <2>1, <2>7, ExactNotTruncated
  <2>8. CASE Dispatch
    BY <1>1, <1>2, <2>1, <2>8, ExactDispatch
  <2>9. QED
    BY <1>6, <2>2, <2>3, <2>4, <2>5, <2>6, <2>7, <2>8 DEF Worker
<1>7. QED
  BY <1>1, <1>3, <1>4, <1>5, <1>6 DEF Next

\* Until a hazard is met, the connection's offsets point exactly at the packet
\* being received, and all packets before it have been handled.
THEOREM ExactInvariant == Spec => []ExactInv
<1>1. Init => ExactInv
  BY ExactInit
<1>2. ExactInv /\ [Next]_vars => ExactInv'
  BY ExactStep
<1>3. QED
  BY <1>1, <1>2, PTL DEF Spec

\* While the worker waits, some byte of the next packet has not been read.
LEMMA MoreToCome ==
  ASSUME ExactInv, hazards = {}, fault = "none", pc = "epoll", Current \in Packets
  PROVE  taken < Start[Current + 1]
<1>1. /\ base = Start[Current] /\ rpos = hdr /\ allowed > 0 /\ Serving
      /\ target = "primary" => base + wpos = taken
  BY DEF ExactInv, CutInv, BasicInv, CursorInv, Serving
<1>2. /\ Start[Current] \in Nat /\ Total(Current) \in Nat
      /\ Start[Current + 1] = Start[Current] + Total(Current)
      /\ HdrLen[Current] \in Nat /\ HdrLen[Current] < Total(Current)
  <2>1. /\ Start[Current] \in Nat /\ Start[Current + 1] \in Nat /\ Total(Current) \in Nat
        /\ HdrLen[Current] \in Nat /\ Start[Current] + HdrLen[Current] < Start[Current + 1]
        /\ Total(Current) = Start[Current + 1] - Start[Current]
    BY PacketFacts
  <2>2. QED
    BY <2>1
<1>3. /\ taken \in Nat /\ wpos \in Nat /\ hdr \in Nat /\ allowed \in Int
      /\ phase \in Phases /\ target \in {"primary", "secondary"} /\ PrimarySize \in Nat
  BY FramingAssumption DEF ExactInv, BasicInv, TypeOK, FramingAssumption
<1>4. CASE phase = "resolve_length"
  <2>1. target = "primary" /\ rpos = wpos /\ hdr < HdrLen[Current]
    BY <1>1, <1>4 DEF ExactInv, BasicInv, CursorInv, CutInv
  <2>2. From = base
    BY <1>1, <1>2, <1>3 DEF From
  <2>3. QED
    BY <1>1, <1>2, <1>3, <2>1, <2>2
<1>5. CASE phase = "transition_to_secondary"
  <2>1. target = "primary" /\ TotalLength > PrimarySize /\ TotalLength = Total(Current)
    BY <1>1, <1>5 DEF ExactInv, BasicInv, CursorInv, CutInv
  <2>2. allowed = PrimarySize - wpos
    BY <1>1, <1>5 DEF ExactInv, CutInv
  <2>3. QED
    BY <1>1, <1>2, <1>3, <2>1, <2>2
<1>6. CASE phase = "copy_to_buffer"
  <2>1. TotalLength = Total(Current)
    BY <1>1, <1>6 DEF ExactInv, CutInv
  <2>2. CASE target = "primary"
    <3>1. allowed = TotalLength - wpos
      BY <1>1, <1>6, <2>2 DEF ExactInv, CutInv, InPrimary
    <3>2. QED
      BY <1>1, <1>2, <1>3, <2>1, <2>2, <3>1
  <2>3. CASE target = "secondary"
    <3>1. allowed = base + TotalLength - taken
      BY <1>1, <1>6, <2>3 DEF ExactInv, CutInv, InSecondary
    <3>2. QED
      BY <1>1, <1>2, <1>3, <2>1, <3>1
  <2>4. QED
    BY <1>3, <2>2, <2>3
<1>7. QED
  BY <1>3, <1>4, <1>5, <1>6 DEF Phases

\* All that has arrived completely was handled, once the worker has read all there is.
LEMMA NothingIsLeft ==
  ASSUME ExactInv
  PROVE  NothingLeft
<1> SUFFICES ASSUME hazards = {}, fault = "none", pc = "epoll", taken = arrived,
                    NEW p \in Packets, arrived >= Start[p + 1], ~ p <= Len(frames)
             PROVE  FALSE
  BY DEF NothingLeft
<1>1. p \in Nat /\ NumPackets \in Nat /\ p \in 1 .. NumPackets /\ Len(frames) \in Nat /\ arrived \in Nat
  BY FramingAssumption DEF Packets, ExactInv, BasicInv, TypeOK, FramingAssumption
<1>2. Current \in Packets /\ Current <= p
  BY <1>1 DEF Current, Packets
<1>3. taken < Start[Current + 1]
  BY <1>2, MoreToCome
<1>4. Start[Current + 1] <= Start[p + 1] /\ Start[Current + 1] \in Nat /\ Start[p + 1] \in Nat
  <2>1. Start[Current + 1] \in Nat /\ Start[p + 1] \in Nat
    BY <1>2, PacketFacts
  <2>2. CASE Current = p
    BY <2>1, <2>2
  <2>3. CASE Current # p
    <3>1. Current + 1 \in Packets /\ p + 1 \in Current + 1 + 1 .. NumPackets + 1
      BY <1>1, <1>2, <2>3 DEF Packets
    <3>2. Start[Current + 1] < Start[p + 1]
      BY <3>1, StartIncreases
    <3>3. QED
      BY <2>1, <3>2
  <2>4. QED
    BY <2>2, <2>3
<1>5. QED
  BY <1>1, <1>3, <1>4

\* Whatever the buffer size, the packets and the way TCP cuts the stream: as
\* long as none of the hazardous read patterns is met, the handlers get
\* the client's packets exactly, no access leaves the buffers, and no packet
\* that has arrived waits for the next one.
THEOREM PacketsExact == Spec => []ExactUnlessHazard
<1>1. ExactInv => ExactUnlessHazard
  BY NothingIsLeft DEF ExactInv, ExactUnlessHazard
<1>2. QED
  BY <1>1, ExactInvariant, PTL
------------------------------------------------------------------------------
(* What the faults of the buffers take. *)

\* None of the patterns that lead outside primary has been met.
NoOverread == hazards \cap {"read_ahead", "short_fill", "bad_length"} = {}

\* recv() is never allowed more than what is left of primary.
RoomInv ==
  Serving /\ NoOverread =>
    /\ allowed >= 0
    /\ phase = "resolve_length" => wpos = hdr
    /\ target = "primary" => wpos + allowed <= PrimarySize

LongHandled == \E i \in DOMAIN frames : frames[i].size > PrimarySize

\* The secondary buffer belongs to a long packet, handled or being received.
SpillInv ==
  Serving /\ sec # "null" =>
    \/ LongHandled
    \/ InSecondary /\ TotalLength > PrimarySize

FaultInv ==
  /\ BasicInv
  /\ RoomInv /\ OverrunNeedsHazard /\ BadCopyNeedsLength
  /\ SpillInv /\ BadFreeNeedsSpill

LEMMA FaultInit ==
  Init => RoomInv /\ OverrunNeedsHazard /\ BadCopyNeedsLength /\ SpillInv /\ BadFreeNeedsSpill
  BY FramingAssumption
     DEF Init, RoomInv, OverrunNeedsHazard, BadCopyNeedsLength, SpillInv, BadFreeNeedsSpill, FramingAssumption

LEMMA RoomFits ==
  ASSUME BasicInv, RoomInv, len # -1,
         NEW n \in 1 .. allowed, NEW h \in Prefixes(From), ResolveFits(n, h)
  PROVE  RoomInv'
<1>1. LengthKnown(n, h)
  BY DEF ResolveFits
<1>2. /\ allowed' = (h.size + h.len) - (wpos + n) /\ phase' = "copy_to_buffer"
      /\ PrimarySize - h.size >= h.len /\ target' = target
      /\ h.len < 1 => "bad_length" \in hazards'
      /\ h.len >= 1 /\ allowed' < 0 => "read_ahead" \in hazards'
  BY DEF ResolveFits, BytesToRead, FitsPrimary, BadLength
<1>3. /\ wpos' = wpos + n /\ h.size \in Nat /\ h.len \in Int /\ n \in Nat /\ wpos \in Nat
      /\ PrimarySize \in Nat
  BY PrefixBounds, <1>1, LengthKnownFacts, FramingAssumption DEF FramingAssumption, BasicInv, TypeOK
<1>4. wpos' + allowed' <= PrimarySize /\ allowed' \in Int
  BY <1>2, <1>3
<1>5. NoOverread' => allowed' >= 0
  BY <1>2, <1>3, <1>4 DEF NoOverread
<1>6. QED
  BY <1>2, <1>4, <1>5 DEF RoomInv

LEMMA RoomSpills ==
  ASSUME BasicInv, RoomInv, len # -1,
         NEW n \in 1 .. allowed, NEW h \in Prefixes(From), ResolveSpills(n, h)
  PROVE  RoomInv'
<1>1. LengthKnown(n, h) /\ allowed' = allowed - n /\ phase' = "transition_to_secondary"
  BY DEF ResolveSpills
<1>2. hazards \subseteq hazards' /\ target' = target
  BY DEF ResolveSpills
<1>3. /\ Serving /\ target = "primary" /\ wpos' = wpos + n /\ n \in Nat /\ n <= allowed
      /\ wpos \in Nat /\ allowed \in Int /\ PrimarySize \in Nat
  BY <1>1, LengthKnownFacts, FramingAssumption DEF FramingAssumption, BasicInv, TypeOK, Serving
<1>4. NoOverread' => wpos + allowed <= PrimarySize
  BY <1>2, <1>3 DEF RoomInv, NoOverread
<1>5. QED
  BY <1>1, <1>3, <1>4 DEF RoomInv

LEMMA RoomPartial ==
  ASSUME BasicInv, RoomInv, len # -1,
         NEW n \in 1 .. allowed, NEW h \in Prefixes(From), ResolvePartial(n, h)
  PROVE  RoomInv'
<1>1. /\ phase = "resolve_length" /\ Serving /\ target = "primary" /\ target' = target
      /\ wpos' = wpos + n /\ hdr' = hdr + (wpos + n - rpos) /\ allowed' = allowed - n
      /\ hazards \subseteq hazards'
  BY DEF ResolvePartial, RecvToPrimary, Recv, Serving
<1>2. /\ n \in Nat /\ n <= allowed /\ wpos \in Nat /\ hdr \in Nat /\ allowed \in Int
      /\ PrimarySize \in Nat /\ rpos = wpos
  BY <1>1, FramingAssumption DEF FramingAssumption, BasicInv, TypeOK, CursorInv
<1>3. QED
  BY <1>1, <1>2 DEF RoomInv, NoOverread

LEMMA RoomMinusOne ==
  ASSUME BasicInv, RoomInv, NEW n, NEW h,
         ResolveMinusOne(n, h) \/ AfterMinusOne(n)
  PROVE  RoomInv'
<1>1. CASE ResolveMinusOne(n, h)
  BY <1>1 DEF ResolveMinusOne, BadLength, RoomInv, NoOverread
<1>2. CASE AfterMinusOne(n)
  BY <1>2
     DEF AfterMinusOne, RecvToPrimary, Recv, BasicInv, CursorInv, RoomInv, NoOverread, Serving
<1>3. QED
  BY <1>1, <1>2

LEMMA RoomTransition ==
  ASSUME BasicInv, RoomInv, NEW n \in 1 .. allowed, Transition(n)
  PROVE  RoomInv'
<1>1. /\ phase = "transition_to_secondary" /\ Serving /\ len' = len /\ hdr' = hdr
  BY DEF Transition, RecvToPrimary, Recv, Serving
<1>2. TotalLength > PrimarySize /\ TotalLength \in Int /\ PrimarySize \in Nat
  BY <1>1, FramingAssumption DEF FramingAssumption, BasicInv, TypeOK, CursorInv, TotalLength
<1>3. CASE "short_fill" \in hazards'
  BY <1>3 DEF RoomInv, NoOverread
<1>4. CASE "short_fill" \notin hazards'
  <2>1. allowed' = TotalLength - PrimarySize /\ target' = "secondary" /\ phase' = "copy_to_buffer"
    BY <1>4 DEF Transition
  <2>2. allowed' >= 0
    BY <1>2, <2>1
  <2>3. QED
    BY <2>1, <2>2 DEF RoomInv
<1>5. QED
  BY <1>3, <1>4

LEMMA RoomCopy ==
  ASSUME BasicInv, RoomInv, NEW n \in 1 .. allowed, CopyToBuffer(n)
  PROVE  RoomInv'
<1>1. /\ phase' = "copy_to_buffer" /\ Serving /\ allowed' = allowed - n /\ target' = target
      /\ hazards' = hazards
  BY DEF CopyToBuffer, RecvToPrimary, Recv, Serving
<1>2. target = "primary" => wpos' = wpos + n
  BY DEF CopyToBuffer, RecvToPrimary
<1>3. n \in Nat /\ n <= allowed /\ wpos \in Nat /\ allowed \in Int /\ PrimarySize \in Nat
  BY FramingAssumption DEF FramingAssumption, BasicInv, TypeOK
<1>4. QED
  BY <1>1, <1>2, <1>3 DEF RoomInv, NoOverread

\* The next packet starts at the front of primary, unless bytes of it were read.
LEMMA RoomDispatch ==
  ASSUME BasicInv, RoomInv, Dispatch
  PROVE  RoomInv'
<1>1. /\ Serving /\ allowed <= 0 /\ wpos' = Overflow /\ hdr' = 0 /\ allowed' = PrimarySize
      /\ hazards' = hazards /\ allowed \in Int /\ PrimarySize \in Nat
  BY FramingAssumption
     DEF Dispatch, Serving, Ready, FeedAt, BasicInv, TypeOK, FramingAssumption
<1>2. NoOverread' => wpos' = 0
  BY <1>1 DEF RoomInv, NoOverread, Overflow
<1>3. QED
  BY <1>1, <1>2 DEF RoomInv

LEMMA RoomStep ==
  BasicInv /\ RoomInv /\ OverrunNeedsHazard /\ [Next]_vars => RoomInv' /\ OverrunNeedsHazard'
<1>1. SUFFICES ASSUME BasicInv, RoomInv, OverrunNeedsHazard, [Next]_vars
               PROVE  RoomInv' /\ OverrunNeedsHazard'
  OBVIOUS
<1>2. CASE Overrun
  <2>1. PICK n \in 1 .. allowed : Recv(n) /\ wpos + n > PrimarySize
    BY <1>2 DEF Overrun
  <2>2. /\ Serving /\ target = "primary" /\ hazards' = hazards /\ fault' = "primary_overrun"
        /\ wpos \in Nat /\ allowed \in Int /\ n \in Nat /\ n <= allowed /\ PrimarySize \in Nat
    BY <1>1, <1>2, <2>1, FramingAssumption
       DEF Overrun, Recv, Serving, FramingAssumption, BasicInv, TypeOK
  <2>3. ~ NoOverread
    BY <1>1, <2>1, <2>2 DEF RoomInv
  <2>4. RoomInv'
    BY <2>2 DEF RoomInv, Serving
  <2>5. QED
    BY <2>2, <2>3, <2>4 DEF OverrunNeedsHazard, NoOverread
<1>3. CASE ~ Overrun
  <2>1. OverrunNeedsHazard'
    <3>1. ASSUME fault' = "primary_overrun"
          PROVE  fault = "primary_overrun" /\ hazards' = hazards
      <4>1. ~ ResolveLength
        BY <3>1 DEF ResolveLength, ResolvePartial, ResolveMinusOne, ResolveFits, ResolveSpills,
                    LengthKnown, RecvToPrimary, Recv
      <4>2. ~ \E n \in 1 .. allowed : AfterMinusOne(n) \/ Transition(n) \/ CopyToBuffer(n)
        BY <3>1 DEF AfterMinusOne, Transition, CopyToBuffer, RecvToPrimary, Recv
      <4>3. ~ (Malformed \/ RecvFails \/ ReadyOnFreed \/ NotReady \/ TruncatedRead)
        BY <3>1 DEF Malformed, RecvToPrimary, Recv, RecvFails, ReadyOnFreed, NotReady, TruncatedRead
      <4>4. ~ Dispatch
        BY <1>1, <3>1 DEF Dispatch, FreeSecondary, BasicInv, TypeOK
      <4>5. CASE Arrive \/ Hangup \/ UNCHANGED vars
        BY <3>1, <4>5 DEF Arrive, Hangup, vars
      <4>6. QED
        BY <1>1, <1>3, <4>1, <4>2, <4>3, <4>4, <4>5 DEF Next, Worker
    <3>2. QED
      BY <1>1, <3>1 DEF OverrunNeedsHazard
  <2>2. CASE ResolveLength
    BY <1>1, <2>1, <2>2, RoomPartial, RoomMinusOne, RoomFits, RoomSpills DEF ResolveLength
  <2>3. CASE \E n \in 1 .. allowed : AfterMinusOne(n) \/ Transition(n) \/ CopyToBuffer(n)
    BY <1>1, <2>1, <2>3, RoomMinusOne, RoomTransition, RoomCopy
  <2>4. CASE Malformed \/ RecvFails \/ ReadyOnFreed \/ TruncatedRead
    BY <2>1, <2>4 DEF Malformed, RecvFails, ReadyOnFreed, TruncatedRead, RoomInv, Serving
  <2>5. CASE Dispatch
    BY <1>1, <2>1, <2>5, RoomDispatch
  <2>6. CASE Arrive \/ Hangup \/ NotReady \/ UNCHANGED vars
    <3>1. /\ UNCHANGED <<wpos, hdr, allowed, phase, target, hazards>>
          /\ Serving' => Serving
      BY <2>6 DEF Arrive, Hangup, NotReady, vars, Serving
    <3>2. QED
      BY <1>1, <2>1, <3>1 DEF RoomInv, NoOverread
  <2>7. QED
    BY <1>1, <1>3, <2>2, <2>3, <2>4, <2>5, <2>6 DEF Next, Worker
<1>4. QED
  BY <1>2, <1>3

\* reset() computes a place in front of primary only from a negative length.
LEMMA BadCopyStep ==
  BasicInv /\ BadCopyNeedsLength /\ [Next]_vars => BadCopyNeedsLength'
<1>1. SUFFICES ASSUME BasicInv, BadCopyNeedsLength, [Next]_vars, fault' = "bad_copy"
               PROVE  "bad_length" \in hazards'
  BY DEF BadCopyNeedsLength
<1>2. CASE Dispatch
  <2>1. hdr \in Nat /\ len \in Int /\ (len < 0 => "bad_length" \in hazards)
    BY <1>1, <1>2 DEF Dispatch, BasicInv, TypeOK, CursorInv, Serving
  <2>2. TotalLength < 0 \/ CopiesFromPrimary
    BY <2>1 DEF TotalLength, CopiesFromPrimary
  <2>3. CASE CopiesFromPrimary
    BY <1>1, <1>2, <2>3 DEF Dispatch, FreeSecondary, BasicInv, TypeOK
  <2>4. QED
    BY <1>2, <2>1, <2>2, <2>3 DEF Dispatch, TotalLength
<1>3. CASE ~ Dispatch
  <2>1. fault = "bad_copy" /\ hazards \subseteq hazards'
    BY <1>1, <1>3
       DEF Next, Worker, Arrive, Hangup, ResolveLength, ResolvePartial, ResolveMinusOne,
           ResolveFits, ResolveSpills, LengthKnown, AfterMinusOne, Transition, CopyToBuffer,
           RecvToPrimary, Recv, Overrun, Malformed, RecvFails, ReadyOnFreed, NotReady,
           TruncatedRead, vars
  <2>2. QED
    BY <1>1, <2>1 DEF BadCopyNeedsLength
<1>4. QED
  BY <1>2, <1>3

LEMMA SpillDispatch ==
  ASSUME BasicInv, SpillInv, Dispatch
  PROVE  sec # "null" => LongHandled'
<1>1. SUFFICES ASSUME sec # "null" PROVE LongHandled'
  OBVIOUS
<1>2. PICK f : f.size = TotalLength /\ frames' = Append(frames, f)
  BY DEF Dispatch
<1>3. frames \in Seq(Frame) /\ Len(frames) \in Nat
  BY DEF BasicInv, TypeOK
<1>4. /\ DOMAIN frames = 1 .. Len(frames) /\ DOMAIN frames' = 1 .. Len(frames) + 1
      /\ \A i \in DOMAIN frames : frames'[i] = frames[i]
      /\ frames'[Len(frames) + 1] = f
  BY <1>2, <1>3
<1>5. LongHandled \/ TotalLength > PrimarySize
  BY <1>1 DEF SpillInv, Dispatch, Serving
<1>6. QED
  BY <1>2, <1>3, <1>4, <1>5 DEF LongHandled

LEMMA SpillStep ==
  BasicInv /\ SpillInv /\ BadFreeNeedsSpill /\ [Next]_vars => SpillInv' /\ BadFreeNeedsSpill'
<1>1. SUFFICES ASSUME BasicInv, SpillInv, BadFreeNeedsSpill, [Next]_vars
               PROVE  SpillInv' /\ BadFreeNeedsSpill'
  OBVIOUS
<1>2. CASE Dispatch
  <2>1. sec # "null" => LongHandled'
    BY <1>1, <1>2, SpillDispatch
  <2>2. sec = "null" => sec' = "null" /\ fault' \in {"none", "bad_copy"}
    BY <1>2 DEF Dispatch, FreeSecondary
  <2>3. QED
    BY <2>1, <2>2 DEF SpillInv, BadFreeNeedsSpill, LongHandled
<1>3. CASE ~ Dispatch
  <2>1. /\ frames' = frames
        /\ fault' \in {"invalid_free", "double_free"} => fault' = fault
    BY <1>1, <1>3
       DEF Next, Worker, Arrive, Hangup, ResolveLength, ResolvePartial, ResolveMinusOne,
           ResolveFits, ResolveSpills, LengthKnown, AfterMinusOne, Transition, CopyToBuffer,
           RecvToPrimary, Recv, Overrun, Malformed, RecvFails, ReadyOnFreed, NotReady, TruncatedRead, vars
  <2>2. BadFreeNeedsSpill'
    BY <1>1, <2>1 DEF BadFreeNeedsSpill
  <2>3. CASE ResolveLength
    <3>1. /\ Serving /\ phase = "resolve_length" /\ sec' = sec
      BY <2>3 DEF ResolveLength, ResolvePartial, ResolveMinusOne, ResolveFits, ResolveSpills,
                  LengthKnown, RecvToPrimary, Recv, Serving
    <3>2. QED
      BY <1>1, <2>1, <2>2, <3>1 DEF SpillInv, InSecondary, LongHandled
  <2>4. CASE \E n \in 1 .. allowed : Transition(n)
    <3>1. PICK n \in 1 .. allowed : Transition(n)
      BY <2>4
    <3>2. Serving /\ phase = "transition_to_secondary" /\ len' = len /\ hdr' = hdr
      BY <3>1 DEF Transition, RecvToPrimary, Recv, Serving
    <3>3. TotalLength' > PrimarySize
      BY <1>1, <3>2 DEF BasicInv, CursorInv, TotalLength
    <3>4. sec' = sec \/ InSecondary'
      BY <3>1 DEF Transition, InSecondary
    <3>5. QED
      BY <1>1, <2>1, <2>2, <3>2, <3>3, <3>4 DEF SpillInv, InSecondary, LongHandled
  <2>5. CASE \/ \E n \in 1 .. allowed : CopyToBuffer(n)
             \/ Arrive \/ Hangup \/ NotReady \/ UNCHANGED vars
    <3>1. UNCHANGED <<hdr, len, phase, target, sec>> /\ (Serving' => Serving)
      BY <2>5 DEF CopyToBuffer, RecvToPrimary, Recv, Arrive, Hangup, NotReady, vars, Serving
    <3>2. QED
      BY <1>1, <2>1, <2>2, <3>1 DEF SpillInv, InSecondary, TotalLength, LongHandled
  <2>6. CASE Overrun \/ Malformed \/ RecvFails \/ ReadyOnFreed \/ TruncatedRead
    BY <2>2, <2>6
       DEF Overrun, Malformed, RecvFails, ReadyOnFreed, TruncatedRead, SpillInv, Serving
  <2>7. CASE \E n \in 1 .. allowed : AfterMinusOne(n)
    <3>1. Serving /\ phase = "resolve_length" /\ sec' = sec
      BY <2>7 DEF AfterMinusOne, RecvToPrimary, Recv, Serving
    <3>2. QED
      BY <1>1, <2>1, <2>2, <3>1 DEF SpillInv, InSecondary, LongHandled
  <2>8. QED
    BY <1>1, <1>3, <2>3, <2>4, <2>5, <2>6, <2>7 DEF Next, Worker
<1>4. QED
  BY <1>2, <1>3

\* Whatever the client sends and however TCP cuts it: a write behind primary
\* takes a read into the next packet, a short read in transition_to_secondary or a
\* length below 1, a copy from in front of primary takes a length below 1, and a bad
\* free takes a packet longer than primary.
THEOREM BufferFaultsNeedPattern == Spec => []FaultsNeedPattern
<1>1. Init => FaultInv
  BY BasicInit, FaultInit DEF FaultInv
<1>2. FaultInv /\ [Next]_vars => FaultInv'
  BY BasicStep, RoomStep, BadCopyStep, SpillStep DEF FaultInv
<1>3. FaultInv => FaultsNeedPattern
  BY DEF FaultInv, FaultsNeedPattern
<1>4. QED
  BY <1>1, <1>2, <1>3, PTL DEF Spec
------------------------------------------------------------------------------
(* Where recv() stops. *)

LEMMA ReadsEndStep ==
  ASSUME ExactInv, Next, hazards = {}, phase # "resolve_length"
  PROVE  taken' = taken \/ taken' <= From + TotalLength
<1>1. CASE \E n \in 1 .. allowed : Transition(n)
  <2>1. PICK n \in 1 .. allowed : Transition(n)
    BY <1>1
  <2>2. /\ Serving /\ phase = "transition_to_secondary" /\ target = "primary"
        /\ taken' = taken + n
    BY <2>1 DEF Transition, RecvToPrimary, Recv, Serving
  <2>3. allowed = PrimarySize - wpos /\ TotalLength > PrimarySize /\ base + wpos = taken
    BY <2>2 DEF ExactInv, CutInv, BasicInv, CursorInv
  <2>4. n \in Nat /\ n <= allowed
    BY CopyingFacts, <2>2
  <2>5. QED
    BY <2>2, <2>3, <2>4, CopyingFacts
<1>2. CASE \E n \in 1 .. allowed : CopyToBuffer(n)
  <2>1. PICK n \in 1 .. allowed : CopyToBuffer(n)
    BY <1>2
  <2>2. Serving /\ phase = "copy_to_buffer" /\ taken' = taken + n
    BY <2>1 DEF CopyToBuffer, RecvToPrimary, Recv, Serving
  <2>3. n \in Nat /\ n <= allowed
    BY CopyingFacts, <2>2
  <2>4. CASE target = "primary"
    <3>1. allowed = TotalLength - wpos /\ base + wpos = taken
      BY <2>2, <2>4 DEF ExactInv, CutInv, BasicInv, CursorInv, InPrimary
    <3>2. QED
      BY <2>2, <2>3, <3>1, CopyingFacts
  <2>5. CASE target = "secondary"
    <3>1. allowed = base + TotalLength - taken
      BY <2>2, <2>5 DEF ExactInv, CutInv, InSecondary
    <3>2. QED
      BY <2>2, <2>3, <3>1, CopyingFacts
  <2>6. QED
    BY <2>4, <2>5 DEF ExactInv, BasicInv, TypeOK
<1>3. CASE Overrun
  BY <1>3, ExactNoOverrun
<1>4. CASE ~ (\E n \in 1 .. allowed : Transition(n) \/ CopyToBuffer(n)) /\ ~ Overrun
  BY <1>4 DEF Next, Worker, Arrive, Hangup, ResolveLength, ResolvePartial, ResolveMinusOne,
              ResolveFits, ResolveSpills, LengthKnown, AfterMinusOne, Malformed, RecvFails,
              ReadyOnFreed, NotReady, TruncatedRead, Dispatch
<1>5. QED
  BY <1>1, <1>2, <1>3, <1>4

\* Once the length is known, and until a hazard is met, recv() takes no byte of
\* the next packet: bytes_allowed ends where the packet does.
THEOREM ReadsStopAtPacketEnd == Spec => ReadsEndWithPacket
<1>1. ExactInv /\ [Next]_vars =>
        [phase # "resolve_length" /\ hazards = {} => taken' <= From + TotalLength]_taken
  BY ReadsEndStep DEF vars
<1>2. QED
  BY <1>1, ExactInvariant, PTL DEF Spec, ReadsEndWithPacket
------------------------------------------------------------------------------
(* The worker's loop ends. *)

\* What the worker can still do with this connection before more has to arrive.
WorkLeft ==
  2 * (Start[NumPackets + 1] - taken)
    + (CASE pc = "ready" -> 3 [] pc = "epoll" -> 2 [] pc = "freed" -> 1 [] pc = "gone" -> 0)
    + (IF fault = "none" THEN 1 ELSE 0)

\* Every step of the worker leaves it less to do.
WorkerEnds == [][Worker => WorkLeft' \in Nat /\ WorkLeft' < WorkLeft]_vars

\* What is read has arrived, and what arrives was written.
UnreadInv == BasicInv /\ taken <= arrived /\ arrived <= Start[NumPackets + 1]

\* A step of the worker reads at least a byte, or goes on in the loop.
LEMMA WorkerSteps ==
  ASSUME BasicInv, Worker
  PROVE  /\ arrived' = arrived
         /\ \/ /\ \E n \in Nat \ {0} : taken' = taken + n /\ taken + n <= arrived
               /\ pc = "epoll" /\ pc' \in {"ready", "gone"} /\ fault = "none"
            \/ /\ taken' = taken /\ fault = "none"
               /\ \/ pc = "epoll" /\ pc' = "freed"
                  \/ pc = "freed" /\ pc' = "gone"
                  \/ pc = "ready" /\ pc' = "epoll"
                  \/ pc = "ready" /\ pc' = pc /\ fault' = "truncated_read"
<1>1. ASSUME NEW n \in 1 .. allowed, Recv(n)
      PROVE  /\ \E k \in Nat \ {0} : taken' = taken + k /\ taken + k <= arrived
             /\ pc = "epoll" /\ fault = "none"
  <2>1. allowed \in Int
    BY DEF BasicInv, TypeOK
  <2>2. n \in Nat \ {0}
    BY <2>1
  <2>3. QED
    BY <1>1, <2>2 DEF Recv
<1>2. CASE ResolveLength
  <2>1. PICK n \in 1 .. allowed, h \in Prefixes(From) :
          \/ ResolvePartial(n, h) \/ ResolveMinusOne(n, h)
          \/ ResolveFits(n, h) \/ ResolveSpills(n, h)
    BY <1>2 DEF ResolveLength
  <2>2. Recv(n) /\ pc' = "ready" /\ arrived' = arrived
    BY <2>1 DEF ResolvePartial, ResolveMinusOne, ResolveFits, ResolveSpills, LengthKnown,
                RecvToPrimary, clientVars
  <2>3. QED
    BY <1>1, <2>2
<1>3. CASE \E n \in 1 .. allowed : AfterMinusOne(n) \/ Transition(n) \/ CopyToBuffer(n)
  <2>1. PICK n \in 1 .. allowed : AfterMinusOne(n) \/ Transition(n) \/ CopyToBuffer(n)
    BY <1>3
  <2>2. Recv(n) /\ pc' = "ready" /\ arrived' = arrived
    BY <2>1 DEF AfterMinusOne, Transition, CopyToBuffer, RecvToPrimary, clientVars
  <2>3. QED
    BY <1>1, <2>2
<1>4. CASE Overrun
  <2>1. PICK n \in 1 .. allowed : Recv(n)
    BY <1>4 DEF Overrun
  <2>2. pc' = "ready" /\ arrived' = arrived
    BY <1>4 DEF Overrun, clientVars
  <2>3. QED
    BY <1>1, <2>1, <2>2
<1>5. CASE Malformed
  <2>1. PICK n \in 1 .. allowed : Recv(n)
    BY <1>5 DEF Malformed, RecvToPrimary
  <2>2. pc' = "gone" /\ arrived' = arrived
    BY <1>5 DEF Malformed, clientVars
  <2>3. QED
    BY <1>1, <2>1, <2>2
<1>6. CASE RecvFails \/ ReadyOnFreed
  BY <1>6 DEF RecvFails, ReadyOnFreed, clientVars
<1>7. CASE NotReady \/ Dispatch
  BY <1>7 DEF NotReady, Dispatch, clientVars
<1>8. CASE TruncatedRead
  BY <1>8 DEF TruncatedRead, clientVars
<1>9. QED
  BY <1>2, <1>3, <1>4, <1>5, <1>6, <1>7, <1>8 DEF Worker

LEMMA UnreadStep == UnreadInv /\ [Next]_vars => UnreadInv'
<1>1. SUFFICES ASSUME UnreadInv, [Next]_vars PROVE UnreadInv'
  OBVIOUS
<1>2. BasicInv /\ BasicInv'
  BY <1>1, BasicStep DEF UnreadInv
<1>3. arrived \in Nat /\ taken \in Nat /\ Start[NumPackets + 1] \in Nat
  BY <1>2, FramingAssumption DEF BasicInv, TypeOK, FramingAssumption
<1>4. CASE Arrive
  <2>1. PICK a \in arrived + 1 .. Horizon : arrived' = a
    BY <1>4 DEF Arrive
  <2>2. Horizon \in Nat /\ Horizon <= Start[NumPackets + 1]
    BY <1>2, HorizonBound DEF BasicInv, TypeOK
  <2>3. taken' = taken
    BY <1>4 DEF Arrive
  <2>4. QED
    BY <1>1, <1>2, <1>3, <2>1, <2>2, <2>3 DEF UnreadInv
<1>5. CASE Hangup \/ UNCHANGED vars
  BY <1>1, <1>2, <1>5 DEF UnreadInv, Hangup, vars
<1>6. CASE Worker
  BY <1>1, <1>2, <1>3, <1>6, WorkerSteps DEF UnreadInv
<1>7. QED
  BY <1>1, <1>4, <1>5, <1>6 DEF Next

\* Whatever the client sent, the worker takes only finitely many steps before it
\* waits for more: no read takes no byte, and no connection is ready twice without
\* one (process_events, ready, listen).
THEOREM WorkerComesToRest == Spec => WorkerEnds
<1>1. Init => UnreadInv
  <2>1. Start[NumPackets + 1] \in Nat
    BY FramingAssumption DEF FramingAssumption
  <2>2. QED
    BY <2>1, BasicInit DEF Init, UnreadInv
<1>2. UnreadInv /\ Worker => WorkLeft' \in Nat /\ WorkLeft' < WorkLeft
  <2> SUFFICES ASSUME UnreadInv, Worker PROVE WorkLeft' \in Nat /\ WorkLeft' < WorkLeft
    OBVIOUS
  <2>1. /\ arrived \in Nat /\ taken \in Nat /\ taken <= arrived
        /\ arrived <= Start[NumPackets + 1] /\ Start[NumPackets + 1] \in Nat
    BY FramingAssumption DEF UnreadInv, BasicInv, TypeOK, FramingAssumption
  <2>2. PICK e \in Nat : e = Start[NumPackets + 1]
    BY <2>1
  <2> DEFINE R == CASE pc = "ready" -> 3 [] pc = "epoll" -> 2 [] pc = "freed" -> 1 [] pc = "gone" -> 0
             F == IF fault = "none" THEN 1 ELSE 0
  <2>3. WorkLeft = 2 * (e - taken) + R + F /\ WorkLeft' = 2 * (e - taken') + R' + F'
    BY <2>2 DEF WorkLeft
  <2>4. F' \in {0, 1}
    OBVIOUS
  <2>5. CASE /\ \E n \in Nat \ {0} : taken' = taken + n /\ taken + n <= arrived
             /\ pc = "epoll" /\ pc' \in {"ready", "gone"} /\ fault = "none"
    <3>1. R = 2 /\ R' \in {0, 3} /\ F = 1
      BY <2>5
    <3>2. PICK n \in Nat \ {0} : taken' = taken + n /\ taken + n <= arrived
      BY <2>5
    <3> HIDE DEF R, F
    <3>3. QED
      BY <2>1, <2>2, <2>3, <2>4, <3>1, <3>2
  <2>6. CASE /\ taken' = taken /\ fault = "none"
             /\ \/ pc = "epoll" /\ pc' = "freed"
                \/ pc = "freed" /\ pc' = "gone"
                \/ pc = "ready" /\ pc' = "epoll"
                \/ pc = "ready" /\ pc' = pc /\ fault' = "truncated_read"
    <3>1. /\ R \in Nat /\ R' \in Nat /\ F = 1
          /\ R' < R \/ (R' = R /\ F' = 0)
      BY <2>6
    <3> HIDE DEF R, F
    <3>2. QED
      BY <2>1, <2>2, <2>3, <2>4, <2>6, <3>1
  <2>7. BasicInv
    BY DEF UnreadInv
  <2>8. QED
    BY <2>5, <2>6, <2>7, WorkerSteps
<1>3. UnreadInv /\ [Next]_vars => [Worker => WorkLeft' \in Nat /\ WorkLeft' < WorkLeft]_vars
  BY <1>2
<1>4. QED
  BY <1>1, <1>3, UnreadStep, PTL DEF Spec, WorkerEnds
------------------------------------------------------------------------------
(* Where hazards come from. *)

LEMMA HazardStep ==
  ASSUME ExactInv, Next, hazards = {}
  PROVE  /\ "read_ahead" \in hazards' => arrived > Start[Current + 1]
         /\ hazards' \cap {"first_read_fills", "short_fill"} # {}
              => Total(Current) > PrimarySize
<1>1. CASE ResolveLength
  <2>1. PICK n \in 1 .. allowed, h \in Prefixes(From) :
          \/ ResolvePartial(n, h) \/ ResolveMinusOne(n, h)
          \/ ResolveFits(n, h) \/ ResolveSpills(n, h)
    BY <1>1 DEF ResolveLength
  <2>2. len # -1
    BY <1>1 DEF ResolveLength
  <2>3. CASE ResolvePartial(n, h) \/ ResolveMinusOne(n, h)
    BY <2>3 DEF ResolvePartial, ResolveMinusOne, BadLength
  <2>4. CASE ResolveFits(n, h)
    <3>1. hazards' \cap {"first_read_fills", "short_fill"} = {}
      BY <2>4 DEF ResolveFits, BadLength
    <3>2. SUFFICES ASSUME "read_ahead" \in hazards' PROVE arrived > Start[Current + 1]
      BY <3>1
    <3>3. /\ h.len >= 1 /\ LengthKnown(n, h) /\ allowed' < 0
          /\ allowed' = (h.size + h.len) - (wpos + n)
      BY <2>4, <3>2 DEF ResolveFits, BadLength, BytesToRead
    <3>4. BadLength(h) = {}
      BY <3>3, PrefixBounds DEF BadLength
    <3>5. /\ Current \in Packets /\ h.size + h.len = Total(Current) /\ wpos' \in Nat
          /\ taken + n = Start[Current] + wpos' /\ wpos' = wpos + n /\ taken + n <= arrived
      BY <2>2, <3>3, <3>4, LengthKnownExact DEF LengthKnown, RecvToPrimary, Recv
    <3>6. arrived \in Nat
      BY DEF ExactInv, BasicInv, TypeOK
    <3>7. QED
      BY <3>3, <3>5, <3>6, PacketFacts
  <2>5. CASE ResolveSpills(n, h)
    <3>1. LengthKnown(n, h) /\ ~ (PrimarySize - h.size >= h.len) /\ BadLength(h) = {}
      BY <2>5, SpillsLength DEF ResolveSpills, FitsPrimary
    <3>2. Current \in Packets /\ h.size + h.len = Total(Current)
      BY <2>2, <3>1, LengthKnownExact
    <3>3. Total(Current) > PrimarySize
      BY <3>1, <3>2, PrefixBounds, FramingAssumption DEF FramingAssumption
    <3>4. "read_ahead" \notin hazards'
      BY <2>5 DEF ResolveSpills
    <3>5. QED
      BY <3>3, <3>4
  <2>6. QED
    BY <2>1, <2>3, <2>4, <2>5
<1>2. CASE \E n \in 1 .. allowed : Transition(n)
  <2>1. PICK n \in 1 .. allowed : Transition(n)
    BY <1>2
  <2>2. Serving /\ phase = "transition_to_secondary" /\ "read_ahead" \notin hazards'
    BY <2>1 DEF Transition, RecvToPrimary, Recv, Serving
  <2>3. TotalLength > PrimarySize /\ TotalLength = Total(Current)
    BY <2>2 DEF ExactInv, BasicInv, CursorInv, CutInv
  <2>4. QED
    BY <2>2, <2>3
<1>3. CASE ~ ResolveLength /\ ~ \E n \in 1 .. allowed : Transition(n)
  <2>1. hazards' = hazards
    BY <1>3 DEF Next, Worker, Arrive, Hangup, AfterMinusOne, CopyToBuffer, Overrun, Malformed,
                RecvFails, ReadyOnFreed, NotReady, TruncatedRead, Dispatch
  <2>2. QED
    BY <2>1
<1>4. QED
  BY <1>1, <1>2, <1>3

\* Whatever TCP does to the stream, the first hazard is the client's doing: it has
\* written more than the packet that is being received, the packet is longer than
\* primary, or its length is below 1 (resolve_length, transition_to_secondary).
THEOREM HazardsComeFromClients == Spec => HazardsNeedClient
<1>1. ExactInv /\ [Next]_vars =>
        [hazards = {} =>
           /\ "read_ahead" \in hazards' => arrived > Start[Current + 1]
           /\ hazards' \cap {"first_read_fills", "short_fill"} # {}
                => Total(Current) > PrimarySize]_hazards
  BY HazardStep DEF vars
<1>2. QED
  BY <1>1, ExactInvariant, PTL DEF Spec, HazardsNeedClient
------------------------------------------------------------------------------
(* The refinement. *)

Written == {p \in Packets : Start[p + 1] <= arrived}
Clean   == {i \in DOMAIN frames : frames[i].clean}
Handled == [i \in Clean |-> PacketOf(frames[i])]

LEMMA PacketOfExact ==
  ASSUME NEW k \in Packets
  PROVE  PacketOf([from |-> Start[k], size |-> Total(k), got |-> Total(k), clean |-> TRUE]) = k
<1> DEFINE f == [from |-> Start[k], size |-> Total(k), got |-> Total(k), clean |-> TRUE]
           match == {p \in Packets : f.from = Start[p] /\ f.size = Total(p) /\ f.got = Total(p)}
<1>1. k \in match
  OBVIOUS
<1>2. ASSUME NEW p \in match PROVE p = k
  <2>1. p \in Packets /\ Start[p] = Start[k]
    OBVIOUS
  <2>2. k \in 1 .. NumPackets + 1
    BY FramingAssumption DEF FramingAssumption, Packets
  <2>3. QED
    BY <2>1, <2>2, StartInjective
<1>3. match = {k}
  BY <1>1, <1>2
<1>4. QED
  BY <1>3 DEF PacketOf

LEMMA PacketOfNat ==
  ASSUME NEW f
  PROVE  PacketOf(f) \in Nat
<1> DEFINE match == {p \in Packets : f.from = Start[p] /\ f.size = Total(p) /\ f.got = Total(p)}
<1>1. match # {} => (CHOOSE p \in match : TRUE) \in match
  OBVIOUS
<1>2. \A p \in match : p \in Nat
  BY PacketFacts
<1>3. QED
  BY <1>1, <1>2 DEF PacketOf

LEMMA StreamInitially == Init => Stream!StreamInit
<1>1. SUFFICES ASSUME Init PROVE Written = {} /\ Handled = << >>
  BY DEF Stream!StreamInit, Written, Handled, Clean
<1>2. ASSUME NEW p \in Packets PROVE ~ (Start[p + 1] <= 0)
  BY PacketFacts
<1>3. Written = {}
  BY <1>1, <1>2 DEF Init, Written
<1>4. Handled = << >>
  BY <1>1 DEF Init, Handled, Clean
<1>5. QED
  BY <1>3, <1>4

LEMMA StreamStep ==
  ExactInv /\ [Next]_vars => [Stream!StreamNext]_(Stream!streamVars)
<1>1. SUFFICES ASSUME ExactInv, [Next]_vars
               PROVE  \/ Stream!Write
                      \/ Stream!Deliver
                      \/ Written' = Written /\ Handled' = Handled
  BY DEF Stream!StreamNext, Stream!streamVars, Written, Handled, Clean
<1>2. TypeOK
  BY <1>1 DEF ExactInv, BasicInv
<1>3. CASE Arrive
  <2>1. frames' = frames /\ arrived' \in Int /\ arrived' >= arrived
    BY <1>2, <1>3 DEF Arrive, TypeOK, Horizon
  <2>2. Handled' = Handled
    BY <2>1 DEF Handled, Clean, PacketOf
  <2>3. ASSUME NEW p \in Written PROVE p \in Written'
    <3>1. p \in Packets /\ Start[p + 1] <= arrived
      BY DEF Written
    <3>2. Start[p + 1] \in Nat
      BY <3>1, PacketFacts
    <3>3. Start[p + 1] <= arrived'
      BY <1>2, <2>1, <3>1, <3>2 DEF TypeOK
    <3>4. QED
      BY <3>1, <3>3 DEF Written
  <2>4. Written' \in SUBSET Packets /\ Written \subseteq Written'
    BY <2>3 DEF Written
  <2>5. Stream!Write
    BY <2>2, <2>4 DEF Stream!Write, Written, Handled, Clean
  <2>6. QED
    BY <2>5
<1>4. CASE Dispatch /\ hazards = {}
  <2>1. arrived' = arrived /\ Serving
    BY <1>4 DEF Dispatch, clientVars, Serving
  <2>2. /\ Current \in Packets /\ taken = Start[Current + 1] /\ taken <= arrived
        /\ frames' = Append(frames, [from |-> Start[Current], size |-> Total(Current),
                                     got |-> Total(Current), clean |-> TRUE])
    BY <1>1, <1>4, <2>1, DispatchFacts DEF ExactInv, CutInv
  <2>3. Current \in Written /\ Written' = Written
    BY <2>1, <2>2 DEF Written
  <2>4. frames \in Seq(Frame) /\ Len(frames) \in Nat
    BY <1>2 DEF TypeOK
  <2>5. Clean = 1 .. Len(frames)
    BY <1>1, <1>4, <2>4 DEF Clean, ExactInv
  <2>6. Len(Handled) + 1 = Current /\ DOMAIN Handled = 1 .. Len(frames)
    BY <2>4, <2>5 DEF Handled, Current
  <2>7. Handled' = Append(Handled, Current)
    <3>1. frames' = [i \in 1 .. Current |-> IF i = Current
                       THEN [from |-> Start[Current], size |-> Total(Current),
                             got |-> Total(Current), clean |-> TRUE]
                       ELSE frames[i]]
      BY <2>2, <2>4 DEF Current
    <3>2. Handled' = [i \in 1 .. Current |-> IF i = Current THEN Current ELSE PacketOf(frames[i])]
      <4>0. Clean' = 1 .. Current
        <5>1. Len(frames) \in Nat /\ Current = Len(frames) + 1
          BY <2>4 DEF Current
        <5>2. \A i \in 1 .. Len(frames) : frames[i].clean
          BY <2>4, <2>5 DEF Clean
        <5>3. \A i \in 1 .. Current : frames'[i].clean
          BY <3>1, <5>1, <5>2
        <5>4. DOMAIN frames' = 1 .. Current
          BY <3>1
        <5>5. QED
          BY <5>3, <5>4 DEF Clean
      <4>1. Handled' = [i \in 1 .. Current |-> PacketOf(frames'[i])]
        BY <4>0 DEF Handled, PacketOf
      <4>2. ASSUME NEW i \in 1 .. Current
            PROVE  PacketOf(frames'[i]) = IF i = Current THEN Current ELSE PacketOf(frames[i])
        <5>1. CASE i = Current
          BY <2>2, <3>1, <5>1, PacketOfExact
        <5>2. CASE i # Current
          BY <3>1, <5>2
        <5>3. QED
          BY <5>1, <5>2
      <4>3. QED
        BY <4>1, <4>2
    <3>3. Handled \in Seq(Nat)
      <4>1. \A i \in DOMAIN frames : PacketOf(frames[i]) \in Nat
        BY PacketOfNat
      <4>2. Handled \in [1 .. Len(frames) -> Nat]
        BY <2>4, <2>5, <4>1 DEF Handled
      <4>3. QED
        BY <2>4, <4>2
    <3>4. Append(Handled, Current) =
            [i \in 1 .. Current |-> IF i = Current THEN Current ELSE PacketOf(frames[i])]
      <4>1. Len(Handled) = Len(frames) /\ Current \in Nat
        BY <2>4, <2>6, <3>3 DEF Current
      <4>2. \A i \in 1 .. Len(frames) : Handled[i] = PacketOf(frames[i])
        BY <2>4, <2>5 DEF Handled
      <4>3. QED
        BY <2>4, <3>3, <4>1, <4>2 DEF Current
    <3>5. QED
      BY <3>2, <3>4
  <2>8. Stream!Deliver
    BY <2>3, <2>6, <2>7 DEF Stream!Deliver, Written, Handled, Clean
  <2>9. QED
    BY <2>8
<1>5. CASE Dispatch /\ hazards # {}
  <2> DEFINE f == [from |-> From, size |-> TotalLength, got |-> taken - From,
                   clean |-> hazards = {}]
  <2>1. ~ f.clean /\ frames' = Append(frames, f) /\ arrived' = arrived
    BY <1>5 DEF Dispatch, clientVars
  <2> HIDE DEF f
  <2>2. frames \in Seq(Frame) /\ Len(frames) \in Nat
    BY <1>2 DEF TypeOK
  <2>3. /\ DOMAIN frames = 1 .. Len(frames) /\ DOMAIN frames' = 1 .. Len(frames) + 1
        /\ \A i \in DOMAIN frames : frames'[i] = frames[i]
        /\ frames'[Len(frames) + 1] = f
    BY <2>1, <2>2
  <2>4. Clean' = Clean
    BY <2>1, <2>2, <2>3 DEF Clean
  <2>5. Handled' = [i \in Clean |-> PacketOf(frames'[i])]
    BY <2>4 DEF Handled, PacketOf
  <2>6. \A i \in Clean : frames'[i] = frames[i]
    BY <2>3 DEF Clean
  <2>7. Handled' = Handled
    BY <2>5, <2>6 DEF Handled
  <2>8. QED
    BY <2>1, <2>7 DEF Written
<1>6. CASE UNCHANGED vars \/ (Next /\ ~ Arrive /\ ~ Dispatch)
  <2>1. UNCHANGED <<arrived, frames>>
    BY <1>6 DEF Next, Worker, vars, Hangup, ResolveLength, ResolvePartial, ResolveMinusOne,
                ResolveFits, ResolveSpills, AfterMinusOne, Transition, CopyToBuffer, Overrun, Malformed, RecvFails,
                ReadyOnFreed, NotReady, TruncatedRead, clientVars
  <2>2. QED
    BY <2>1 DEF Written, Handled, Clean, PacketOf
<1>7. QED
  BY <1>1, <1>3, <1>4, <1>5, <1>6

\* For every client the receive path implements the abstract packet stream up to
\* the first hazard: every packet at most once, in order, none before it has
\* arrived completely.
THEOREM FramingImplementsStream == Spec => ImplementsStream
<1>1. Init => Stream!StreamInit
  BY StreamInitially
<1>2. ExactInv /\ [Next]_vars => [Stream!StreamNext]_(Stream!streamVars)
  BY StreamStep
<1>3. QED
  BY <1>1, <1>2, ExactInvariant, PTL DEF Spec, ImplementsStream, Stream!StreamSpec
==============================================================================
