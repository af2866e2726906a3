------------------------------- MODULE ReadProof -------------------------------
(***************************************************************************)
(* Theorems about ReadBuffer: what is read of every packet that is made of *)
(* the fields the handlers read, wherever it is split and whatever follows *)
(* it or is missing; and that every length that is written is read back,   *)
(* for any size of the groups of bits and any portions in which it comes.  *)
(*                                                                         *)
(* ReadInv says where the cursor stands.  VarintInv says, without sums,    *)
(* which digits of a number have been written and which have been read.    *)
(***************************************************************************)
EXTENDS ReadBuffer, LeastNumber

Fields == {Char} \cup {Number(n) : n \in Nat} \cup {AVarint(n) : n \in Nat}
          \cup {AString(l, n) : l \in Nat \ {0}, n \in Nat}

\* What there is of a packet: only one that fits in primary has bytes behind it.
PacketInv ==
  /\ packet.fields \in Seq(Fields)
  /\ packet.split \in Nat /\ packet.bytes \in Nat /\ packet.ahead \in Nat
  /\ packet.split <= packet.bytes
  /\ Spills => packet.ahead = 0

Cursors == [index : Nat, at : Nat \ {0}]
Reads   == [cur : Cursors, out : Seq(Nat), ok : BOOLEAN]

\* The cursor c is at byte p, in the buffer that has it, or in primary when that
\* has been read to its end.
InStep(c, p) ==
  /\ c \in Cursors /\ c.index \in {0, 1}
  /\ c.at = p /\ p <= EndOf(c)
  /\ c.index = 1 => Spills /\ p > packet.split + 1

\* n bytes from byte p on.
Run(p, n) == [i \in 1 .. n |-> p + i - 1]

CursorInv ==
  /\ field \in 1 .. Len(packet.fields) + 1
  /\ InStep(cursor, From(field))
  /\ out \in Seq(Nat) /\ fault \in BOOLEAN

ReadInv == PacketInv /\ CursorInv /\ ValuesExact /\ FaultHasCause
------------------------------------------------------------------------------
(* Fields, and where they begin. *)

\* What each kind of field is.
LEMMA FieldFacts ==
  ASSUME NEW f \in Fields
  PROVE  /\ f.len \in Nat /\ f.size \in Nat /\ FieldSize(f) = f.len + f.size
         /\ f.kind \in {"char", "number", "varint", "string"}
         /\ f.kind = "char" => f.len = 0 /\ f.size = 1
         /\ f.kind \in {"number", "varint"} => f.len = 0
         /\ f.kind = "string" => f.len \in Nat \ {0}
BY DEF Fields, Char, Number, AVarint, AString, FieldSize

\* The fields lie one behind the other.
LEMMA NextByteFacts ==
  ASSUME NEW fields \in Seq(Fields)
  PROVE  /\ NextByte(fields) \in [0 .. Len(fields) -> Nat \ {0}]
         /\ NextByte(fields)[0] = 1
         /\ \A k \in 1 .. Len(fields) :
              NextByte(fields)[k] = NextByte(fields)[k - 1] + FieldSize(fields[k])
<1> DEFINE n == Len(fields)
           P == Nat \ {0}
           g == [i \in 1 .. n |-> [x \in P |-> x + FieldSize(fields[i])]]
           s == NextByte(fields)
<1>1. n \in Nat /\ \A i \in 1 .. n : FieldSize(fields[i]) \in Nat
  BY FieldFacts
<1>2. g \in [1 .. n -> [P -> P]]
  BY <1>1
<1>3. PICK t \in [0 .. n -> P] : t[0] = 1 /\ \A i \in 1 .. n : t[i] = g[i][t[i - 1]]
  <2> DEFINE a == 1
  <2>1. a \in P
    OBVIOUS
  <2> HIDE DEF n, P, g, a
  <2>2. \E t : Iterates(t, n, P, a, g)
    BY <1>1, <1>2, <2>1, Iterate
  <2> QED
    BY <2>2 DEF a, Iterates
<1>4. \A i \in 1 .. n : t[i] = t[i - 1] + FieldSize(fields[i])
  <2> SUFFICES ASSUME NEW i \in 1 .. n PROVE t[i] = t[i - 1] + FieldSize(fields[i])
    OBVIOUS
  <2>1. i - 1 \in 0 .. n
    BY <1>1
  <2>2. t[i - 1] \in P
    BY <1>3, <2>1
  <2>3. g[i][t[i - 1]] = t[i - 1] + FieldSize(fields[i])
    BY <2>2
  <2> QED
    BY <1>3, <2>3
<1>5. t = [k \in 0 .. Len(fields) |-> IF k = 0 THEN 1 ELSE t[k - 1] + FieldSize(fields[k])]
  BY <1>1, <1>3, <1>4
<1>6. s = [k \in 0 .. Len(fields) |-> IF k = 0 THEN 1 ELSE s[k - 1] + FieldSize(fields[k])]
  BY <1>5 DEF NextByte
<1> HIDE DEF s
<1>7. s[0] = 1 /\ \A i \in 1 .. n : s[i] = s[i - 1] + FieldSize(fields[i])
  <2>1. s[0] = 1
    <3>1. 0 \in 0 .. Len(fields)
      BY <1>1
    <3> QED
      BY <1>6, <3>1
  <2>2. ASSUME NEW i \in 1 .. n PROVE s[i] = s[i - 1] + FieldSize(fields[i])
    <3>1. i \in 0 .. Len(fields) /\ i # 0
      BY <1>1
    <3> QED
      BY <1>6, <3>1
  <2> QED
    BY <2>1, <2>2
<1> DEFINE T == {i \in 0 .. n : s[i] = t[i]}
<1>8. 0 .. n \subseteq T
  <2>1. 0 \in T
    BY <1>1, <1>3, <1>7
  <2>2. \A i \in 1 .. n : i - 1 \in T => i \in T
    BY <1>1, <1>4, <1>7
  <2> HIDE DEF T, n
  <2> QED
    BY <1>1, <2>1, <2>2, UpTo
<1>9. \A i \in 0 .. n : s[i] \in Nat \ {0}
  BY <1>3, <1>8
<1>10. s \in [0 .. n -> Nat \ {0}]
  BY <1>6, <1>9
<1> QED
  BY <1>7, <1>10 DEF s

\* Where field k of the packet begins and ends, and that the packet ends behind it.
LEMMA FromFacts ==
  ASSUME PacketInv
  PROVE  /\ Len(packet.fields) \in Nat /\ From(1) = 1
         /\ \A k \in 1 .. Len(packet.fields) + 1 : From(k) \in Nat \ {0}
         /\ \A k \in 1 .. Len(packet.fields) :
              /\ packet.fields[k] \in Fields /\ FieldSize(packet.fields[k]) \in Nat
              /\ From(k + 1) = From(k) + FieldSize(packet.fields[k])
         /\ \A k \in 1 .. Len(packet.fields) + 1 : From(k) <= From(Len(packet.fields) + 1)
<1> DEFINE n == Len(packet.fields)
           s == NextByte(packet.fields)
<1>1. n \in Nat /\ \A k \in 1 .. n : packet.fields[k] \in Fields
  BY DEF PacketInv
<1>2. /\ s \in [0 .. n -> Nat \ {0}] /\ s[0] = 1
      /\ \A k \in 1 .. n : s[k] = s[k - 1] + FieldSize(packet.fields[k])
  BY NextByteFacts DEF PacketInv
<1>3. \A k : From(k) = s[k - 1]
  BY DEF From, StartOf
<1>4. \A k \in 1 .. n : FieldSize(packet.fields[k]) \in Nat
  BY <1>1, FieldFacts
<1> HIDE DEF s, n
<1>5. \A k \in 1 .. n + 1 : From(k) \in Nat \ {0}
  <2> SUFFICES ASSUME NEW k \in 1 .. n + 1 PROVE From(k) \in Nat \ {0}
    OBVIOUS
  <2>1. k - 1 \in 0 .. n
    BY <1>1
  <2> QED
    BY <1>2, <1>3, <2>1
<1>6. ASSUME NEW k \in 1 .. n PROVE From(k + 1) = From(k) + FieldSize(packet.fields[k])
  <2>1. (k + 1) - 1 = k
    BY <1>1
  <2> QED
    BY <1>2, <1>3, <2>1
<1>7. \A k \in 1 .. n + 1 : From(k) <= From(n + 1)
  <2> DEFINE T == {i \in 0 .. n : From((n + 1) - i) <= From(n + 1)}
  <2>1. 0 \in T
    <3>1. (n + 1) - 0 = n + 1 /\ 0 \in 0 .. n /\ n + 1 \in 1 .. n + 1
      BY <1>1
    <3> QED
      BY <1>5, <3>1
  <2>2. ASSUME NEW i \in 1 .. n, i - 1 \in T PROVE i \in T
    <3>1. (n + 1) - (i - 1) = ((n + 1) - i) + 1 /\ (n + 1) - i \in 1 .. n /\ i \in 0 .. n
          /\ (n + 1) - i \in 1 .. n + 1 /\ n + 1 \in 1 .. n + 1
      BY <1>1
    <3>2. PICK k \in 1 .. n : k = (n + 1) - i
      BY <3>1
    <3>3. From(k + 1) = From(k) + FieldSize(packet.fields[k]) /\ FieldSize(packet.fields[k]) \in Nat
      BY <1>4, <1>6
    <3>4. From(k + 1) <= From(n + 1)
      BY <2>2, <3>1, <3>2
    <3>5. From(k) \in Nat /\ From(n + 1) \in Nat /\ From(k + 1) \in Nat
      BY <1>5, <3>1, <3>2, <3>3
    <3>6. From(k) <= From(n + 1)
      BY <3>3, <3>4, <3>5
    <3> QED
      BY <3>1, <3>2, <3>6
  <2>3. 0 .. n \subseteq T
    <3> HIDE DEF T
    <3> QED
      BY <1>1, <2>1, <2>2, UpTo
  <2>4. ASSUME NEW k \in 1 .. n + 1 PROVE From(k) <= From(n + 1)
    <3>1. (n + 1) - k \in 0 .. n /\ (n + 1) - ((n + 1) - k) = k
      BY <1>1
    <3> QED
      BY <2>3, <3>1
  <2> QED
    BY <2>4
<1>8. From(1) = 1
  BY <1>2, <1>3
<1> QED
  BY <1>1, <1>4, <1>5, <1>6, <1>7, <1>8 DEF n
------------------------------------------------------------------------------
(* The reads. *)

\* What the elements of two sequences in a row are.
LEMMA InARow ==
  ASSUME NEW a \in Seq(Nat), NEW b \in Seq(Nat)
  PROVE  /\ a \o b \in Seq(Nat) /\ Len(a \o b) = Len(a) + Len(b)
         /\ \A i \in 1 .. Len(a) : (a \o b)[i] = a[i]
         /\ \A i \in 1 .. Len(b) : (a \o b)[Len(a) + i] = b[i]
OBVIOUS

\* Sequences that agree everywhere are one.
LEMMA SameSequence ==
  ASSUME NEW a \in Seq(Nat), NEW b \in Seq(Nat), Len(a) = Len(b),
         \A i \in 1 .. Len(b) : a[i] = b[i]
  PROVE  a = b
OBVIOUS

\* Bytes in a row are a sequence, and two rows one behind the other are one.
LEMMA RunFacts ==
  ASSUME NEW p \in Nat \ {0}, NEW m \in Nat, NEW n \in Nat
  PROVE  /\ Run(p, n) \in Seq(Nat) /\ Len(Run(p, n)) = n
         /\ Run(p, m) \o Run(p + m, n) = Run(p, m + n)
<1>1. \A k \in Nat, q \in Nat \ {0} : Run(q, k) \in [1 .. k -> Nat]
  BY DEF Run
<1>2. \A k \in Nat, q \in Nat \ {0} : Run(q, k) \in Seq(Nat) /\ Len(Run(q, k)) = k
  BY <1>1 DEF Run
<1>3. p + m \in Nat \ {0} /\ m + n \in Nat
  OBVIOUS
<1> DEFINE a == Run(p, m)
           b == Run(p + m, n)
           c == Run(p, m + n)
<1>4. /\ a \in Seq(Nat) /\ Len(a) = m /\ b \in Seq(Nat) /\ Len(b) = n
      /\ c \in Seq(Nat) /\ Len(c) = m + n
  BY <1>2, <1>3
<1>5. /\ a \o b \in Seq(Nat) /\ Len(a \o b) = m + n
      /\ \A i \in 1 .. m : (a \o b)[i] = a[i]
      /\ \A i \in 1 .. n : (a \o b)[m + i] = b[i]
  <2>1. /\ a \o b \in Seq(Nat) /\ Len(a \o b) = Len(a) + Len(b)
        /\ \A i \in 1 .. Len(a) : (a \o b)[i] = a[i]
        /\ \A i \in 1 .. Len(b) : (a \o b)[Len(a) + i] = b[i]
    <3> HIDE DEF a, b, c
    <3> QED
      BY <1>4, InARow
  <2> HIDE DEF a, b, c
  <2> QED
    BY <1>4, <2>1
<1>6. ASSUME NEW i \in 1 .. m + n PROVE (a \o b)[i] = c[i]
  <2>1. c[i] = p + i - 1
    BY DEF Run
  <2>2. CASE i \in 1 .. m
    <3>1. a[i] = p + i - 1
      BY <2>2 DEF Run
    <3>2. (a \o b)[i] = a[i]
      BY <1>5, <2>2
    <3> QED
      BY <2>1, <3>1, <3>2
  <2>3. CASE i \notin 1 .. m
    <3>1. PICK j \in 1 .. n : i = m + j
      <4>1. i - m \in 1 .. n /\ i = m + (i - m)
        BY <2>3
      <4> QED
        BY <4>1
    <3>2. b[j] = p + m + j - 1
      BY DEF Run
    <3>3. p + m + j - 1 = p + i - 1
      BY <3>1
    <3>4. (a \o b)[m + j] = b[j]
      BY <1>5
    <3> HIDE DEF a, b, c
    <3> QED
      BY <2>1, <3>1, <3>2, <3>3, <3>4
  <2> QED
    BY <2>2, <2>3
<1>7. a \o b = c
  <2> HIDE DEF a, b, c
  <2> QED
    BY <1>4, <1>5, <1>6, SameSequence
<1> QED
  BY <1>2, <1>7

\* What is reversed twice is what it was.
LEMMA ReverseFacts ==
  ASSUME NEW s \in Seq(Nat)
  PROVE  Reverse(s) \in Seq(Nat) /\ Reverse(Reverse(s)) = s
<1> DEFINE n == Len(s)
           r == Reverse(s)
<1>1. n \in Nat /\ \A i \in 1 .. n : (n - i) + 1 \in 1 .. n /\ s[i] \in Nat
  OBVIOUS
<1>2. r = [i \in 1 .. n |-> s[(n - i) + 1]]
  BY DEF Reverse
<1>3. r \in Seq(Nat) /\ Len(r) = n
  BY <1>1, <1>2
<1>4. Reverse(r) = [i \in 1 .. n |-> r[(n - i) + 1]]
  BY <1>3 DEF Reverse
<1>5. \A i \in 1 .. n : r[(n - i) + 1] = s[i]
  <2> SUFFICES ASSUME NEW i \in 1 .. n PROVE r[(n - i) + 1] = s[i]
    OBVIOUS
  <2>1. (n - i) + 1 \in 1 .. n /\ (n - ((n - i) + 1)) + 1 = i
    BY <1>1
  <2>2. r[(n - i) + 1] = s[(n - ((n - i) + 1)) + 1]
    BY <1>2, <2>1
  <2> QED
    BY <2>1, <2>2
<1>6. Reverse(r) = s
  BY <1>4, <1>5
<1> QED
  BY <1>3, <1>6

\* What is left of the buffer that the cursor is in.
LEMMA LeftFacts ==
  ASSUME PacketInv, NEW c, NEW p \in Nat \ {0}, InStep(c, p)
  PROVE  /\ Usable(c) /\ Remaining(c) = EndOf(c) - p /\ Remaining(c) \in Nat
         /\ c.index = 0 => EndOf(c) = packet.split + packet.ahead + 1
         /\ c.index = 1 => EndOf(c) = packet.bytes + 1 /\ Spills /\ p > packet.split + 1
         /\ c.index = 0 => Remaining(c) + p = packet.split + packet.ahead + 1
         /\ c.index = 1 => Remaining(c) + p = packet.bytes + 1
         /\ c.index \in {0, 1} /\ c \in Cursors /\ c.at = p
BY DEF PacketInv, InStep, Usable, Remaining, EndOf

\* A read of n bytes that are there.
LEMMA BareFacts ==
  ASSUME PacketInv, NEW c, NEW p \in Nat \ {0}, InStep(c, p), NEW n \in Nat
  PROVE  /\ Bare(c, n).out = Run(p, n)
         /\ Bare(c, n).ok <=> n <= Remaining(c)
         /\ Bare(c, n).ok => InStep(Bare(c, n).cur, p + n) /\ Bare(c, n).cur.index = c.index
<1>1. /\ Usable(c) /\ Remaining(c) = EndOf(c) - p /\ Remaining(c) \in Nat
      /\ c \in Cursors /\ c.at = p /\ EndOf(c) \in Nat
  BY LeftFacts DEF PacketInv, EndOf
<1>2. Bare(c, n).out = Run(p, n)
  BY <1>1 DEF Bare, Run
<1>3. Bare(c, n).ok <=> n <= Remaining(c)
  <2>1. Bare(c, n).ok = (n = 0 \/ (Usable(c) /\ n <= Remaining(c)))
    BY DEF Bare
  <2>2. n = 0 => n <= Remaining(c)
    BY <1>1
  <2> QED
    BY <1>1, <2>1, <2>2
<1>4. ASSUME n <= Remaining(c) PROVE InStep(Bare(c, n).cur, p + n) /\ Bare(c, n).cur.index = c.index
  <2> DEFINE d == Bare(c, n).cur
  <2>1. d = [c EXCEPT !.at = @ + n]
    BY DEF Bare
  <2>2. d \in Cursors /\ d.index = c.index /\ d.at = p + n
    BY <1>1, <2>1 DEF Cursors
  <2>3. EndOf(d) = EndOf(c) /\ p + n <= EndOf(c)
    BY <1>1, <1>4, <2>2 DEF EndOf
  <2> HIDE DEF d
  <2>4. InStep(d, p + n)
    BY <2>2, <2>3 DEF InStep, PacketInv
  <2> QED
    BY <2>2, <2>4 DEF d
<1> QED
  BY <1>2, <1>3, <1>4

\* What the next buffer holds: when primary is left, the rest of the packet.
LEMMA NextFacts ==
  ASSUME PacketInv, NEW c \in Cursors, c.index \in {0, 1}, NEW n \in Nat \ {0}
  PROVE  LET r == Bare(NextCursor(c), n)
         IN  /\ r.out = Run(packet.split + 1, n)
             /\ r.ok <=> c.index = 0 /\ Spills /\ packet.split + n <= packet.bytes
             /\ r.ok => InStep(r.cur, packet.split + 1 + n)
<1> DEFINE d == NextCursor(c)
           r == Bare(d, n)
           s == packet.split
<1>1. d = [index |-> c.index + 1, at |-> s + 1] /\ s \in Nat /\ packet.bytes \in Nat
  BY DEF NextCursor, PacketInv
<1>2. d \in Cursors /\ d.index = c.index + 1 /\ d.at = s + 1
  BY <1>1 DEF Cursors
<1>3. r.cur = [d EXCEPT !.at = @ + n] /\ r.out = [i \in 1 .. n |-> d.at + i - 1]
      /\ r.ok = (n = 0 \/ (Usable(d) /\ n <= Remaining(d)))
  BY DEF Bare
<1>4. r.cur \in Cursors /\ r.cur.index = c.index + 1 /\ r.cur.at = s + 1 + n
  BY <1>1, <1>2, <1>3 DEF Cursors
<1>5. r.out = Run(s + 1, n)
  BY <1>2, <1>3 DEF Run
<1>6. Usable(d) <=> c.index = 0 /\ Spills
  BY <1>2 DEF Usable
<1>7. c.index = 0 /\ Spills => Remaining(d) = packet.bytes - s
  BY <1>1, <1>2, <1>6 DEF Remaining, EndOf
<1>8. r.ok <=> c.index = 0 /\ Spills /\ s + n <= packet.bytes
  <2>1. r.ok <=> Usable(d) /\ n <= Remaining(d)
    BY <1>3
  <2>2. n <= packet.bytes - s <=> s + n <= packet.bytes
    <3> HIDE DEF r, d, s
    <3> QED
      BY <1>1
  <2> QED
    BY <1>6, <1>7, <2>1, <2>2
<1>9. r.ok => InStep(r.cur, s + 1 + n)
  <2> HIDE DEF r, d, s
  <2>1. ASSUME c.index = 0, Spills, s + n <= packet.bytes PROVE InStep(r.cur, s + 1 + n)
    <3>1. r.cur.index = 1 /\ EndOf(r.cur) = packet.bytes + 1
      BY <1>4, <2>1 DEF EndOf
    <3>2. s + 1 + n <= packet.bytes + 1 /\ s + 1 + n > s + 1
      BY <1>1, <2>1
    <3> QED
      BY <1>4, <2>1, <3>1, <3>2 DEF InStep, s
  <2> QED
    BY <1>8, <2>1
<1> QED
  BY <1>5, <1>8, <1>9

\* A byte or more was read from byte p on, if it was there.
ReadsOn(r, p, n) ==
  /\ r \in Reads
  /\ r.ok => InStep(r.cur, p + n) /\ r.out = Run(p, n)
  /\ p + n - 1 <= packet.bytes => r.ok

\* Whatever is read leaves a cursor and numbers of bytes.
LEMMA BareReads ==
  ASSUME NEW c \in Cursors, NEW n \in Nat
  PROVE  Bare(c, n) \in Reads
<1> DEFINE r == Bare(c, n)
<1>1. c.at \in Nat \ {0}
  BY DEF Cursors
<1>2. r.cur \in Cursors
  BY DEF Bare, Cursors
<1>3. r.out = Run(c.at, n)
  BY DEF Bare, Run
<1>4. r.out \in Seq(Nat)
  BY <1>1, <1>3, RunFacts
<1>5. r.ok \in BOOLEAN
  BY DEF Bare
<1> DEFINE d == r.cur
           o == r.out
           k == r.ok
<1>6. r = [cur |-> d, out |-> o, ok |-> k]
  BY DEF Bare
<1> HIDE DEF r, d, o, k
<1>7. [cur |-> d, out |-> o, ok |-> k] \in [cur : Cursors, out : Seq(Nat), ok : BOOLEAN]
  BY <1>2, <1>4, <1>5 DEF d, o, k
<1> QED
  BY <1>6, <1>7 DEF Reads, r

\* A byte is taken from the buffer that has it.
LEMMA CharFacts ==
  ASSUME PacketInv, NEW c, NEW p \in Nat \ {0}, InStep(c, p)
  PROVE  ReadsOn(ReadChar(c), p, 1)
<1>1. /\ Usable(c) /\ Remaining(c) = EndOf(c) - p /\ Remaining(c) \in Nat
      /\ c.index = 0 => EndOf(c) = packet.split + packet.ahead + 1
      /\ c.index = 1 => EndOf(c) = packet.bytes + 1 /\ Spills /\ p > packet.split + 1
      /\ c.index \in {0, 1} /\ c \in Cursors /\ c.at = p
  BY LeftFacts
<1>2. /\ packet.split \in Nat /\ packet.bytes \in Nat /\ packet.ahead \in Nat
      /\ packet.split <= packet.bytes /\ (Spills => packet.ahead = 0)
      /\ Spills <=> packet.split < packet.bytes
  BY DEF PacketInv, Spills
<1>3. CASE Remaining(c) >= 1
  <2>1. ReadChar(c) = Bare(c, 1)
    BY <1>1, <1>3 DEF ReadChar
  <2>2. Bare(c, 1).out = Run(p, 1) /\ Bare(c, 1).ok /\ InStep(Bare(c, 1).cur, p + 1)
    BY <1>1, <1>3, BareFacts
  <2>3. Bare(c, 1) \in Reads
    BY <1>1, BareReads
  <2> QED
    BY <2>1, <2>2, <2>3 DEF ReadsOn
<1>4. CASE ~ (Remaining(c) >= 1)
  <2> DEFINE r == Bare(NextCursor(c), 1)
             s == packet.split
  <2>1. ReadChar(c) = r
    BY <1>1, <1>4 DEF ReadChar
  <2>2. /\ r.out = Run(s + 1, 1)
        /\ r.ok <=> c.index = 0 /\ Spills /\ s + 1 <= packet.bytes
        /\ r.ok => InStep(r.cur, s + 1 + 1)
    BY <1>1, NextFacts
  <2>3. r \in Reads
    <3>1. NextCursor(c) \in Cursors
      BY <1>1, <1>2 DEF NextCursor, Cursors
    <3> QED
      BY <3>1, BareReads
  <2>4. Remaining(c) = 0 /\ p = EndOf(c)
    <3>1. PICK e \in Int : e = EndOf(c)
      BY <1>1, <1>2
    <3> QED
      BY <1>1, <1>4, <3>1
  <2>5. r.ok => p = s + 1
    BY <1>1, <1>2, <2>2, <2>4
  <2>6. p <= packet.bytes => r.ok
    <3> SUFFICES ASSUME p <= packet.bytes PROVE r.ok
      OBVIOUS
    <3>1. c.index = 0
      <4>1. CASE c.index = 1
        BY <1>1, <1>2, <2>4, <4>1
      <4> QED
        BY <1>1, <4>1
    <3>2. p = s + packet.ahead + 1
      BY <1>1, <2>4, <3>1
    <3>3. s < packet.bytes
      BY <1>2, <3>2
    <3>4. s + 1 <= packet.bytes
      BY <1>2, <3>3
    <3> QED
      BY <1>2, <2>2, <3>1, <3>3, <3>4
  <2>7. p + 1 - 1 = p
    OBVIOUS
  <2> HIDE DEF r, s
  <2> QED
    BY <2>1, <2>2, <2>3, <2>5, <2>6, <2>7 DEF ReadsOn
<1> QED
  BY <1>3, <1>4

\* The byte that follows a run.
LEMMA OneMoreByte ==
  ASSUME NEW p \in Nat \ {0}, NEW i \in Nat
  PROVE  Run(p, i) \o Run(p + i, 1) = Run(p, i + 1)
<1>1. ASSUME NEW n \in Nat PROVE Run(p, i) \o Run(p + i, n) = Run(p, i + n)
  BY RunFacts
<1> QED
  BY <1>1

\* A byte more.
LEMMA AndCharFacts ==
  ASSUME PacketInv, NEW r, NEW p \in Nat \ {0}, NEW i \in Nat, ReadsOn(r, p, i)
  PROVE  ReadsOn(AndChar(r), p, i + 1)
<1> DEFINE b == ReadChar(r.cur)
           a == AndChar(r)
<1>1. a = [cur |-> b.cur, out |-> r.out \o b.out, ok |-> r.ok /\ b.ok]
  BY DEF AndChar
<1>2. r \in Reads /\ r.cur \in Cursors /\ r.out \in Seq(Nat) /\ r.ok \in BOOLEAN
  BY DEF ReadsOn, Reads
<1>3. b \in Reads
  <2>1. NextCursor(r.cur) \in Cursors
    BY <1>2 DEF NextCursor, Cursors, PacketInv
  <2> QED
    BY <1>2, <2>1, BareReads DEF ReadChar
<1>4. a \in Reads
  BY <1>1, <1>2, <1>3, InARow DEF Reads
<1>5. p + i \in Nat \ {0} /\ p + i + 1 = p + (i + 1)
  OBVIOUS
<1>6. a.cur = b.cur /\ a.out = r.out \o b.out /\ (a.ok <=> r.ok /\ b.ok)
  <2> DEFINE o == r.out \o b.out
             k == r.ok /\ b.ok
  <2>1. a = [cur |-> b.cur, out |-> o, ok |-> k]
    BY <1>1
  <2> HIDE DEF a, b, o, k
  <2>2. a.cur = b.cur /\ a.out = o /\ a.ok = k
    BY <2>1
  <2> QED
    BY <2>2 DEF o, k
<1> HIDE DEF a, b
<1>7. a.ok => InStep(a.cur, p + (i + 1)) /\ a.out = Run(p, i + 1)
  <2> SUFFICES ASSUME r.ok, b.ok PROVE InStep(b.cur, p + (i + 1)) /\ r.out \o b.out = Run(p, i + 1)
    BY <1>6
  <2>1. InStep(r.cur, p + i) /\ r.out = Run(p, i)
    BY DEF ReadsOn
  <2>2. InStep(b.cur, p + i + 1) /\ b.out = Run(p + i, 1)
    BY <1>5, <2>1, CharFacts DEF ReadsOn, b
  <2>3. Run(p, i) \o Run(p + i, 1) = Run(p, i + 1)
    BY OneMoreByte
  <2> QED
    BY <1>5, <2>1, <2>2, <2>3
<1>8. p + (i + 1) - 1 <= packet.bytes => a.ok
  <2> SUFFICES ASSUME p + (i + 1) - 1 <= packet.bytes PROVE r.ok /\ b.ok
    BY <1>6
  <2>1. packet.bytes \in Nat
    BY DEF PacketInv
  <2>2. p + i - 1 <= packet.bytes /\ p + i + 1 - 1 <= packet.bytes
    BY <2>1
  <2>3. r.ok /\ InStep(r.cur, p + i)
    BY <2>2 DEF ReadsOn
  <2> QED
    BY <1>5, <2>2, <2>3, CharFacts DEF ReadsOn, b
<1> QED
  BY <1>4, <1>7, <1>8 DEF ReadsOn, a

\* Byte after byte.
LEMMA VarintFacts ==
  ASSUME PacketInv, NEW c, NEW p \in Nat \ {0}, InStep(c, p), NEW n \in Nat
  PROVE  ReadsOn(ReadVarint(c, n), p, n)
<1> DEFINE g == [i \in 1 .. n |-> [r \in Reads |-> AndChar(r)]]
           a == Bare(c, 0)
           s == CHOOSE f : f = [i \in 0 .. n |-> IF i = 0 THEN Bare(c, 0) ELSE AndChar(f[i - 1])]
<1>1. c \in Cursors
  BY LeftFacts
<1>2. a \in Reads
  BY <1>1, BareReads
<1>3. ASSUME NEW r \in Reads PROVE AndChar(r) \in Reads
  <2>1. r.cur \in Cursors /\ r.out \in Seq(Nat) /\ r.ok \in BOOLEAN
    BY DEF Reads
  <2>2. NextCursor(r.cur) \in Cursors
    BY <2>1 DEF NextCursor, Cursors, PacketInv
  <2>3. ReadChar(r.cur) \in Reads
    BY <2>1, <2>2, BareReads DEF ReadChar
  <2> DEFINE b == ReadChar(r.cur)
  <2>4. b.cur \in Cursors /\ b.out \in Seq(Nat) /\ b.ok \in BOOLEAN
    BY <2>3 DEF Reads
  <2>5. AndChar(r) = [cur |-> b.cur, out |-> r.out \o b.out, ok |-> r.ok /\ b.ok]
    BY DEF AndChar
  <2> HIDE DEF b
  <2>6. r.out \o b.out \in Seq(Nat)
    BY <2>1, <2>4, InARow
  <2> QED
    BY <2>1, <2>4, <2>5, <2>6 DEF Reads
<1>4. g \in [1 .. n -> [Reads -> Reads]]
  BY <1>3
<1>5. PICK t : Iterates(t, n, Reads, a, g)
  <2> HIDE DEF g, a
  <2> QED
    BY <1>2, <1>4, Iterate
<1>6. t \in [0 .. n -> Reads] /\ t[0] = a /\ \A i \in 1 .. n : t[i] = AndChar(t[i - 1])
  <2>1. t \in [0 .. n -> Reads] /\ t[0] = a /\ \A i \in 1 .. n : t[i] = g[i][t[i - 1]]
    BY <1>5 DEF Iterates
  <2>2. \A i \in 1 .. n : i - 1 \in 0 .. n
    OBVIOUS
  <2> HIDE DEF a
  <2> QED
    BY <2>1, <2>2
<1>7. t = [i \in 0 .. n |-> IF i = 0 THEN Bare(c, 0) ELSE AndChar(t[i - 1])]
  BY <1>6
<1>8. s = [i \in 0 .. n |-> IF i = 0 THEN Bare(c, 0) ELSE AndChar(s[i - 1])]
  BY <1>7
<1>9. ReadVarint(c, n) = s[n]
  BY DEF ReadVarint
<1> HIDE DEF s, a, g
<1>10. s[0] = Bare(c, 0) /\ \A i \in 1 .. n : s[i] = AndChar(s[i - 1])
  <2>1. 0 \in 0 .. n /\ \A i \in 1 .. n : i \in 0 .. n /\ i # 0
    OBVIOUS
  <2> QED
    BY <1>8, <2>1
<1> DEFINE T == {i \in 0 .. n : ReadsOn(s[i], p, i)}
<1>11. 0 \in T
  <2>1. Bare(c, 0).out = Run(p, 0) /\ Bare(c, 0).ok /\ InStep(Bare(c, 0).cur, p + 0)
    BY LeftFacts, BareFacts
  <2>2. ReadsOn(Bare(c, 0), p, 0)
    BY <1>2, <2>1 DEF ReadsOn, a
  <2> QED
    BY <1>10, <2>2
<1>12. ASSUME NEW i \in 1 .. n, i - 1 \in T PROVE i \in T
  <2>1. i - 1 \in Nat /\ (i - 1) + 1 = i /\ i \in 0 .. n
    OBVIOUS
  <2>2. ReadsOn(AndChar(s[i - 1]), p, (i - 1) + 1)
    BY <1>12, <2>1, AndCharFacts
  <2> QED
    BY <1>10, <2>1, <2>2
<1>13. n \in T
  <2>1. n \in 0 .. n
    OBVIOUS
  <2> HIDE DEF T
  <2> QED
    BY <1>11, <1>12, <2>1, UpTo
<1> QED
  BY <1>9, <1>13

\* A number that lies in one buffer, and one that does not.
LEMMA NumberFacts ==
  ASSUME PacketInv, NEW c, NEW p \in Nat \ {0}, InStep(c, p), NEW n \in Nat
  PROVE  LET r == ReadNumber(c, n)
             across == Spills /\ p <= packet.split + 1 /\ p + n > packet.split + 1
         IN  /\ r.ok => /\ InStep(r.cur, p + n)
                        /\ r.out = IF across THEN Reverse(Run(p, n)) ELSE Run(p, n)
             /\ p + n - 1 <= packet.bytes => r.ok
<1> DEFINE r == ReadNumber(c, n)
           s == packet.split
           across == Spills /\ p <= s + 1 /\ p + n > s + 1
<1>1. /\ Remaining(c) = EndOf(c) - p /\ Remaining(c) \in Nat
      /\ c.index = 0 => Remaining(c) + p = packet.split + packet.ahead + 1
      /\ c.index = 1 => Remaining(c) + p = packet.bytes + 1 /\ Spills /\ p > packet.split + 1
      /\ c.index \in {0, 1} /\ c \in Cursors /\ c.at = p
  BY LeftFacts
<1>2. /\ packet.split \in Nat /\ packet.bytes \in Nat /\ packet.ahead \in Nat
      /\ packet.split <= packet.bytes /\ (Spills => packet.ahead = 0)
      /\ Spills <=> packet.split < packet.bytes
  BY DEF PacketInv, Spills
<1>3. PICK left \in Nat : left = Remaining(c)
  BY <1>1
<1>4. CASE n <= left
  <2> DEFINE b == Bare(c, n)
  <2>1. b.out = Run(p, n) /\ b.ok /\ InStep(b.cur, p + n)
    BY <1>3, <1>4, BareFacts
  <2>2. /\ r.cur = b.cur /\ r.ok = b.ok /\ r.out = Reverse(Reverse(b.out))
    <3>1. ~ (Remaining(c) < n)
      BY <1>3, <1>4
    <3> QED
      BY <3>1 DEF ReadNumber, Swapped, Bare
  <2>3. Reverse(Reverse(Run(p, n))) = Run(p, n)
    BY RunFacts, ReverseFacts
  <2>4. ~ across
    <3>1. CASE c.index = 0
      <4>1. p + n <= s + packet.ahead + 1
        <5>1. left + p = s + packet.ahead + 1
          BY <1>1, <1>3, <3>1
        <5> QED
          BY <1>2, <1>4, <5>1
      <4> QED
        BY <1>2, <4>1
    <3>2. CASE c.index = 1
      BY <1>1, <1>2, <3>2
    <3> QED
      BY <1>1, <3>1, <3>2
  <2> HIDE DEF r, s, across, b
  <2> QED
    BY <2>1, <2>2, <2>3, <2>4 DEF r, s, across
<1>5. CASE ~ (n <= left)
  <2> DEFINE first  == Bare(c, left)
             second == Bare(NextCursor(c), n - left)
  <2>1. PICK m \in Nat \ {0} : m = n - left
    BY <1>5
  <2>2. /\ r.cur = second.cur /\ r.ok = (first.ok /\ second.ok)
        /\ r.out = Reverse(first.out \o second.out)
    <3>1. Remaining(c) < n
      BY <1>3, <1>5
    <3> QED
      BY <1>3, <3>1 DEF ReadNumber, ReadAcross, IntoSecondary
  <2>3. first.ok /\ first.out = Run(p, left)
    BY <1>3, BareFacts
  <2>4. /\ second.out = Run(s + 1, m)
        /\ second.ok <=> c.index = 0 /\ Spills /\ s + m <= packet.bytes
        /\ second.ok => InStep(second.cur, s + 1 + m)
    BY <1>1, <2>1, NextFacts
  <2> HIDE DEF r, s, first, second
  <2>5. c.index = 0 => left + p = s + packet.ahead + 1
    BY <1>1, <1>3 DEF s
  <2>6. s \in Nat
    BY <1>2 DEF s
  <2>7. r.ok => InStep(r.cur, p + n) /\ across /\ r.out = Reverse(Run(p, n))
    <3> SUFFICES ASSUME second.ok PROVE InStep(second.cur, p + n) /\ across
                                        /\ Reverse(first.out \o second.out) = Reverse(Run(p, n))
      BY <2>2
    <3>1. p + left = s + 1
      BY <1>2, <2>4, <2>5, <2>6
    <3>2. p + n = s + 1 + m /\ left + m = n
      BY <2>1, <2>6, <3>1
    <3>3. p <= s + 1 /\ p + n > s + 1
      BY <2>6, <3>1, <3>2
    <3>4. Run(p, left) \o Run(p + left, m) = Run(p, left + m)
      BY RunFacts
    <3> QED
      BY <2>3, <2>4, <3>1, <3>2, <3>3, <3>4 DEF s
  <2>8. p + n - 1 <= packet.bytes => r.ok
    <3> SUFFICES ASSUME p + n - 1 <= packet.bytes PROVE first.ok /\ second.ok
      BY <2>2
    <3>1. c.index = 0
      <4>1. CASE c.index = 1
        <5>1. left + p = packet.bytes + 1
          BY <1>1, <1>3, <4>1
        <5> QED
          BY <1>2, <1>5, <5>1
      <4> QED
        BY <1>1, <4>1
    <3>2. left + p = s + packet.ahead + 1
      BY <2>5, <3>1
    <3>3. s < packet.bytes
      BY <1>2, <1>5, <2>6, <3>2
    <3>4. packet.ahead = 0
      BY <1>2, <3>3 DEF s
    <3>5. s + m <= packet.bytes
      BY <1>2, <2>1, <2>6, <3>2, <3>4
    <3> QED
      BY <1>2, <2>3, <2>4, <3>1, <3>3, <3>5 DEF s
  <2> HIDE DEF across
  <2> QED
    BY <2>7, <2>8 DEF r, s, across
<1> QED
  BY <1>4, <1>5

\* A string, behind its length.  What remained of the buffer was counted from
\* before the length: read_across_buffers then always leaves what was received.
LEMMA StringFacts ==
  ASSUME PacketInv, NEW c, NEW p \in Nat \ {0}, InStep(c, p), NEW l \in Nat \ {0}, NEW n \in Nat
  PROVE  LET r == ReadString(c, l, n)
             across == Spills /\ p <= packet.split + 1 /\ p + (l + n) > packet.split + 1
         IN  /\ r.ok => InStep(r.cur, p + (l + n)) /\ r.out = Run(p, l + n)
             /\ p + (l + n) - 1 <= packet.bytes /\ ~ across => r.ok
<1> DEFINE r == ReadString(c, l, n)
           s == packet.split
           across == Spills /\ p <= s + 1 /\ p + (l + n) > s + 1
           head == ReadVarint(c, l)
           d == head.cur
<1>1. /\ Remaining(c) \in Nat
      /\ c.index = 0 => Remaining(c) + p = packet.split + packet.ahead + 1
      /\ c.index = 1 => Remaining(c) + p = packet.bytes + 1 /\ Spills /\ p > packet.split + 1
      /\ c.index \in {0, 1} /\ c \in Cursors
  BY LeftFacts
<1>2. /\ packet.split \in Nat /\ packet.bytes \in Nat /\ packet.ahead \in Nat
      /\ packet.split <= packet.bytes /\ (Spills => packet.ahead = 0)
      /\ Spills <=> packet.split < packet.bytes
  BY DEF PacketInv, Spills
<1>3. PICK left \in Nat : left = Remaining(c)
  BY <1>1
<1>4. /\ head.ok => InStep(d, p + l) /\ head.out = Run(p, l)
      /\ p + l - 1 <= packet.bytes => head.ok
      /\ p + l \in Nat \ {0}
  BY VarintFacts DEF ReadsOn
<1> HIDE DEF d, head
<1>5. ASSUME head.ok
      PROVE  /\ d.index \in {0, 1} /\ d \in Cursors
             /\ Remaining(d) \in Nat
             /\ d.index = 0 => Remaining(d) + (p + l) = packet.split + packet.ahead + 1
             /\ d.index = 1 => Remaining(d) + (p + l) = packet.bytes + 1 /\ Spills /\ p + l > packet.split + 1
  BY <1>4, <1>5, LeftFacts
<1>6. CASE left < n
  <2> DEFINE first  == Bare(d, left)
             second == Bare(NextCursor(d), n - left)
  <2>1. PICK m \in Nat \ {0} : m = n - left
    BY <1>6
  <2>2. r.ok <=> (first.ok /\ second.ok) /\ head.ok
    <3> DEFINE body == ReadAcross(d, left, n)
               o == first.ok
               k == second.ok
    <3>1. r = [body EXCEPT !.out = head.out \o @, !.ok = @ /\ head.ok]
      BY <1>3, <1>6 DEF ReadString, d, head
    <3>2. body = [cur |-> second.cur, out |-> first.out \o second.out, ok |-> o /\ k]
      BY DEF ReadAcross, IntoSecondary
    <3> HIDE DEF o, k, first, second, body, r
    <3>3. r.ok <=> body.ok /\ head.ok
      BY <3>1, <3>2
    <3>4. body.ok <=> o /\ k
      BY <3>2
    <3> QED
      BY <3>3, <3>4 DEF o, k
  <2>3. ~ (head.ok /\ first.ok /\ second.ok)
    <3> SUFFICES ASSUME head.ok, first.ok, second.ok PROVE FALSE
      OBVIOUS
    <3>1. d.index = 0 /\ Spills
      BY <1>5, <2>1, NextFacts
    <3>2. left <= Remaining(d)
      BY <1>4, BareFacts
    <3>3. PICK more \in Nat : more = Remaining(d)
      BY <1>5
    <3>4. more + (p + l) = packet.split + packet.ahead + 1
      BY <1>5, <3>1, <3>3
    <3>5. packet.ahead = 0
      BY <1>2, <3>1
    <3>6. c.index # 1
      BY <1>1, <1>2, <3>3, <3>4, <3>5
    <3>7. left + p = packet.split + packet.ahead + 1
      BY <1>1, <1>3, <3>6
    <3> QED
      BY <1>2, <3>2, <3>3, <3>4, <3>7
  <2>4. p + (l + n) - 1 <= packet.bytes => across
    <3> SUFFICES ASSUME p + (l + n) - 1 <= packet.bytes PROVE across
      OBVIOUS
    <3>1. c.index = 0
      <4>1. CASE c.index = 1
        <5>1. left + p = packet.bytes + 1
          BY <1>1, <1>3, <4>1
        <5> QED
          BY <1>2, <1>6, <5>1
      <4> QED
        BY <1>1, <4>1
    <3>2. left + p = packet.split + packet.ahead + 1
      BY <1>1, <1>3, <3>1
    <3>3. packet.split < packet.bytes
      BY <1>2, <1>6, <3>2
    <3>4. packet.ahead = 0
      BY <1>2, <3>3
    <3>5. p <= packet.split + 1 /\ p + (l + n) > packet.split + 1
      BY <1>2, <1>6, <3>2, <3>4
    <3> QED
      BY <1>2, <3>3, <3>5
  <2> HIDE DEF r, s, across, first, second
  <2> QED
    BY <2>2, <2>3, <2>4 DEF r, s, across
<1>7. CASE ~ (left < n)
  <2> DEFINE b == Bare(d, n)
  <2>1. /\ r.ok <=> b.ok /\ head.ok
        /\ r.cur = b.cur /\ r.out = head.out \o b.out
    <3> DEFINE o == head.out \o b.out
               k == b.ok /\ head.ok
    <3>1. r = [b EXCEPT !.out = head.out \o @, !.ok = @ /\ head.ok]
      BY <1>3, <1>7 DEF ReadString, d, head
    <3>2. b = [cur |-> b.cur, out |-> b.out, ok |-> b.ok]
      BY DEF Bare
    <3> HIDE DEF r, b
    <3>3. r = [cur |-> b.cur, out |-> o, ok |-> k]
      BY <3>1, <3>2
    <3> HIDE DEF o, k
    <3>4. r.cur = b.cur /\ r.out = o /\ r.ok = k
      BY <3>3
    <3> QED
      BY <3>4 DEF o, k
  <2>2. ASSUME head.ok
        PROVE  /\ b.ok <=> n <= Remaining(d)
               /\ b.out = Run(p + l, n)
               /\ b.ok => InStep(b.cur, (p + l) + n)
    BY <1>4, <2>2, BareFacts
  <2>3. /\ (p + l) + n = p + (l + n)
        /\ Run(p, l) \o Run(p + l, n) = Run(p, l + n)
    <3>1. (p + l) + n = p + (l + n)
      OBVIOUS
    <3>2. l \in Nat
      OBVIOUS
    <3>3. Run(p, l) \o Run(p + l, n) = Run(p, l + n)
      BY <3>2, RunFacts
    <3> QED
      BY <3>1, <3>3
  <2> HIDE DEF r, b
  <2>4. r.ok => InStep(r.cur, p + (l + n)) /\ r.out = Run(p, l + n)
    BY <1>4, <2>1, <2>2, <2>3
  <2>5. p + (l + n) - 1 <= packet.bytes /\ ~ across => r.ok
    <3> SUFFICES ASSUME p + (l + n) - 1 <= packet.bytes, ~ across PROVE r.ok
      OBVIOUS
    <3>1. head.ok
      BY <1>2, <1>4
    <3>2. PICK more \in Nat : more = Remaining(d)
      BY <1>5, <3>1
    <3>3. n <= more
      <4>1. CASE d.index = 1
        <5>1. more + (p + l) = packet.bytes + 1
          BY <1>5, <3>1, <3>2, <4>1
        <5> QED
          BY <1>2, <5>1
      <4>2. CASE d.index = 0
        <5>1. more + (p + l) = packet.split + packet.ahead + 1
          BY <1>5, <3>1, <3>2, <4>2
        <5>2. CASE packet.split < packet.bytes
          <6>1. packet.ahead = 0
            BY <1>2, <5>2
          <6>2. p <= packet.split + 1
            BY <1>2, <5>1, <6>1
          <6>3. p + (l + n) <= packet.split + 1
            BY <1>2, <5>2, <6>2
          <6> QED
            BY <1>2, <5>1, <6>1, <6>3
        <5>3. CASE packet.split = packet.bytes
          BY <1>2, <5>1, <5>3
        <5> QED
          BY <1>2, <5>2, <5>3
      <4> QED
        BY <1>5, <3>1, <4>1, <4>2
    <3> QED
      BY <2>1, <2>2, <3>1, <3>2, <3>3
  <2> HIDE DEF s, across
  <2> QED
    BY <2>4, <2>5 DEF r, s, across
<1> QED
  BY <1>6, <1>7

\* Every kind of field.
LEMMA ReadFacts ==
  ASSUME PacketInv, NEW c, NEW p \in Nat \ {0}, InStep(c, p), NEW f \in Fields
  PROVE  LET r == Read(c, f)
             n == FieldSize(f)
             across == Spills /\ p <= packet.split + 1 /\ p + n > packet.split + 1
         IN  /\ r.ok => /\ InStep(r.cur, p + n)
                        /\ r.out = IF f.kind = "number" /\ across THEN Reverse(Run(p, n))
                                                                 ELSE Run(p, n)
             /\ p + n - 1 <= packet.bytes /\ ~ (f.kind = "string" /\ across) => r.ok
<1> DEFINE r == Read(c, f)
           n == FieldSize(f)
           across == Spills /\ p <= packet.split + 1 /\ p + n > packet.split + 1
<1>1. /\ f.len \in Nat /\ f.size \in Nat /\ n = f.len + f.size
      /\ f.kind \in {"char", "number", "varint", "string"}
      /\ f.kind = "char" => f.len = 0 /\ f.size = 1
      /\ f.kind \in {"number", "varint"} => f.len = 0
      /\ f.kind = "string" => f.len \in Nat \ {0}
  BY FieldFacts
<1>2. f.kind # "string" => n = f.size
  BY <1>1
<1>3. CASE f.kind = "char"
  <2>1. r = ReadChar(c) /\ n = 1
    BY <1>1, <1>2, <1>3 DEF Read
  <2>2. ReadsOn(ReadChar(c), p, 1)
    BY CharFacts
  <2> HIDE DEF r, n
  <2> QED
    BY <1>3, <2>1, <2>2 DEF ReadsOn, r, n
<1>4. CASE f.kind = "varint"
  <2>1. r = ReadVarint(c, f.size) /\ n = f.size
    BY <1>1, <1>2, <1>4 DEF Read
  <2>2. ReadsOn(ReadVarint(c, f.size), p, f.size)
    BY <1>1, VarintFacts
  <2> HIDE DEF r, n
  <2> QED
    BY <1>4, <2>1, <2>2 DEF ReadsOn, r, n
<1>5. CASE f.kind = "number"
  <2>1. r = ReadNumber(c, f.size) /\ n = f.size
    BY <1>1, <1>2, <1>5 DEF Read
  <2>2. /\ r.ok => /\ InStep(r.cur, p + n)
                   /\ r.out = IF across THEN Reverse(Run(p, n)) ELSE Run(p, n)
        /\ p + n - 1 <= packet.bytes => r.ok
    <3> HIDE DEF r, n
    <3> QED
      BY <1>1, <2>1, NumberFacts
  <2> HIDE DEF r, n, across
  <2> QED
    BY <1>5, <2>2 DEF r, n, across
<1>6. CASE f.kind = "string"
  <2>1. r = ReadString(c, f.len, f.size)
    BY <1>6 DEF Read
  <2>2. /\ r.ok => InStep(r.cur, p + n) /\ r.out = Run(p, n)
        /\ p + n - 1 <= packet.bytes /\ ~ across => r.ok
    <3> HIDE DEF r, n
    <3>1. PICK l \in Nat \ {0}, m \in Nat : l = f.len /\ m = f.size
      BY <1>1, <1>6
    <3>2. r = ReadString(c, l, m) /\ n = l + m
      BY <1>1, <2>1, <3>1
    <3>3. /\ r.ok => InStep(r.cur, p + (l + m)) /\ r.out = Run(p, l + m)
          /\ p + (l + m) - 1 <= packet.bytes
             /\ ~ (Spills /\ p <= packet.split + 1 /\ p + (l + m) > packet.split + 1) => r.ok
      BY <3>2, StringFacts
    <3> QED
      BY <3>2, <3>3
  <2> HIDE DEF r, n, across
  <2> QED
    BY <1>6, <2>2 DEF r, n, across
<1> QED
  BY <1>1, <1>3, <1>4, <1>5, <1>6
------------------------------------------------------------------------------
(* The handler's reads, one after the other. *)

\* The packets of the model are made of fields.
LEMMA LayoutFacts == \A l \in Layouts : <<Char>> \o l \in Seq(Fields)
<1>1. /\ VarintSizes \subseteq Nat \ {0} /\ StringSizes \subseteq Nat
  BY ReadAssumption, VarintAssumption
<1>2. /\ Char \in Fields /\ Short \in Fields /\ Long \in Fields
      /\ Strings \subseteq Fields /\ Varints \subseteq Fields
  BY <1>1 DEF Fields, Short, Long, Strings, Varints
<1> SUFFICES ASSUME NEW l \in Layouts PROVE <<Char>> \o l \in Seq(Fields)
  OBVIOUS
<1>3. l \in Seq(Fields)
  <2>1. CASE l \in HandshakePackets
    <3>1. PICK v \in Varints, w \in Varints, a \in Strings : l = <<v, a, Short, w>>
      BY <2>1 DEF HandshakePackets
    <3> QED
      BY <1>2, <3>1
  <2>2. CASE l \in PingPackets
    BY <1>2, <2>2 DEF PingPackets
  <2>3. CASE l \in LoginPackets
    <3>1. PICK a \in Strings : l = <<a, Long, Long>>
      BY <2>3 DEF LoginPackets
    <3> QED
      BY <1>2, <3>1
  <2>4. CASE l \in EncryptionPackets \cup BrandPackets
    <3>1. PICK a \in Strings, b \in Strings : l = <<a, b>>
      BY <2>4 DEF EncryptionPackets, BrandPackets
    <3> QED
      BY <1>2, <3>1
  <2>5. CASE l \in InformationPackets
    <3>1. PICK a \in Strings : l = <<a, Char, Char>>
      BY <2>5 DEF InformationPackets
    <3> QED
      BY <1>2, <3>1
  <2> QED
    BY <2>1, <2>2, <2>3, <2>4, <2>5 DEF Layouts
<1>4. <<Char>> \in Seq(Fields)
  BY <1>2
<1> QED
  BY <1>3, <1>4

\* There is a packet, which ends where its fields or a little before.
LEMMA PacketsFacts == \A q \in Packets \cup {NoPacket} :
  /\ q.fields \in Seq(Fields) /\ q.split \in Nat /\ q.bytes \in Nat /\ q.ahead \in Nat
  /\ q.split <= q.bytes
  /\ q.split < q.bytes => q.ahead = 0
<1> SUFFICES ASSUME NEW q \in Packets \cup {NoPacket}
             PROVE  /\ q.fields \in Seq(Fields) /\ q.split \in Nat /\ q.bytes \in Nat
                    /\ q.ahead \in Nat /\ q.split <= q.bytes
                    /\ q.split < q.bytes => q.ahead = 0
  OBVIOUS
<1>1. CASE q = NoPacket
  BY <1>1 DEF NoPacket
<1>2. CASE q \in Packets
  <2>1. PICK l \in Layouts : q \in PacketsOf(<<Char>> \o l)
    BY <1>2 DEF Packets
  <2>2. PICK fields \in Seq(Fields) : q \in PacketsOf(fields)
    BY <2>1, LayoutFacts
  <2>3. \E n \in Nat :
          \/ \E a \in 0 .. MaxAhead, b \in {n} :
               q = [fields |-> fields, split |-> b, bytes |-> n, ahead |-> a]
          \/ \E b \in 1 .. n - 1 :
               q = [fields |-> fields, split |-> b, bytes |-> n, ahead |-> 0]
    BY <2>2 DEF PacketsOf
  <2> QED
    BY <2>3, ReadAssumption
<1> QED
  BY <1>1, <1>2

\* Before anything is read the cursor is at the first byte.
LEMMA ReadStart == Init => ReadInv
<1> SUFFICES ASSUME Init PROVE ReadInv
  OBVIOUS
<1>1. packet \in Packets \cup {NoPacket}
  BY DEF Init
<1>2. PacketInv
  BY <1>1, PacketsFacts DEF PacketInv, Spills
<1>3. field = 1 /\ cursor = [index |-> 0, at |-> 1] /\ out = << >> /\ fault = FALSE
  BY DEF Init
<1>4. Len(packet.fields) \in Nat /\ From(1) = 1
  BY <1>2, FromFacts
<1>5. InStep(cursor, 1)
  <2>1. cursor \in Cursors /\ cursor.index = 0 /\ cursor.at = 1
    BY <1>3 DEF Cursors
  <2>2. 1 <= EndOf(cursor)
    BY <1>2, <2>1 DEF EndOf, PacketInv
  <2> QED
    BY <2>1, <2>2 DEF InStep
<1>6. CursorInv
  <2>1. 1 \in 1 .. Len(packet.fields) + 1
    BY <1>4
  <2>2. << >> \in Seq(Nat)
    OBVIOUS
  <2>3. out \in Seq(Nat) /\ fault \in BOOLEAN
    BY <1>3, <2>2, Zenon
  <2> QED
    BY <1>3, <1>4, <1>5, <2>1, <2>3 DEF CursorInv
<1> QED
  BY <1>2, <1>3, <1>6 DEF ReadInv, ValuesExact, FaultHasCause

\* Each read of the handler.
LEMMA ReadStep ==
  ASSUME ReadInv, ReadField
  PROVE  ReadInv'
<1> DEFINE f == packet.fields[field]
           r == Read(cursor, f)
           p == From(field)
           n == FieldSize(f)
<1>1. PacketInv /\ CursorInv /\ ~ fault /\ field <= Len(packet.fields) /\ packet' = packet
  BY DEF ReadInv, ReadField
<1>2. /\ Len(packet.fields) \in Nat
      /\ \A k \in 1 .. Len(packet.fields) + 1 : From(k) \in Nat \ {0}
      /\ \A k \in 1 .. Len(packet.fields) :
           /\ packet.fields[k] \in Fields /\ FieldSize(packet.fields[k]) \in Nat
           /\ From(k + 1) = From(k) + FieldSize(packet.fields[k])
      /\ \A k \in 1 .. Len(packet.fields) + 1 : From(k) <= From(Len(packet.fields) + 1)
  BY <1>1, FromFacts
<1>3. field \in 1 .. Len(packet.fields) /\ field \in 1 .. Len(packet.fields) + 1
      /\ field + 1 \in 1 .. Len(packet.fields) + 1
  BY <1>1, <1>2 DEF CursorInv
<1>4. /\ p \in Nat \ {0} /\ InStep(cursor, p) /\ f \in Fields /\ n \in Nat
      /\ From(field + 1) = p + n
  BY <1>1, <1>2, <1>3 DEF CursorInv
<1> HIDE DEF f, p, n
<1>5. /\ r.ok => /\ InStep(r.cur, p + n)
                 /\ r.out = IF f.kind = "number" /\ Crosses(field) THEN Reverse(Run(p, n))
                                                                  ELSE Run(p, n)
      /\ p + n - 1 <= packet.bytes /\ ~ (f.kind = "string" /\ Crosses(field)) => r.ok
  <2>1. Crosses(field) <=> Spills /\ p <= packet.split + 1 /\ p + n > packet.split + 1
    BY <1>4 DEF Crosses, p
  <2>2. LET s == Read(cursor, f)
            m == FieldSize(f)
            across == Spills /\ p <= packet.split + 1 /\ p + m > packet.split + 1
        IN  /\ s.ok => /\ InStep(s.cur, p + m)
                       /\ s.out = IF f.kind = "number" /\ across THEN Reverse(Run(p, m))
                                                                ELSE Run(p, m)
            /\ p + m - 1 <= packet.bytes /\ ~ (f.kind = "string" /\ across) => s.ok
    BY <1>1, <1>4, ReadFacts
  <2> HIDE DEF r
  <2> QED
    BY <2>1, <2>2 DEF r, n
<1>6. PacketInv'
  BY <1>1 DEF PacketInv, Spills
<1>7. \A k : From(k)' = From(k)
  BY <1>1 DEF From, StartOf
<1>8. \A c, q : InStep(c, q)' <=> InStep(c, q)
  BY <1>1 DEF InStep, EndOf, Spills
<1>9. CASE r.ok
  <2>1. cursor' = r.cur /\ out' = r.out /\ field' = field + 1 /\ fault' = fault
    BY <1>9 DEF ReadField, f
  <2> HIDE DEF r
  <2>2. CursorInv'
    <3>1. out' \in Seq(Nat)
      <4>1. Run(p, n) \in Seq(Nat)
        BY <1>4, RunFacts
      <4> QED
        BY <1>5, <1>9, <2>1, <4>1, ReverseFacts
    <3>2. (field \in 1 .. Len(packet.fields) + 1)'
      BY <1>1, <1>3, <2>1
    <3>3. InStep(cursor, From(field))'
      <4>1. InStep(cursor', From(field + 1))
        BY <1>4, <1>5, <1>9, <2>1
      <4> QED
        BY <1>1, <2>1, <4>1 DEF InStep, EndOf, Spills, From, StartOf
    <3> QED
      BY <1>1, <2>1, <3>1, <3>2, <3>3 DEF CursorInv
  <2>3. ValuesExact'
    <3>1. field' - 1 = field
      BY <1>2, <1>3, <2>1
    <3>2. LastRead' = f
      BY <1>1, <3>1 DEF LastRead, f
    <3>3. From(field - 1)' = p
      BY <1>1, <3>1 DEF From, StartOf, p
    <3>4. Crosses(field - 1)' <=> Crosses(field)
      BY <1>1, <3>1 DEF Crosses, Spills, From, StartOf
    <3>5. Run(p, n) = OwnBytes'
      BY <3>2, <3>3 DEF Run, OwnBytes, n
    <3>6. ~ (f.kind = "number" /\ Crosses(field)) => out' = Run(p, n)
      BY <1>5, <1>9, <2>1
    <3> QED
      BY <3>2, <3>4, <3>5, <3>6 DEF ValuesExact
  <2>4. FaultHasCause'
    BY <1>1, <2>1 DEF FaultHasCause
  <2> QED
    BY <1>6, <2>2, <2>3, <2>4 DEF ReadInv
<1>10. CASE ~ r.ok
  <2>1. fault' = TRUE /\ cursor' = cursor /\ out' = out /\ field' = field
    BY <1>10 DEF ReadField, f
  <2>2. CursorInv'
    BY <1>1, <2>1 DEF CursorInv, InStep, EndOf, Spills, From, StartOf
  <2>3. ValuesExact'
    BY <2>1 DEF ValuesExact
  <2>4. \/ From(field + 1) - 1 > packet.bytes
        \/ f.kind = "string" /\ Crosses(field)
    <3>1. packet.bytes \in Nat
      BY <1>1 DEF PacketInv
    <3> HIDE DEF r
    <3>2. ~ (p + n - 1 <= packet.bytes) \/ (f.kind = "string" /\ Crosses(field))
      BY <1>5, <1>10
    <3> QED
      BY <1>4, <3>1, <3>2
  <2>5. FaultHasCause'
    BY <1>1, <2>1, <2>4 DEF FaultHasCause, Crosses, Spills, From, StartOf, f
  <2> QED
    BY <1>6, <2>2, <2>3, <2>5 DEF ReadInv
<1> QED
  BY <1>9, <1>10

\* Nothing else touches the packet or the cursor.
LEMMA ReadKept ==
  ASSUME ReadInv, packet' = packet, readVars' = readVars
  PROVE  ReadInv'
BY DEF ReadInv, readVars, PacketInv, CursorInv, ValuesExact, OwnBytes, FaultHasCause, LastRead,
       Crosses, Spills, From, StartOf, InStep, EndOf

THEOREM ReadInvariant == Spec => []ReadInv
<1>1. ReadInv /\ [Next]_vars => ReadInv'
  <2> SUFFICES ASSUME ReadInv, [Next]_vars PROVE ReadInv'
    OBVIOUS
  <2>1. CASE WriteByte
    BY <2>1, ReadKept DEF WriteByte
  <2>2. CASE \E n \in 1 .. Groups + 2 : ReadLength(n)
    BY <2>2, ReadKept DEF ReadLength
  <2>3. CASE ReadField
    BY <2>3, ReadStep
  <2>4. CASE UNCHANGED vars
    BY <2>4, ReadKept DEF vars
  <2> QED
    BY <2>1, <2>2, <2>3, <2>4 DEF Next
<1> QED
  BY <1>1, ReadStart, PTL DEF Spec

\* Every value that a handler reads, but a number across the buffers, is made of its
\* own bytes in their order
\* (read_char, read_varint, read_ulong, read_ushort, read_string).
THEOREM ValuesAreExact == Spec => []ValuesExact
<1>1. ReadInv => ValuesExact
  BY DEF ReadInv
<1> QED
  BY <1>1, ReadInvariant, PTL

\* After every read the cursor is at the first byte of the next field, in the
\* buffer that has it (read_across_buffers, next_cursor).
THEOREM NextFound == Spec => []ReadsInStep
<1>1. ReadInv => ReadsInStep
  <2> SUFFICES ASSUME ReadInv, ~ fault PROVE ReadsInStep
    BY DEF ReadsInStep
  <2>1. /\ cursor.at = From(field) /\ From(field) <= EndOf(cursor)
        /\ cursor.index = 1 => Spills /\ From(field) > packet.split + 1
    BY DEF ReadInv, CursorInv, InStep
  <2>2. /\ packet.split \in Nat /\ packet.ahead \in Nat
        /\ Spills => packet.ahead = 0
    BY DEF ReadInv, PacketInv
  <2>3. From(field) \in Nat
    BY FromFacts DEF ReadInv, CursorInv
  <2>4. cursor.index = 0 => EndOf(cursor) = packet.split + packet.ahead + 1
    BY DEF EndOf
  <2> QED
    BY <2>1, <2>2, <2>3, <2>4 DEF ReadsInStep
<1> QED
  BY <1>1, ReadInvariant, PTL

\* Only a field that does not end within its packet, or a string across the buffers,
\* is looked for outside of what was received (read_string, read_across_buffers).
THEOREM FaultsHaveCause == Spec => []FaultHasCause
<1>1. ReadInv => FaultHasCause
  BY DEF ReadInv
<1> QED
  BY <1>1, ReadInvariant, PTL
------------------------------------------------------------------------------
(* The varints. *)

\* The digit of n in place i.
Digit(n, i) == (n \div Weight[i - 1]) % Radix

\* The first k bytes of the stream are behind one another in one varint; and its
\* last byte is the one in place e.
Goes(k)  == \A i \in 1 .. k : Continues(wire[i])
First(e) == e \in 1 .. Groups + 1 /\ e <= Len(wire) /\ Goes(e - 1)
            /\ (e = Groups + 1 \/ ~ Continues(wire[e]))

\* v is what the first k bytes of the stream stand for.
Spells(v, k) ==
  /\ v \in 0 .. Values - 1
  /\ \A i \in 1 .. Groups + 1 : Digit(v, i) = IF i <= k THEN Segment(wire[i]) ELSE 0

\* What write_varint has written of a number that is not negative, and still has to.
WrittenInv ==
  number >= 0 =>
    /\ number < Values \div 2
    /\ \A i \in 1 .. Len(wire) : Segment(wire[i]) = Digit(number, i)
    /\ phase = "write" => /\ Len(wire) <= Groups /\ Goes(Len(wire))
                          /\ rest = number \div Weight[Len(wire)]
    /\ phase # "write" => First(Len(wire)) /\ Spells(number, Len(wire))
                          /\ (Len(wire) = Groups + 1 => wire[Groups + 1] < LastRadix)

\* read_length in the middle of a prefix; and behind one that says -1.
Within(d) ==
  /\ d.pos = d.size /\ d.size <= Groups /\ Goes(d.size)
  /\ d.value < Weight[d.size] /\ Spells(d.value, d.size)
Behind(d) ==
  /\ d.pos = Groups /\ d.value = Values - 1 /\ Groups + 1 <= d.size
  /\ First(Groups + 1) /\ wire[Groups + 1] < LastRadix /\ Spells(d.value, Groups + 1)

\* It has reached the end of the prefix.
Through(d) ==
  /\ First(d.size) /\ Spells(d.value, d.size)
  /\ \/ d.size <= Groups /\ d.value < Weight[Groups]
     \/ d.size = Groups + 1 /\ d.pos = Groups /\ wire[Groups + 1] < LastRadix

Lengths == [value : 0 .. Values - 1, pos : 0 .. Groups, size : Nat,
            status : {"reading", "done", "malformed"}]

Progress(d) ==
  /\ d \in Lengths /\ d.size <= Len(wire)
  /\ d.status = "reading"   => Within(d) \/ Behind(d)
  /\ d.status = "done"      => Through(d) \/ Behind(d)
  /\ d.status = "malformed" =>
       Behind(d) \/ (First(Groups + 1) /\ Groups + 1 <= d.size /\ ~ (wire[Groups + 1] < LastRadix))

LengthInv ==
  /\ number \in Int /\ rest \in Int /\ answer \in Int /\ got \in Nat
  /\ wire \in Seq(Bytes)
  /\ length.size <= got /\ got <= Len(wire)
  /\ Progress(length)
  /\ phase \in {"write", "length", "handler", "malformed"}
  /\ phase = "write"     => length = NothingRead /\ got = 0
  /\ phase = "length"    => \/ length.status = "reading" /\ length.size = got
                            \/ length.status = "done" /\ length.value = Values - 1
  /\ phase = "handler"   => length.status = "done" /\ length.value # Values - 1
                            /\ answer = AsInt(length.value)
  /\ phase = "malformed" => length.status = "malformed"

VarintInv == WrittenInv /\ LengthInv
------------------------------------------------------------------------------
(* Division. *)

LEMMA Divided ==
  ASSUME NEW n \in Nat, NEW w \in Nat \ {0}
  PROVE  n = (w * (n \div w)) + (n % w) /\ (n % w) \in 0 .. w - 1 /\ (n \div w) \in Nat
OBVIOUS

LEMMA Quotient ==
  ASSUME NEW q \in Nat, NEW w \in Nat \ {0}, NEW m \in 0 .. w - 1
  PROVE  ((w * q) + m) \div w = q /\ ((w * q) + m) % w = m
OBVIOUS

\* q times w, and less than w besides, is less than r times w.
LEMMA Below ==
  ASSUME NEW w \in Nat \ {0}, NEW q \in Nat, NEW r \in Nat, q < r, NEW m \in 0 .. w - 1
  PROVE  (w * q) + m < w * r
<1>1. w * (q + 1) <= w * r
  OBVIOUS
<1>2. w * (q + 1) = (w * q) + w
  OBVIOUS
<1>3. w * q \in Nat /\ w * r \in Nat
  OBVIOUS
<1> QED
  BY <1>1, <1>2, <1>3

LEMMA Under ==
  ASSUME NEW n \in Nat, NEW w \in Nat \ {0}, NEW r \in Nat, n < w * r
  PROVE  (n \div w) < r
<1>1. PICK q \in Nat : q = n \div w
  BY Divided
<1>2. n = (w * q) + (n % w) /\ (n % w) \in Nat
  BY <1>1, Divided
<1>3. ASSUME r <= q PROVE FALSE
  <2>1. w * r <= w * q
    BY <1>3
  <2>2. w * r \in Nat /\ w * q \in Nat
    OBVIOUS
  <2> QED
    BY <1>2, <2>1, <2>2
<1> QED
  BY <1>1, <1>3

LEMMA Small ==
  ASSUME NEW n \in Nat, NEW w \in Nat \ {0}, n < w
  PROVE  n \div w = 0 /\ n % w = n
<1>1. n \in 0 .. w - 1 /\ (w * 0) + n = n
  OBVIOUS
<1> QED
  BY <1>1, Quotient

\* Dividing by a product is dividing twice.
LEMMA Twice ==
  ASSUME NEW n \in Nat, NEW w \in Nat \ {0}, NEW r \in Nat \ {0}
  PROVE  /\ n \div (w * r) = (n \div w) \div r
         /\ n % (w * r) = (w * ((n \div w) % r)) + (n % w)
<1>1. PICK q \in Nat, m \in 0 .. w - 1 : q = n \div w /\ m = n % w /\ n = (w * q) + m
  BY Divided
<1>2. PICK p \in Nat, s \in 0 .. r - 1 : p = q \div r /\ s = q % r /\ q = (r * p) + s
  BY Divided
<1>3. w * r \in Nat \ {0} /\ w * s \in Nat /\ r * p \in Nat /\ (w * s) + m \in Nat
  OBVIOUS
<1>4. (w * s) + m \in 0 .. (w * r) - 1
  <2>1. (w * s) + m < w * r
    BY Below
  <2> QED
    BY <1>3, <2>1
<1>5. n = ((w * r) * p) + ((w * s) + m)
  <2>1. w * q = (w * (r * p)) + (w * s)
    BY <1>2
  <2>2. w * (r * p) = (w * r) * p
    OBVIOUS
  <2>3. (w * r) * p \in Nat
    BY <1>3
  <2> QED
    BY <1>1, <1>3, <2>1, <2>2, <2>3
<1>6. n \div (w * r) = p /\ n % (w * r) = (w * s) + m
  <2>1. PICK x \in Nat \ {0} : x = w * r
    BY <1>3
  <2>2. PICK y \in 0 .. x - 1 : y = (w * s) + m
    BY <1>4, <2>1
  <2>3. n = (x * p) + y
    BY <1>5, <2>1, <2>2
  <2>4. n \div x = p /\ n % x = y
    BY <2>3, Quotient
  <2> QED
    BY <2>1, <2>2, <2>4
<1> QED
  BY <1>1, <1>2, <1>6

\* What is a multiple of w does not change what is left.
LEMMA Added ==
  ASSUME NEW a \in Nat, NEW v \in Nat, NEW w \in Nat \ {0}
  PROVE  ((w * a) + v) \div w = a + (v \div w) /\ ((w * a) + v) % w = v % w
<1>1. PICK q \in Nat, m \in 0 .. w - 1 : q = v \div w /\ m = v % w /\ v = (w * q) + m
  BY Divided
<1>2. (w * a) + v = (w * (a + q)) + m
  <2>1. w * (a + q) = (w * a) + (w * q)
    OBVIOUS
  <2>2. w * a \in Nat /\ w * q \in Nat
    OBVIOUS
  <2> QED
    BY <1>1, <2>1, <2>2
<1>3. ((w * (a + q)) + m) \div w = a + q /\ ((w * (a + q)) + m) % w = m
  BY Quotient
<1> QED
  BY <1>1, <1>2, <1>3

------------------------------------------------------------------------------
(* Digits. *)

LEMMA WeightFacts ==
  /\ Radix \in Nat \ {0} /\ Radix > 1 /\ Groups \in Nat \ {0}
  /\ LastRadix \in Nat /\ 2 <= LastRadix /\ LastRadix <= Radix
  /\ Weight \in [0 .. Groups -> Nat \ {0}] /\ Weight[0] = 1
  /\ \A k \in 1 .. Groups : Weight[k] = Weight[k - 1] * Radix
<1> DEFINE P == Nat \ {0}
           g == [i \in 1 .. Groups |-> [x \in P |-> x * Radix]]
           a == 1
           s == Weight
<1>1. /\ Radix \in Nat \ {0} /\ Radix > 1 /\ Groups \in Nat
      /\ LastRadix \in Nat /\ 2 <= LastRadix /\ LastRadix <= Radix
  BY VarintAssumption
<1>2. a \in P /\ g \in [1 .. Groups -> [P -> P]]
  <2>1. \A x \in P : x * Radix \in P
    BY <1>1
  <2> QED
    BY <2>1
<1>3. PICK t \in [0 .. Groups -> P] : t[0] = 1 /\ \A i \in 1 .. Groups : t[i] = g[i][t[i - 1]]
  <2> HIDE DEF P, g, a
  <2>1. \E t : Iterates(t, Groups, P, a, g)
    BY <1>1, <1>2, Iterate
  <2> QED
    BY <2>1 DEF a, Iterates
<1>4. \A i \in 1 .. Groups : t[i] = t[i - 1] * Radix
  <2> SUFFICES ASSUME NEW i \in 1 .. Groups PROVE t[i] = t[i - 1] * Radix
    OBVIOUS
  <2>1. t[i - 1] \in P
    <3>1. i - 1 \in 0 .. Groups
      BY <1>1
    <3> QED
      BY <1>3, <3>1
  <2> QED
    BY <1>3, <2>1
<1>5. t = [k \in 0 .. Groups |-> IF k = 0 THEN 1 ELSE t[k - 1] * Radix]
  <2>1. ASSUME NEW k \in 0 .. Groups PROVE t[k] = IF k = 0 THEN 1 ELSE t[k - 1] * Radix
    <3>1. k = 0 \/ k \in 1 .. Groups
      BY <1>1
    <3> QED
      BY <1>3, <1>4, <3>1
  <2> HIDE DEF P, g
  <2> QED
    BY <1>3, <2>1
<1>6. s = [k \in 0 .. Groups |-> IF k = 0 THEN 1 ELSE s[k - 1] * Radix]
  BY <1>5 DEF Weight
<1> HIDE DEF s
<1>7. s[0] = 1 /\ \A i \in 1 .. Groups : s[i] = s[i - 1] * Radix
  <2>1. 0 \in 0 .. Groups /\ \A i \in 1 .. Groups : i \in 0 .. Groups /\ i # 0
    BY <1>1
  <2> QED
    BY <1>6, <2>1
<1> DEFINE T == {i \in 0 .. Groups : s[i] \in P}
<1>8. 0 .. Groups \subseteq T
  <2>1. 0 \in T
    BY <1>1, <1>7
  <2>2. ASSUME NEW i \in 1 .. Groups, i - 1 \in T PROVE i \in T
    <3>1. i \in 0 .. Groups /\ s[i - 1] \in P /\ s[i] = s[i - 1] * Radix
      BY <1>1, <1>7, <2>2
    <3> QED
      BY <1>1, <3>1
  <2> HIDE DEF T
  <2> QED
    BY <1>1, <2>1, <2>2, UpTo
<1>9. s \in [0 .. Groups -> P]
  BY <1>6, <1>8
<1> QED
  BY <1>1, <1>7, <1>9, VarintAssumption DEF s

\* A multiple of Radix does not change the lowest digit.
LEMMA RestOfRadix ==
  ASSUME NEW a \in Nat, NEW q \in Nat
  PROVE  ((Radix * a) + q) % Radix = q % Radix
<1>1. ASSUME NEW r \in Nat \ {0} PROVE ((r * a) + q) % r = q % r
  BY Added
<1> QED
  BY <1>1, WeightFacts

\* Every group counts for a multiple of what the ones before it do.
LEMMA Multiples ==
  \A k \in 0 .. Groups : \A i \in 0 .. k : \E x \in Nat \ {0} : Weight[k] = Weight[i] * x
<1> DEFINE Of(k) == \A i \in 0 .. k : \E x \in Nat \ {0} : Weight[k] = Weight[i] * x
           T == {k \in 0 .. Groups : Of(k)}
<1>1. 0 \in T
  <2>1. Weight[0] = Weight[0] * 1 /\ 1 \in Nat \ {0} /\ 0 \in 0 .. Groups
    BY WeightFacts
  <2> QED
    BY <2>1
<1>2. ASSUME NEW k \in 1 .. Groups, k - 1 \in T PROVE k \in T
  <2>1. k \in 0 .. Groups /\ k - 1 \in 0 .. Groups
    BY WeightFacts
  <2>2. ASSUME NEW i \in 0 .. k PROVE \E x \in Nat \ {0} : Weight[k] = Weight[i] * x
    <3>1. CASE i = k
      <4>1. Weight[k] = Weight[i] * 1
        BY <2>1, <3>1, WeightFacts
      <4> QED
        BY <4>1
    <3>2. CASE i # k
      <4>1. i \in 0 .. k - 1 /\ i \in 0 .. Groups
        BY <2>1, <3>2, WeightFacts
      <4>2. PICK x \in Nat \ {0} : Weight[k - 1] = Weight[i] * x
        BY <1>2, <4>1
      <4>3. PICK w \in Nat \ {0} : w = Weight[i]
        BY <4>1, WeightFacts
      <4>4. Weight[k] = (w * x) * Radix
        BY <4>2, <4>3, WeightFacts
      <4>5. (w * x) * Radix = w * (x * Radix) /\ x * Radix \in Nat \ {0}
        BY WeightFacts
      <4> QED
        BY <4>3, <4>4, <4>5
    <3> QED
      BY <3>1, <3>2
  <2> QED
    BY <2>1, <2>2
<1>3. 0 .. Groups \subseteq T
  <2> HIDE DEF T
  <2> QED
    BY <1>1, <1>2, WeightFacts, UpTo
<1> QED
  BY <1>3

\* The groups before one count for less, and all of them for less than Values.
LEMMA WeightOrder ==
  /\ \A k \in 0 .. Groups : \A i \in 0 .. k : Weight[i] <= Weight[k]
  /\ Values \in Nat /\ Values = Weight[Groups] * LastRadix
  /\ Values <= Weight[Groups] * Radix /\ Weight[Groups] + Weight[Groups] <= Values
  /\ Values \div 2 \in Nat /\ Values \div 2 < Values /\ Values - 1 \in 0 .. Values - 1
<1>1. ASSUME NEW k \in 0 .. Groups, NEW i \in 0 .. k PROVE Weight[i] <= Weight[k]
  <2>1. PICK x \in Nat \ {0} : Weight[k] = Weight[i] * x
    BY Multiples
  <2>2. PICK w \in Nat \ {0} : w = Weight[i]
    <3>1. i \in 0 .. Groups
      BY WeightFacts
    <3> QED
      BY <3>1, WeightFacts
  <2>3. w * 1 <= w * x /\ w * 1 = w
    OBVIOUS
  <2> QED
    BY <2>1, <2>2, <2>3
<1>2. PICK w \in Nat \ {0} : w = Weight[Groups]
  BY WeightFacts
<1>3. w * LastRadix <= w * Radix /\ w * 2 <= w * LastRadix
  BY WeightFacts
<1>4. Values = w * LastRadix /\ w * 2 = w + w
  BY <1>2 DEF Values
<1>5. Values \in Nat
  BY <1>4, WeightFacts
<1>6. Values >= 2
  BY <1>3, <1>4, <1>5
<1>7. Values \div 2 \in Nat /\ Values \div 2 < Values /\ Values - 1 \in 0 .. Values - 1
  BY <1>5, <1>6
<1> QED
  BY <1>1, <1>2, <1>3, <1>4, <1>5, <1>7, WeightFacts

\* Numbers whose digits are the same are.
LEMMA SameDigits ==
  ASSUME NEW u \in 0 .. Values - 1, NEW v \in 0 .. Values - 1,
         \A i \in 1 .. Groups + 1 : Digit(u, i) = Digit(v, i)
  PROVE  u = v
<1>1. u \in Nat /\ v \in Nat /\ u < Values /\ v < Values
  BY WeightOrder
<1> DEFINE T == {k \in 0 .. Groups : u % Weight[k] = v % Weight[k]}
<1>2. 0 \in T
  <2>1. u % 1 = 0 /\ v % 1 = 0
    BY <1>1
  <2> QED
    BY <2>1, WeightFacts
<1>3. ASSUME NEW k \in 1 .. Groups, k - 1 \in T PROVE k \in T
  <2>1. k \in 0 .. Groups /\ k - 1 \in 0 .. Groups /\ k \in 1 .. Groups + 1
    BY WeightFacts
  <2>2. PICK w \in Nat \ {0} : w = Weight[k - 1]
    BY <2>1, WeightFacts
  <2>3. Weight[k] = w * Radix
    BY <2>2, WeightFacts
  <2>4. (u \div w) % Radix = (v \div w) % Radix
    <3>1. Digit(u, k) = Digit(v, k)
      BY <2>1
    <3> QED
      BY <2>2, <3>1 DEF Digit
  <2>5. u % w = v % w
    BY <1>3, <2>2
  <2>6. u % (w * Radix) = v % (w * Radix)
    <3>1. /\ u % (w * Radix) = (w * ((u \div w) % Radix)) + (u % w)
          /\ v % (w * Radix) = (w * ((v \div w) % Radix)) + (v % w)
      BY <1>1, WeightFacts, Twice
    <3> QED
      BY <2>4, <2>5, <3>1
  <2> QED
    BY <2>1, <2>3, <2>6
<1>4. u % Weight[Groups] = v % Weight[Groups]
  <2>1. Groups \in Nat /\ Groups \in 0 .. Groups
    BY WeightFacts
  <2>2. 0 .. Groups \subseteq T
    <3> HIDE DEF T
    <3> QED
      BY <1>2, <1>3, <2>1, UpTo
  <2> QED
    BY <2>1, <2>2
<1>5. PICK w \in Nat \ {0} : w = Weight[Groups]
  BY WeightFacts
<1>6. (u \div w) < Radix /\ (v \div w) < Radix
  <2>1. u < w * Radix /\ v < w * Radix
    <3>1. w * Radix \in Nat
      BY WeightFacts
    <3>2. Values <= w * Radix /\ Values \in Nat
      BY <1>5, WeightOrder
    <3> QED
      BY <1>1, <3>1, <3>2
  <2> QED
    BY <1>1, <2>1, WeightFacts, Under
<1>7. u \div w = v \div w
  <2>1. Digit(u, Groups + 1) = Digit(v, Groups + 1) /\ (Groups + 1) - 1 = Groups
    BY WeightFacts
  <2>2. (u \div w) % Radix = (v \div w) % Radix
    BY <1>5, <2>1 DEF Digit
  <2>3. (u \div w) \in Nat /\ (v \div w) \in Nat
    BY <1>1, Divided
  <2>4. (u \div w) % Radix = u \div w /\ (v \div w) % Radix = v \div w
    BY <1>6, <2>3, WeightFacts, Small
  <2> QED
    BY <2>2, <2>4
<1> QED
  <2>1. u = (w * (u \div w)) + (u % w) /\ v = (w * (v \div w)) + (v % w)
    BY <1>1, Divided
  <2> QED
    BY <1>4, <1>5, <1>7, <2>1

\* A digit more, in the next place.
LEMMA NextDigit ==
  ASSUME NEW k \in 0 .. Groups, NEW v \in Nat, v < Weight[k], NEW s \in Nat, s < Radix,
         k = Groups => s < LastRadix
  PROVE  LET u == v + (s * Weight[k])
         IN  /\ u \in 0 .. Values - 1
             /\ k < Groups => u < Weight[k + 1]
             /\ \A i \in 1 .. Groups + 1 :
                  Digit(u, i) = IF i <= k THEN Digit(v, i) ELSE IF i = k + 1 THEN s ELSE 0
<1>1. PICK w \in Nat \ {0} : w = Weight[k]
  BY WeightFacts
<1>2. PICK u \in Nat : u = (w * s) + v
  <2>1. w * s \in Nat
    OBVIOUS
  <2> QED
    BY <2>1
<1>3. u = v + (s * Weight[k])
  <2>1. w * s = s * w /\ w * s \in Nat
    OBVIOUS
  <2> QED
    BY <1>1, <1>2, <2>1
<1>4. v \in 0 .. w - 1
  BY <1>1
<1>5. ASSUME k < Groups PROVE u < Weight[k + 1]
  <2>1. u < w * Radix
    BY <1>2, <1>4, WeightFacts, Below
  <2>2. k + 1 \in 1 .. Groups /\ (k + 1) - 1 = k
    BY <1>5, WeightFacts
  <2>3. Weight[k + 1] = w * Radix
    BY <1>1, <2>2, WeightFacts
  <2> QED
    BY <2>1, <2>3
<1>6. u \in 0 .. Values - 1
  <2>1. CASE k < Groups
    <3>1. k + 1 \in 0 .. Groups /\ Groups \in 0 .. Groups
      BY <2>1, WeightFacts
    <3>2. Weight[k + 1] <= Weight[Groups] /\ Weight[k + 1] \in Nat /\ Weight[Groups] \in Nat
      <4>1. k + 1 \in 0 .. Groups /\ k + 1 <= Groups
        BY <2>1, <3>1, WeightFacts
      <4> QED
        BY <3>1, <4>1, WeightFacts, WeightOrder
    <3>3. Weight[Groups] <= Values /\ Values \in Nat
      BY <3>2, WeightOrder
    <3> QED
      BY <1>5, <2>1, <3>2, <3>3
  <2>2. CASE k = Groups
    <3>1. u < w * LastRadix
      BY <1>2, <1>4, <2>2, WeightFacts, Below
    <3>2. Values = w * LastRadix /\ Values \in Nat
      BY <1>1, <2>2, WeightOrder
    <3> QED
      BY <3>1, <3>2
  <2> QED
    BY <2>1, <2>2, WeightFacts
<1>7. ASSUME NEW i \in 1 .. Groups + 1
      PROVE  Digit(u, i) = IF i <= k THEN Digit(v, i) ELSE IF i = k + 1 THEN s ELSE 0
  <2>1. i - 1 \in 0 .. Groups
    BY WeightFacts
  <2>2. PICK x \in Nat \ {0} : x = Weight[i - 1]
    BY <2>1, WeightFacts
  <2>3. CASE i <= k
    <3>1. i \in 1 .. Groups /\ i \in 0 .. k
      BY <2>3, WeightFacts
    <3>2. Weight[i] = x * Radix
      BY <2>2, <3>1, WeightFacts
    <3>3. PICK y \in Nat \ {0} : w = Weight[i] * y
      BY <1>1, <3>1, Multiples
    <3>4. PICK a \in Nat : a = y * s
      BY <3>3
    <3>5. w * s = x * (Radix * a)
      <4>1. w * s = ((x * Radix) * y) * s
        BY <3>2, <3>3
      <4>2. ((x * Radix) * y) * s = (x * Radix) * a
        BY <3>4, WeightFacts
      <4>3. (x * Radix) * a = x * (Radix * a)
        BY WeightFacts
      <4> QED
        BY <4>1, <4>2, <4>3
    <3>6. PICK b \in Nat : b = Radix * a
      BY WeightFacts
    <3>7. u \div x = b + (v \div x)
      <4>1. u = (x * b) + v
        BY <1>2, <3>5, <3>6
      <4>2. ((x * b) + v) \div x = b + (v \div x)
        BY Added
      <4> QED
        BY <4>1, <4>2
    <3>8. (v \div x) \in Nat
      BY Divided
    <3>9. ((Radix * a) + (v \div x)) % Radix = (v \div x) % Radix
      <4>1. PICK q \in Nat : q = v \div x
        BY <3>8
      <4>2. ((Radix * a) + q) % Radix = q % Radix
        BY RestOfRadix
      <4> QED
        BY <4>1, <4>2
    <3> QED
      BY <2>2, <2>3, <3>6, <3>7, <3>9 DEF Digit
  <2>4. CASE i = k + 1
    <3>1. i - 1 = k
      BY <2>4
    <3>2. u \div w = s
      BY <1>2, <1>4, Quotient
    <3>3. s % Radix = s
      BY WeightFacts, Small
    <3>4. Digit(u, i) = s
      BY <1>1, <3>1, <3>2, <3>3 DEF Digit
    <3> QED
      BY <2>4, <3>4
  <2>5. CASE i > k + 1
    <3>1. k < Groups /\ k + 1 \in 0 .. i - 1 /\ k + 1 \in 0 .. Groups
      BY <2>5, WeightFacts
    <3>2. Weight[k + 1] <= x
      BY <2>1, <2>2, <3>1, WeightOrder
    <3>3. u < x
      <4>1. u < Weight[k + 1] /\ Weight[k + 1] \in Nat
        BY <1>5, <3>1, WeightFacts
      <4> QED
        BY <3>2, <4>1
    <3>4. u \div x = 0
      BY <3>3, Small
    <3>5. 0 % Radix = 0
      BY WeightFacts, Small
    <3>6. Digit(u, i) = 0
      BY <2>2, <3>4, <3>5 DEF Digit
    <3> QED
      BY <2>5, <3>6
  <2> QED
    BY <2>3, <2>4, <2>5
<1> QED
  BY <1>3, <1>5, <1>6, <1>7
------------------------------------------------------------------------------
(* Reading a prefix. *)

LEMMA ByteFacts ==
  ASSUME wire \in Seq(Bytes), NEW i \in 1 .. Len(wire)
  PROVE  /\ wire[i] \in Nat /\ Segment(wire[i]) \in Nat /\ Segment(wire[i]) < Radix
         /\ wire[i] < LastRadix => Segment(wire[i]) = wire[i] /\ ~ Continues(wire[i])
         /\ ~ Continues(wire[i]) => Segment(wire[i]) = wire[i]
<1>1. wire[i] \in Bytes
  OBVIOUS
<1>2. wire[i] \in Nat
  BY <1>1, WeightFacts DEF Bytes
<1>3. Segment(wire[i]) \in Nat /\ Segment(wire[i]) < Radix
  <2>1. PICK c \in Nat : c = wire[i]
    BY <1>2
  <2>2. (c % Radix) \in 0 .. Radix - 1
    BY WeightFacts, Divided
  <2>3. (c % Radix) \in Nat /\ c % Radix < Radix
    BY <2>2, WeightFacts
  <2> QED
    BY <2>1, <2>3 DEF Segment
<1>4. ASSUME wire[i] < Radix PROVE Segment(wire[i]) = wire[i]
  BY <1>2, <1>4, WeightFacts, Small DEF Segment
<1>5. wire[i] < LastRadix => wire[i] < Radix
  BY <1>2, WeightFacts
<1>6. ~ Continues(wire[i]) <=> wire[i] < Radix
  BY <1>2, WeightFacts DEF Continues
<1> QED
  BY <1>2, <1>3, <1>4, <1>5, <1>6

\* One more byte is or'ed in.
LEMMA SpellsOn ==
  ASSUME wire \in Seq(Bytes), NEW k \in 0 .. Groups, k + 1 <= Len(wire),
         NEW v, v < Weight[k], Spells(v, k), k = Groups => wire[k + 1] < LastRadix
  PROVE  LET u == v + (Segment(wire[k + 1]) * Weight[k])
         IN  /\ Spells(u, k + 1)
             /\ k < Groups => u < Weight[k + 1]
<1>1. v \in Nat
  BY WeightOrder DEF Spells
<1>2. k + 1 \in 1 .. Len(wire)
  BY WeightFacts
<1>3. PICK s \in Nat : s = Segment(wire[k + 1]) /\ s < Radix /\ (k = Groups => s < LastRadix)
  BY <1>2, ByteFacts
<1> DEFINE u == v + (s * Weight[k])
<1>4. /\ u \in 0 .. Values - 1
      /\ k < Groups => u < Weight[k + 1]
      /\ \A i \in 1 .. Groups + 1 :
           Digit(u, i) = IF i <= k THEN Digit(v, i) ELSE IF i = k + 1 THEN s ELSE 0
  BY <1>1, <1>3, NextDigit
<1> HIDE DEF u
<1>5. ASSUME NEW i \in 1 .. Groups + 1
      PROVE  Digit(u, i) = IF i <= k + 1 THEN Segment(wire[i]) ELSE 0
  <2>1. Digit(v, i) = IF i <= k THEN Segment(wire[i]) ELSE 0
    BY DEF Spells
  <2>2. i \in Nat /\ k \in Nat
    BY WeightFacts
  <2>3. i <= k + 1 <=> i <= k \/ i = k + 1
    BY <2>2
  <2> QED
    BY <1>3, <1>4, <2>1, <2>3
<1>6. Spells(u, k + 1)
  BY <1>4, <1>5 DEF Spells
<1> QED
  BY <1>3, <1>4, <1>6 DEF u

\* A prefix has one end.
LEMMA FirstOnce ==
  ASSUME NEW e, First(e), NEW f, First(f)
  PROVE  e = f
<1>1. e \in 1 .. Groups + 1 /\ f \in 1 .. Groups + 1 /\ Groups \in Nat
  BY WeightFacts DEF First
<1>2. ASSUME e < f PROVE FALSE
  <2>1. e \in 1 .. f - 1
    BY <1>1, <1>2
  <2>2. Continues(wire[e]) /\ e # Groups + 1
    BY <1>1, <1>2, <2>1 DEF First, Goes
  <2> QED
    BY <2>2 DEF First
<1>3. ASSUME f < e PROVE FALSE
  <2>1. f \in 1 .. e - 1
    BY <1>1, <1>3
  <2>2. Continues(wire[f]) /\ f # Groups + 1
    BY <1>1, <1>3, <2>1 DEF First, Goes
  <2> QED
    BY <2>2 DEF First
<1> QED
  BY <1>1, <1>2, <1>3

\* What is at the beginning of the bytes that have come.
LEMMA Come ==
  ASSUME wire \in Seq(Bytes), got \in Nat, got <= Len(wire)
  PROVE  LET come == SubSeq(wire, 1, got)
         IN  /\ \A e : First(e) /\ e <= got =>
                  /\ SizeIn(come) = e
                  /\ WellFormed(come) <=> (e = Groups + 1 => wire[Groups + 1] < LastRadix)
                  /\ \A v : Spells(v, e) => ValueOf(come) = v
             /\ Goes(got) /\ got <= Groups => SizeIn(come) = 0
<1> DEFINE come == SubSeq(wire, 1, got)
<1>1. /\ come \in Seq(Bytes) /\ Len(come) = got /\ DOMAIN come = 1 .. got
      /\ \A i \in 1 .. got : come[i] = wire[i]
  OBVIOUS
<1> HIDE DEF come
<1>2. Groups \in Nat
  BY WeightFacts
<1>3. ASSUME NEW e, First(e), e <= got
      PROVE  /\ SizeIn(come) = e
             /\ WellFormed(come) <=> (e = Groups + 1 => wire[Groups + 1] < LastRadix)
             /\ \A v : Spells(v, e) => ValueOf(come) = v
  <2>1. e \in 1 .. Groups + 1 /\ e \in 1 .. got /\ Goes(e - 1)
        /\ (e = Groups + 1 \/ ~ Continues(wire[e]))
    BY <1>2, <1>3 DEF First
  <2>2. Ends(come, e)
    BY <1>1, <2>1 DEF Ends
  <2>3. \A j \in 1 .. e - 1 : ~ Ends(come, j)
    BY <1>1, <1>2, <2>1 DEF Ends, Goes
  <2>4. \A i \in 1 .. got : Ends(come, i) /\ (\A j \in 1 .. i - 1 : ~ Ends(come, j)) => i = e
    <3> SUFFICES ASSUME NEW i \in 1 .. got, Ends(come, i), \A j \in 1 .. i - 1 : ~ Ends(come, j)
                 PROVE  i = e
      OBVIOUS
    <3>1. ~ (e \in 1 .. i - 1)
      BY <2>2
    <3>2. ~ (i \in 1 .. e - 1)
      BY <2>3
    <3> QED
      BY <2>1, <3>1, <3>2
  <2>5. SizeIn(come) = e
    BY <1>1, <2>1, <2>2, <2>3, <2>4 DEF SizeIn
  <2>6. WellFormed(come) <=> (e = Groups + 1 => wire[Groups + 1] < LastRadix)
    BY <1>1, <2>1, <2>5 DEF WellFormed
  <2>7. ASSUME NEW v, Spells(v, e) PROVE ValueOf(come) = v
    <3> DEFINE Is(x) == \A i \in 1 .. Groups + 1 :
                          Digit(x, i) = IF i <= e THEN Segment(come[i]) ELSE 0
    <3>1. \A i \in 1 .. Groups + 1 : i <= e => come[i] = wire[i]
      BY <1>1, <1>2, <2>1
    <3>2. v \in 0 .. Values - 1 /\ Is(v)
      BY <2>7, <3>1 DEF Spells
    <3>3. ASSUME NEW x \in 0 .. Values - 1, Is(x) PROVE x = v
      <4>1. \A i \in 1 .. Groups + 1 : Digit(x, i) = Digit(v, i)
        BY <3>2, <3>3
      <4> QED
        BY <3>2, <4>1, SameDigits
    <3>4. ValueOf(come) = CHOOSE x \in 0 .. Values - 1 : Is(x)
      BY <2>5 DEF ValueOf, Digit
    <3> HIDE DEF Is
    <3> QED
      BY <3>2, <3>3, <3>4
  <2> QED
    BY <2>5, <2>6, <2>7
<1>4. ASSUME Goes(got), got <= Groups PROVE SizeIn(come) = 0
  <2>1. \A i \in DOMAIN come : ~ Ends(come, i)
    BY <1>1, <1>2, <1>4 DEF Ends, Goes
  <2> QED
    BY <2>1 DEF SizeIn
<1> QED
  BY <1>3, <1>4 DEF come

\* Every byte that read_length takes brings it further.
LEMMA TakeOn ==
  ASSUME wire \in Seq(Bytes), NEW d, Progress(d), d.status = "reading", d.size + 1 <= Len(wire)
  PROVE  LET e == Take(d, wire[d.size + 1])
         IN  Progress(e) /\ e.size = d.size + 1
<1> DEFINE c == wire[d.size + 1]
           e == Take(d, c)
           k == d.size
<1>1. d \in Lengths /\ k \in Nat /\ d.pos \in 0 .. Groups /\ d.value \in 0 .. Values - 1
  BY DEF Progress, Lengths
<1>2. Groups \in Nat /\ Groups \in 0 .. Groups
  BY WeightFacts
<1>3. k + 1 \in 1 .. Len(wire)
  BY <1>1
<1>4. c \in Nat /\ Segment(c) \in Nat /\ Segment(c) < Radix
      /\ (c < LastRadix => Segment(c) = c /\ ~ Continues(c))
  BY <1>3, ByteFacts
<1> HIDE DEF c
<1>5. ASSUME Within(d), k < Groups PROVE Progress(e) /\ e.size = k + 1
  <2> DEFINE u == d.value + (Segment(c) * Weight[k])
             p == IF Continues(c) THEN k + 1 ELSE k
             t == IF Continues(c) THEN "reading" ELSE "done"
  <2>1. e = [value |-> u, pos |-> p, size |-> k + 1, status |-> t]
    <3>1. d.pos = k /\ k # Groups
      BY <1>2, <1>5 DEF Within
    <3>2. d.value + (Segment(c) * Weight[d.pos]) = u
      BY <3>1
    <3> HIDE DEF u
    <3>3. e = [d EXCEPT !.size = k + 1, !.value = u, !.pos = p, !.status = t]
      BY <3>1, <3>2 DEF Take
    <3>4. d = [value |-> d.value, pos |-> k, size |-> k, status |-> d.status]
      BY <1>1, <3>1 DEF Lengths
    <3> HIDE DEF e, p, t
    <3> QED
      BY <3>3, <3>4
  <2>2. Spells(u, k + 1) /\ u < Weight[k + 1]
    BY <1>1, <1>2, <1>3, <1>5, SpellsOn DEF Within, c
  <2>3. p \in 0 .. Groups /\ k + 1 \in Nat /\ k + 1 <= Groups
    BY <1>1, <1>2, <1>5
  <2>4. u \in 0 .. Values - 1
    BY <2>2 DEF Spells
  <2> HIDE DEF e, u
  <2>5. e \in Lengths
    BY <2>1, <2>3, <2>4 DEF Lengths
  <2>6. Goes(k)
    BY <1>5 DEF Within
  <2>7. CASE Continues(c)
    <3>1. Goes(k + 1)
      BY <1>1, <2>6, <2>7 DEF Goes, c
    <3>2. e.pos = e.size /\ e.size = k + 1 /\ e.value = u /\ e.status = "reading"
      BY <2>1, <2>7
    <3>3. Within(e)
      BY <2>2, <2>3, <3>1, <3>2 DEF Within
    <3> QED
      BY <1>3, <2>5, <3>2, <3>3 DEF Progress
  <2>8. CASE ~ Continues(c)
    <3>1. e.size = k + 1 /\ e.value = u /\ e.status = "done"
      BY <2>1, <2>8
    <3>2. First(k + 1)
      BY <1>1, <1>2, <1>3, <2>3, <2>6, <2>8 DEF First, c
    <3>3. u < Weight[Groups]
      <4>1. Weight[k + 1] <= Weight[Groups] /\ Weight[k + 1] \in Nat /\ Weight[Groups] \in Nat
        <5>1. k + 1 \in 0 .. Groups
          BY <1>2, <2>3
        <5> QED
          BY <1>2, <5>1, WeightFacts, WeightOrder
      <4>2. u \in Nat
        BY <2>4, WeightOrder
      <4> QED
        BY <2>2, <4>1, <4>2
    <3>4. Through(e)
      BY <2>2, <2>3, <3>1, <3>2, <3>3 DEF Through
    <3> QED
      BY <1>3, <2>5, <3>1, <3>4 DEF Progress
  <2> QED
    BY <2>7, <2>8
<1>6. ASSUME Within(d), k = Groups PROVE Progress(e) /\ e.size = k + 1
  <2> DEFINE u == d.value + (c * Weight[Groups])
  <2>1. /\ e.size = k + 1 /\ e.pos = Groups
        /\ c < LastRadix => e = [value |-> u, pos |-> Groups, size |-> k + 1, status |-> "done"]
        /\ ~ (c < LastRadix) =>
             e = [value |-> d.value, pos |-> Groups, size |-> k + 1, status |-> "malformed"]
    BY <1>1, <1>2, <1>6 DEF Take, TakeLast, Within, Lengths
  <2>2. Goes(Groups) /\ First(Groups + 1)
    BY <1>2, <1>3, <1>6 DEF Within, First
  <2>3. CASE c < LastRadix
    <3>1. Spells(u, Groups + 1)
      BY <1>2, <1>3, <1>4, <1>6, <2>3, SpellsOn DEF Within, c
    <3>2. u \in 0 .. Values - 1
      BY <3>1 DEF Spells
    <3> HIDE DEF e, u
    <3>3. e \in Lengths /\ e.status = "done" /\ e.value = u
      BY <1>2, <1>6, <2>1, <2>3, <3>2 DEF Lengths
    <3>4. Through(e)
      BY <1>6, <2>1, <2>2, <2>3, <3>1, <3>3 DEF Through, c
    <3> QED
      BY <1>3, <2>1, <3>3, <3>4 DEF Progress
  <2>4. CASE ~ (c < LastRadix)
    <3> HIDE DEF e
    <3>1. e \in Lengths /\ e.status = "malformed"
      BY <1>1, <1>2, <1>6, <2>1, <2>4 DEF Lengths
    <3> QED
      BY <1>2, <1>3, <1>6, <2>1, <2>2, <2>4, <3>1 DEF Progress, c
  <2> QED
    BY <2>3, <2>4
<1>7. ASSUME Behind(d) PROVE Progress(e) /\ e.size = k + 1
  <2>1. ~ (d.value < Weight[Groups])
    <3>1. /\ Weight[Groups] \in Nat \ {0} /\ Values \in Nat
          /\ Weight[Groups] + Weight[Groups] <= Values
      BY <1>2, WeightFacts, WeightOrder
    <3> QED
      BY <1>7, <3>1 DEF Behind
  <2> DEFINE t == IF c < LastRadix THEN "done" ELSE "malformed"
  <2>2. e = [value |-> d.value, pos |-> Groups, size |-> k + 1, status |-> t]
    BY <1>1, <1>2, <1>7, <2>1 DEF Take, TakeLast, Behind, Lengths
  <2> HIDE DEF e
  <2>3. e \in Lengths /\ e.status \in {"done", "malformed"} /\ e.size = k + 1
    BY <1>1, <1>2, <2>2 DEF Lengths
  <2>4. Behind(e)
    BY <1>1, <1>2, <1>7, <2>2 DEF Behind
  <2> QED
    BY <1>3, <2>3, <2>4 DEF Progress
<1>8. Progress(e) /\ e.size = k + 1
  <2>1. Within(d) \/ Behind(d)
    BY DEF Progress
  <2>2. Within(d) => k < Groups \/ k = Groups
    BY <1>1, <1>2 DEF Within
  <2> QED
    BY <1>5, <1>6, <1>7, <2>1, <2>2
<1> QED
  BY <1>8 DEF c

\* What the loop of read_length makes of its state, whatever that is.
LEMMA TakeRange ==
  ASSUME NEW d \in [value : Nat, pos : 0 .. Groups, size : Nat,
                    status : {"reading", "done", "malformed"}], NEW c \in Nat
  PROVE  TakeNext(d, c) \in [value : Nat, pos : 0 .. Groups, size : Nat,
                             status : {"reading", "done", "malformed"}]
<1> DEFINE S == {"reading", "done", "malformed"}
<1>1. /\ d.value \in Nat /\ d.pos \in 0 .. Groups /\ d.size \in Nat /\ d.status \in S
      /\ d = [value |-> d.value, pos |-> d.pos, size |-> d.size, status |-> d.status]
  OBVIOUS
<1>2. Groups \in Nat /\ Weight[d.pos] \in Nat /\ Weight[Groups] \in Nat
  <2>1. Groups \in 0 .. Groups
    BY WeightFacts
  <2> QED
    BY <1>1, <2>1, WeightFacts
<1>3. Segment(c) \in Nat
  BY WeightFacts, Divided DEF Segment
<1>4. PICK a \in Nat : a = Segment(c) * Weight[d.pos]
  BY <1>2, <1>3
<1>5. PICK b \in Nat : b = c * Weight[Groups]
  BY <1>2
<1>6. CASE d.pos = Groups
  <2> DEFINE v == IF c < LastRadix /\ d.value < Weight[Groups] THEN d.value + b ELSE d.value
             t == IF c < LastRadix THEN "done" ELSE "malformed"
  <2>1. Take(d, c) = [d EXCEPT !.size = @ + 1, !.value = v, !.status = t]
    BY <1>5, <1>6 DEF Take, TakeLast
  <2>2. v \in Nat /\ t \in S
    BY <1>1
  <2> HIDE DEF v, t
  <2>3. Take(d, c) = [value |-> v, pos |-> d.pos, size |-> d.size + 1, status |-> t]
    BY <1>1, <2>1
  <2> QED
    BY <1>1, <2>2, <2>3 DEF TakeNext
<1>7. CASE d.pos # Groups
  <2> DEFINE v == d.value + a
             p == IF Continues(c) THEN d.pos + 1 ELSE d.pos
             t == IF Continues(c) THEN "reading" ELSE "done"
  <2>1. Take(d, c) = [d EXCEPT !.size = @ + 1, !.value = v, !.pos = p, !.status = t]
    BY <1>4, <1>7 DEF Take
  <2>2. v \in Nat /\ t \in S /\ p \in 0 .. Groups
    BY <1>1, <1>2, <1>7
  <2> HIDE DEF v, t, p
  <2>3. Take(d, c) = [value |-> v, pos |-> p, size |-> d.size + 1, status |-> t]
    BY <1>1, <2>1
  <2> QED
    BY <1>1, <2>2, <2>3 DEF TakeNext
<1> QED
  BY <1>6, <1>7

\* A prefix that said -1 is gone on with.
LEMMA ResumedOn ==
  ASSUME LengthInv, phase = "length"
  PROVE  /\ Progress(Resumed(length)) /\ Resumed(length).status = "reading"
         /\ Resumed(length).size = length.size
<1> DEFINE d == Resumed(length)
<1>1. length \in Lengths /\ Progress(length)
  BY DEF LengthInv, Progress
<1>2. /\ d \in Lengths /\ d.status = "reading"
      /\ d.size = length.size /\ d.pos = length.pos /\ d.value = length.value
  BY <1>1 DEF Resumed, Lengths
<1>3. CASE length.status = "reading"
  BY <1>1, <1>2, <1>3 DEF Progress, Within, Behind
<1>4. CASE length.status = "done" /\ length.value = Values - 1
  <2>1. Through(length) \/ Behind(length)
    BY <1>1, <1>4 DEF Progress
  <2>2. ~ (length.value < Weight[Groups])
    <3>1. Groups \in 0 .. Groups
      BY WeightFacts
    <3>2. /\ Weight[Groups] \in Nat \ {0} /\ Values \in Nat
          /\ Weight[Groups] + Weight[Groups] <= Values
      BY <3>1, WeightFacts, WeightOrder
    <3> QED
      BY <1>4, <3>2
  <2>3. Behind(length)
    <3>1. CASE Through(length)
      <4>1. length.size = Groups + 1 /\ length.pos = Groups /\ wire[Groups + 1] < LastRadix
            /\ First(length.size) /\ Spells(length.value, length.size)
        BY <2>2, <3>1 DEF Through
      <4>2. Groups + 1 <= length.size
        BY <4>1, WeightFacts
      <4> QED
        BY <1>4, <4>1, <4>2 DEF Behind
    <3> QED
      BY <2>1, <3>1
  <2>4. Behind(d)
    BY <1>2, <2>3 DEF Behind
  <2> HIDE DEF d
  <2> QED
    BY <1>1, <1>2, <2>4 DEF Progress, d
<1> QED
  BY <1>3, <1>4 DEF LengthInv

\* All the bytes that have come are taken until the prefix ends.
LEMMA TakenOn ==
  ASSUME LengthInv, NEW n \in Nat, ReadLength(n)
  PROVE  /\ Progress(length') /\ length'.size <= got'
         /\ length'.status = "reading" => length'.size = got'
<1> DEFINE R == [value : Nat, pos : 0 .. Groups, size : Nat,
                 status : {"reading", "done", "malformed"}]
           z == length.size
           m == (got + n) - z
           a == Resumed(length)
           g == [i \in 1 .. m |-> [d \in R |-> TakeNext(d, wire[z + i])]]
           s == CHOOSE f : f = [i \in 0 .. m |-> IF i = 0 THEN Resumed(length)
                                                 ELSE TakeNext(f[i - 1], wire[z + i])]
<1>1. /\ got \in Nat /\ got' = got + n /\ got + n <= Len(wire)
      /\ z <= got /\ wire \in Seq(Bytes) /\ phase = "length"
  BY DEF LengthInv, ReadLength
<1>2. z \in Nat
  BY DEF LengthInv, Progress, Lengths
<1>3. m \in Nat /\ z + m = got + n
  BY <1>1, <1>2
<1>4. \A i \in 1 .. m : wire[z + i] \in Nat /\ z + i <= Len(wire)
  <2> SUFFICES ASSUME NEW i \in 1 .. m PROVE wire[z + i] \in Nat /\ z + i <= Len(wire)
    OBVIOUS
  <2>1. z + i \in 1 .. Len(wire)
    BY <1>1, <1>2, <1>3
  <2>2. PICK j \in 1 .. Len(wire) : j = z + i
    BY <2>1
  <2>3. wire[j] \in Nat
    BY <1>1, ByteFacts
  <2> QED
    BY <2>1, <2>2, <2>3
<1>5. Progress(a) /\ a.status = "reading" /\ a.size = z
  BY <1>1, ResumedOn
<1>6. a \in R
  BY <1>5, WeightOrder DEF Progress, Lengths
<1>7. g \in [1 .. m -> [R -> R]]
  <2>1. ASSUME NEW i \in 1 .. m PROVE [d \in R |-> TakeNext(d, wire[z + i])] \in [R -> R]
    BY <1>4, TakeRange
  <2> QED
    BY <2>1
<1>8. PICK t : Iterates(t, m, R, a, g)
  <2> HIDE DEF R, m, a, g
  <2> QED
    BY <1>3, <1>6, <1>7, Iterate
<1>9. t \in [0 .. m -> R] /\ t[0] = a /\ \A i \in 1 .. m : t[i] = TakeNext(t[i - 1], wire[z + i])
  <2>1. t \in [0 .. m -> R] /\ t[0] = a /\ \A i \in 1 .. m : t[i] = g[i][t[i - 1]]
    BY <1>8 DEF Iterates
  <2>2. \A i \in 1 .. m : i - 1 \in 0 .. m
    BY <1>3
  <2> HIDE DEF m, R, a
  <2> QED
    BY <2>1, <2>2
<1>10. t = [i \in 0 .. m |-> IF i = 0 THEN Resumed(length) ELSE TakeNext(t[i - 1], wire[z + i])]
  <2> HIDE DEF m, R, g
  <2>1. ASSUME NEW i \in 0 .. m
        PROVE  t[i] = IF i = 0 THEN Resumed(length) ELSE TakeNext(t[i - 1], wire[z + i])
    <3>1. i = 0 \/ i \in 1 .. m
      BY <1>3
    <3> QED
      BY <1>9, <3>1
  <2> QED
    BY <1>9, <2>1
<1>11. s = [i \in 0 .. m |-> IF i = 0 THEN Resumed(length) ELSE TakeNext(s[i - 1], wire[z + i])]
  BY <1>10
<1>12. length' = s[m]
  BY <1>1 DEF ReadLength
<1> HIDE DEF s, a, g, R, m
<1>13. s[0] = Resumed(length) /\ \A i \in 1 .. m : s[i] = TakeNext(s[i - 1], wire[z + i])
  <2>1. 0 \in 0 .. m /\ \A i \in 1 .. m : i \in 0 .. m /\ i # 0
    BY <1>3
  <2> QED
    BY <1>11, <2>1
<1> DEFINE So(i) == /\ Progress(s[i]) /\ s[i].size <= z + i
                    /\ s[i].status = "reading" => s[i].size = z + i
           T == {i \in 0 .. m : So(i)}
<1>14. 0 \in T
  BY <1>2, <1>3, <1>5, <1>13 DEF a
<1>15. ASSUME NEW i \in 1 .. m, i - 1 \in T PROVE i \in T
  <2>1. i \in 0 .. m /\ z + (i - 1) \in Nat /\ (z + (i - 1)) + 1 = z + i
    BY <1>2, <1>3
  <2>2. So(i - 1) /\ s[i] = TakeNext(s[i - 1], wire[z + i])
    BY <1>13, <1>15
  <2> DEFINE d == s[i - 1]
  <2>3. d.size \in Nat
    BY <2>2 DEF Progress, Lengths
  <2>4. CASE d.status = "reading"
    <3>1. d.size + 1 = z + i /\ d.size + 1 <= Len(wire)
      BY <1>4, <2>1, <2>2, <2>4
    <3>2. s[i] = Take(d, wire[d.size + 1])
      BY <2>2, <2>4, <3>1 DEF TakeNext
    <3>3. Progress(s[i]) /\ s[i].size = d.size + 1
      BY <1>1, <2>2, <2>4, <3>1, <3>2, TakeOn
    <3> QED
      BY <2>1, <3>1, <3>3
  <2>5. CASE d.status # "reading"
    <3>1. s[i] = d
      BY <2>2, <2>5 DEF TakeNext
    <3>2. d.size <= z + i
      BY <1>2, <2>1, <2>2, <2>3
    <3> QED
      BY <2>1, <2>2, <2>5, <3>1, <3>2
  <2> QED
    BY <2>4, <2>5
<1>16. So(m)
  <2>1. m \in 0 .. m
    BY <1>3
  <2>2. 0 .. m \subseteq T
    <3> HIDE DEF T
    <3> QED
      BY <1>3, <1>14, <1>15, UpTo
  <2> QED
    BY <2>1, <2>2
<1> QED
  BY <1>1, <1>3, <1>12, <1>16

LEMMA AsIntFacts ==
  ASSUME NEW u \in 0 .. Values - 1
  PROVE  /\ AsInt(u) \in Int
         /\ AsInt(u) = -1 <=> u = Values - 1
         /\ u < Values \div 2 => AsInt(u) = u
<1>1. Values \in Nat /\ Values \div 2 \in Nat /\ Values \div 2 < Values
  BY WeightOrder
<1>2. Values - 1 >= Values \div 2
  BY <1>1
<1> QED
  BY <1>1, <1>2 DEF AsInt

\* As long as nothing was read the prefix has nothing.
LEMMA NothingYet ==
  /\ NothingRead \in Lengths /\ 0 < Weight[0]
  /\ 0 \in 0 .. Values - 1 /\ \A i \in 1 .. Groups + 1 : Digit(0, i) = 0
<1>1. 0 \in 0 .. Values - 1
  BY WeightOrder
<1>2. ASSUME NEW i \in 1 .. Groups + 1 PROVE Digit(0, i) = 0
  <2>1. i - 1 \in 0 .. Groups
    BY WeightFacts
  <2>2. PICK w \in Nat \ {0} : w = Weight[i - 1]
    BY <2>1, WeightFacts
  <2>3. 0 \div w = 0 /\ 0 % Radix = 0
    BY WeightFacts, Small
  <2> QED
    BY <2>2, <2>3 DEF Digit
<1>3. NothingRead \in Lengths
  BY <1>1, WeightFacts DEF NothingRead, Lengths
<1> QED
  BY <1>1, <1>2, <1>3, WeightFacts

\* A byte that write_varint makes.
LEMMA ByteOfFacts ==
  ASSUME NEW x \in Int
  PROVE  /\ ByteOf(x) \in Bytes /\ Shifted(x) \in Int
         /\ IsLast(x) => x \in Nat /\ x < Radix /\ ByteOf(x) = x
                         /\ Segment(x) = x /\ ~ Continues(x)
         /\ x \in Nat /\ ~ IsLast(x) =>
              /\ Radix <= x /\ Segment(ByteOf(x)) = x % Radix /\ Continues(ByteOf(x))
              /\ Shifted(x) = x \div Radix
<1>1. PICK r \in Nat \ {0} : r = Radix /\ r > 1
  BY WeightFacts
<1>2. PICK y \in Int : y = x % r
  OBVIOUS
<1>3. y \in 0 .. r - 1
  BY <1>2
<1>4. Shifted(x) \in Int /\ Shifted(x) = x \div Radix
  BY <1>1 DEF Shifted
<1>5. ByteOf(x) = IF IsLast(x) THEN x ELSE y + r
  BY <1>1, <1>2 DEF ByteOf
<1>6. IsLast(x) <=> x \in 0 .. r - 1
  BY <1>1 DEF IsLast
<1>7. ByteOf(x) \in Bytes
  BY <1>1, <1>3, <1>5, <1>6 DEF Bytes
<1>8. ASSUME IsLast(x) PROVE Segment(x) = x /\ ~ Continues(x)
  <2>1. x \in Nat /\ x < r
    BY <1>6, <1>8
  <2>2. x % r = x
    BY <2>1, Small
  <2> QED
    BY <1>1, <2>1, <2>2 DEF Segment, Continues
<1>9. ASSUME x \in Nat, ~ IsLast(x)
      PROVE  Radix <= x /\ Segment(ByteOf(x)) = x % Radix /\ Continues(ByteOf(x))
  <2>1. ByteOf(x) = (r * 1) + y
    BY <1>3, <1>5, <1>9
  <2>2. ((r * 1) + y) % r = y % r /\ y % r = y
    <3>1. y \in Nat /\ y < r
      BY <1>3
    <3>2. ((r * 1) + y) % r = y % r
      BY <3>1, Added
    <3> QED
      BY <3>1, <3>2, Small
  <2>3. (r * 1) + y >= r
    BY <1>3
  <2> QED
    BY <1>1, <1>2, <1>6, <1>9, <2>1, <2>2, <2>3 DEF Segment, Continues
<1> QED
  BY <1>1, <1>4, <1>5, <1>6, <1>7, <1>8, <1>9

\* Each byte that is written is the next digit, and the last one ends the prefix.
LEMMA WrittenOn ==
  ASSUME VarintInv, WriteByte
  PROVE  WrittenInv'
<1> SUFFICES ASSUME number >= 0 PROVE WrittenInv'
  BY DEF WrittenInv, WriteByte
<1> DEFINE k == Len(wire)
           c == ByteOf(rest)
<1>1. /\ number \in Nat /\ rest \in Int /\ wire \in Seq(Bytes) /\ number < Values \div 2
      /\ phase = "write" /\ k \in Nat /\ k <= Groups /\ Goes(k)
      /\ \A i \in 1 .. k : Segment(wire[i]) = Digit(number, i)
      /\ rest = number \div Weight[k]
  BY DEF VarintInv, WrittenInv, LengthInv, WriteByte
<1>2. /\ Groups \in Nat /\ Groups \in 0 .. Groups /\ k \in 0 .. Groups
      /\ Values \in Nat /\ number < Values /\ number \in 0 .. Values - 1
  <2>1. Groups \in Nat /\ Groups \in 0 .. Groups /\ k \in 0 .. Groups
    BY <1>1, WeightFacts
  <2>2. Values \in Nat /\ Values \div 2 \in Nat /\ Values \div 2 < Values
    BY WeightOrder
  <2> QED
    BY <1>1, <2>1, <2>2
<1>3. PICK w \in Nat \ {0} : w = Weight[k]
  BY <1>2, WeightFacts
<1>4. rest = number \div w /\ rest \in Nat
  BY <1>1, <1>3, Divided
<1>5. c \in Bytes /\ wire' = Append(wire, c) /\ number' = number
  BY <1>1, ByteOfFacts DEF WriteByte
<1>6. /\ Len(wire') = k + 1 /\ wire'[k + 1] = c
      /\ \A i \in 1 .. k : wire'[i] = wire[i]
  BY <1>1, <1>5
<1>7. Digit(number, k + 1) = rest % Radix
  BY <1>2, <1>3, <1>4 DEF Digit
<1> HIDE DEF c
<1>8. CASE IsLast(rest)
  <2>1. rest < Radix /\ c = rest /\ Segment(c) = rest /\ ~ Continues(c) /\ phase' = "length"
    BY <1>1, <1>8, ByteOfFacts DEF c, WriteByte
  <2>2. rest % Radix = rest
    BY <1>4, <2>1, WeightFacts, Small
  <2>3. \A i \in 1 .. k + 1 : Segment(wire'[i]) = Digit(number, i)
    <3> SUFFICES ASSUME NEW i \in 1 .. k + 1 PROVE Segment(wire'[i]) = Digit(number, i)
      OBVIOUS
    <3>1. i \in 1 .. k \/ i = k + 1
      BY <1>1
    <3> QED
      BY <1>1, <1>6, <1>7, <2>1, <2>2, <3>1
  <2>4. First(Len(wire))'
    <3>1. k + 1 \in 1 .. Groups + 1 /\ (k + 1) - 1 = k
      BY <1>1, <1>2
    <3>2. \A i \in 1 .. k : Continues(wire'[i])
      BY <1>1, <1>6 DEF Goes
    <3> QED
      BY <1>6, <2>1, <3>1, <3>2 DEF First, Goes
  <2>5. number < w * Radix
    <3>1. PICK q \in Nat : q = number \div w /\ q < Radix
      BY <1>4, <2>1
    <3>2. number = (w * q) + (number % w) /\ (number % w) \in 0 .. w - 1
      BY <1>1, <3>1, Divided
    <3> QED
      BY <3>1, <3>2, WeightFacts, Below
  <2>6. ASSUME NEW i \in 1 .. Groups + 1, ~ (i <= k + 1) PROVE Digit(number, i) = 0
    <3>1. /\ k + 1 \in 1 .. Groups /\ k + 1 \in 0 .. Groups /\ k + 1 \in 0 .. i - 1
          /\ i - 1 \in 0 .. Groups /\ (k + 1) - 1 = k
      BY <1>1, <1>2, <2>6
    <3>2. Weight[k + 1] = w * Radix
      BY <1>3, <3>1, WeightFacts
    <3>3. PICK x \in Nat \ {0} : x = Weight[i - 1]
      BY <3>1, WeightFacts
    <3>4. Weight[k + 1] <= x /\ Weight[k + 1] \in Nat
      BY <3>1, <3>3, WeightFacts, WeightOrder
    <3>5. number < x
      BY <1>1, <2>5, <3>2, <3>3, <3>4
    <3>6. number \div x = 0 /\ 0 % Radix = 0
      <4>1. number \div x = 0
        BY <1>1, <3>5, Small
      <4>2. 0 % Radix = 0
        BY WeightFacts, Small
      <4> QED
        BY <4>1, <4>2
    <3> QED
      BY <3>3, <3>6 DEF Digit
  <2>7. \A i \in 1 .. Groups + 1 :
          Digit(number, i) = IF i <= k + 1 THEN Segment(wire'[i]) ELSE 0
    <3> SUFFICES ASSUME NEW i \in 1 .. Groups + 1
                 PROVE  Digit(number, i) = IF i <= k + 1 THEN Segment(wire'[i]) ELSE 0
      OBVIOUS
    <3>1. i <= k + 1 => i \in 1 .. k + 1
      BY <1>1, <1>2
    <3> QED
      BY <2>3, <2>6, <3>1
  <2>8. Spells(number, Len(wire))'
    BY <1>2, <1>5, <1>6, <2>7 DEF Spells
  <2>9. ASSUME k + 1 = Groups + 1 PROVE wire'[Groups + 1] < LastRadix
    <3>1. k = Groups
      BY <1>1, <1>2, <2>9
    <3>2. number < w * LastRadix
      BY <1>2, <1>3, <3>1, WeightOrder
    <3>3. (number \div w) < LastRadix
      BY <1>1, <3>2, WeightFacts, Under
    <3> QED
      BY <1>4, <1>6, <2>1, <2>9, <3>3
  <2> QED
    BY <1>1, <1>5, <1>6, <2>1, <2>3, <2>4, <2>8, <2>9 DEF WrittenInv
<1>9. CASE ~ IsLast(rest)
  <2>1. /\ Radix <= rest /\ Segment(c) = rest % Radix /\ Continues(c)
        /\ rest' = rest \div Radix /\ phase' = phase
    BY <1>1, <1>4, <1>9, ByteOfFacts DEF c, WriteByte
  <2>2. k < Groups
    <3>1. CASE k = Groups
      <4>1. number < w * LastRadix
        BY <1>2, <1>3, <3>1, WeightOrder
      <4>2. (number \div w) < LastRadix
        BY <1>1, <4>1, WeightFacts, Under
      <4> QED
        BY <1>4, <2>1, <4>2, WeightFacts
    <3> QED
      BY <1>1, <1>2, <3>1
  <2>3. \A i \in 1 .. k + 1 : Segment(wire'[i]) = Digit(number, i)
    <3> SUFFICES ASSUME NEW i \in 1 .. k + 1 PROVE Segment(wire'[i]) = Digit(number, i)
      OBVIOUS
    <3>1. i \in 1 .. k \/ i = k + 1
      BY <1>1
    <3> QED
      BY <1>1, <1>6, <1>7, <2>1, <3>1
  <2>4. Goes(Len(wire))'
    <3> SUFFICES ASSUME NEW i \in 1 .. k + 1 PROVE Continues(wire'[i])
      BY <1>6 DEF Goes
    <3>1. i \in 1 .. k \/ i = k + 1
      BY <1>1
    <3> QED
      BY <1>1, <1>6, <2>1, <3>1 DEF Goes
  <2>5. rest' = number \div Weight[k + 1]
    <3>1. k + 1 \in 1 .. Groups /\ (k + 1) - 1 = k
      BY <1>1, <1>2, <2>2
    <3>2. Weight[k + 1] = w * Radix
      BY <1>3, <3>1, WeightFacts
    <3>3. number \div (w * Radix) = (number \div w) \div Radix
      BY <1>1, WeightFacts, Twice
    <3> QED
      BY <1>4, <2>1, <3>2, <3>3
  <2> QED
    BY <1>1, <1>2, <1>5, <1>6, <2>1, <2>2, <2>3, <2>4, <2>5 DEF WrittenInv
<1> QED
  BY <1>8, <1>9

\* Nothing is read before everything is written.
LEMMA WriteKeepsLength ==
  ASSUME VarintInv, WriteByte
  PROVE  LengthInv'
<1>1. /\ number \in Int /\ rest \in Int /\ answer \in Int /\ wire \in Seq(Bytes)
      /\ phase = "write" /\ length = NothingRead /\ got = 0
  BY DEF VarintInv, LengthInv, WriteByte
<1>2. /\ number' = number /\ answer' = answer /\ length' = NothingRead /\ got' = 0
      /\ wire' = Append(wire, ByteOf(rest)) /\ phase' \in {"write", "length"}
      /\ rest' \in {rest, Shifted(rest)}
  BY <1>1 DEF WriteByte
<1>3. rest' \in Int /\ wire' \in Seq(Bytes) /\ Len(wire') \in Nat
  <2>1. ByteOf(rest) \in Bytes /\ Shifted(rest) \in Int
    BY <1>1, ByteOfFacts
  <2> QED
    BY <1>1, <1>2, <2>1
<1>4. /\ length'.size = 0 /\ length'.pos = 0 /\ length'.value = 0
      /\ length'.status = "reading" /\ length' \in Lengths
  BY <1>2, NothingYet DEF NothingRead
<1>5. 0 <= Groups
  BY WeightFacts
<1>6. Spells(0, 0)' /\ Goes(0)'
  <2>1. \A i \in 1 .. Groups + 1 : ~ (i <= 0)
    OBVIOUS
  <2> QED
    BY <2>1, NothingYet DEF Spells, Goes
<1>7. Within(length)'
  BY <1>4, <1>5, <1>6, NothingYet DEF Within
<1>8. Progress(length)'
  BY <1>3, <1>4, <1>7 DEF Progress
<1> QED
  BY <1>1, <1>2, <1>3, <1>4, <1>8 DEF LengthInv

\* What read_length answers.
LEMMA LengthOn ==
  ASSUME VarintInv, NEW n \in Nat, ReadLength(n)
  PROVE  VarintInv'
<1>1. /\ LengthInv /\ phase = "length" /\ got \in Nat /\ wire \in Seq(Bytes)
      /\ number \in Int /\ rest \in Int
  BY DEF VarintInv, LengthInv, ReadLength
<1>2. /\ number' = number /\ rest' = rest /\ wire' = wire /\ packet' = packet
      /\ got' = got + n /\ got' <= Len(wire) /\ got' \in Nat
  BY <1>1 DEF ReadLength
<1>3. /\ Progress(length') /\ length'.size <= got'
      /\ length'.status = "reading" => length'.size = got'
  BY <1>1, TakenOn
<1>4. length'.status \in {"reading", "done", "malformed"} /\ length'.value \in 0 .. Values - 1
  BY <1>3 DEF Progress, Lengths
<1>5. /\ answer' = IF length'.status = "done" THEN AsInt(length'.value) ELSE -1
      /\ phase' = CASE length'.status = "malformed" -> "malformed"
                    [] answer' # -1                 -> "handler"
                    [] OTHER                        -> "length"
  BY DEF ReadLength
<1>6. AsInt(length'.value) \in Int /\ (AsInt(length'.value) = -1 <=> length'.value = Values - 1)
  BY <1>4, AsIntFacts
<1>7. answer' \in Int
  BY <1>5, <1>6
<1>8. Progress(length)'
  <2>1. \A d : Progress(d)' <=> Progress(d)
    BY <1>2 DEF Progress, Within, Behind, Through, First, Goes, Spells
  <2> QED
    BY <1>2, <1>3 DEF Progress, Within, Behind, Through, First, Goes, Spells
<1>9. CASE length'.status = "malformed"
  <2>1. phase' = "malformed"
    BY <1>5, <1>9
  <2>2. LengthInv'
    BY <1>1, <1>2, <1>3, <1>7, <1>8, <1>9, <2>1 DEF LengthInv
  <2>3. WrittenInv'
    BY <1>1, <1>2, <2>1 DEF VarintInv, WrittenInv, First, Goes, Spells
  <2> QED
    BY <2>2, <2>3 DEF VarintInv
<1>10. CASE length'.status = "done" /\ length'.value # Values - 1
  <2>1. phase' = "handler" /\ answer' = AsInt(length'.value)
    BY <1>5, <1>6, <1>10
  <2>2. LengthInv'
    BY <1>1, <1>2, <1>3, <1>7, <1>8, <1>10, <2>1 DEF LengthInv
  <2>3. WrittenInv'
    BY <1>1, <1>2, <2>1 DEF VarintInv, WrittenInv, First, Goes, Spells
  <2> QED
    BY <2>2, <2>3 DEF VarintInv
<1>11. CASE length'.status = "reading" \/ (length'.status = "done" /\ length'.value = Values - 1)
  <2>1. phase' = "length"
    BY <1>5, <1>6, <1>11
  <2>2. LengthInv'
    BY <1>1, <1>2, <1>3, <1>7, <1>8, <1>11, <2>1 DEF LengthInv
  <2>3. WrittenInv'
    BY <1>1, <1>2, <2>1 DEF VarintInv, WrittenInv, First, Goes, Spells
  <2> QED
    BY <2>2, <2>3 DEF VarintInv
<1> QED
  BY <1>4, <1>9, <1>10, <1>11

LEMMA VarintKept ==
  ASSUME VarintInv, phase' = phase, lengthVars' = lengthVars
  PROVE  VarintInv'
<1>1. /\ number' = number /\ rest' = rest /\ wire' = wire /\ got' = got
      /\ length' = length /\ answer' = answer
  BY DEF lengthVars
<1>2. WrittenInv'
  BY <1>1 DEF VarintInv, WrittenInv, First, Goes, Spells
<1>3. Progress(length)'
  BY <1>1 DEF VarintInv, LengthInv, Progress, Within, Behind, Through, First, Goes, Spells
<1>4. LengthInv'
  BY <1>1, <1>3 DEF VarintInv, LengthInv
<1> QED
  BY <1>2, <1>4 DEF VarintInv

LEMMA VarintStart == Init => VarintInv
<1> SUFFICES ASSUME Init PROVE VarintInv
  OBVIOUS
<1>1. /\ rest = number /\ got = 0 /\ length = NothingRead /\ answer = -1
      /\ phase \in {"write", "length"}
  BY DEF Init
<1>2. number \in Int /\ (number >= 0 => number < Values \div 2 /\ phase = "write" /\ wire = << >>)
  <2>1. CASE number \in Numbers /\ phase = "write" /\ wire = << >>
    BY <2>1, WeightOrder, ReadAssumption
  <2>2. CASE packet \in Packets /\ number = packet.bytes /\ phase = "write" /\ wire = << >>
    BY <2>2, PacketAssumption, PacketsFacts
  <2>3. CASE number = -1
    BY <2>3
  <2> QED
    BY <2>1, <2>2, <2>3 DEF Init
<1>3. wire \in Seq(Bytes) /\ Len(wire) \in Nat
  <2>1. CASE wire = << >>
    BY <2>1
  <2>2. CASE wire \in ClientBytes
    BY <2>2, ReadAssumption
  <2> QED
    BY <2>1, <2>2 DEF Init
<1>4. /\ length.size = 0 /\ length.pos = 0 /\ length.value = 0
      /\ length.status = "reading" /\ length \in Lengths
  BY <1>1, NothingYet DEF NothingRead
<1>5. 0 <= Groups
  BY WeightFacts
<1>6. Spells(0, 0) /\ Goes(0)
  <2>1. \A i \in 1 .. Groups + 1 : ~ (i <= 0)
    OBVIOUS
  <2> QED
    BY <2>1, NothingYet DEF Spells, Goes
<1>7. Progress(length)
  BY <1>3, <1>4, <1>5, <1>6, NothingYet DEF Progress, Within
<1>8. LengthInv
  BY <1>1, <1>2, <1>3, <1>4, <1>7 DEF LengthInv
<1>9. WrittenInv
  <2> SUFFICES ASSUME number >= 0 PROVE WrittenInv
    BY DEF WrittenInv
  <2>1. number < Values \div 2 /\ phase = "write" /\ wire = << >> /\ Len(wire) = 0
    BY <1>2
  <2>2. number \div 1 = number
    BY <1>2
  <2>3. rest = number \div Weight[Len(wire)]
    BY <1>1, <2>1, <2>2, WeightFacts
  <2> QED
    BY <1>5, <1>6, <2>1, <2>3 DEF WrittenInv
<1> QED
  BY <1>8, <1>9 DEF VarintInv

THEOREM VarintInvariant == Spec => []VarintInv
<1>1. VarintInv /\ [Next]_vars => VarintInv'
  <2> SUFFICES ASSUME VarintInv, [Next]_vars PROVE VarintInv'
    OBVIOUS
  <2>1. CASE WriteByte
    BY <2>1, WrittenOn, WriteKeepsLength DEF VarintInv
  <2>2. CASE \E n \in 1 .. Groups + 2 : ReadLength(n)
    <3>1. PICK n \in 1 .. Groups + 2 : ReadLength(n)
      BY <2>2
    <3>2. n \in Nat
      OBVIOUS
    <3> QED
      BY <3>1, <3>2, LengthOn
  <2>3. CASE ReadField
    BY <2>3, VarintKept DEF ReadField
  <2>4. CASE UNCHANGED vars
    BY <2>4, VarintKept DEF vars
  <2> QED
    BY <2>1, <2>2, <2>3, <2>4 DEF Next
<1> QED
  BY <1>1, VarintStart, PTL DEF Spec

\* A number that is not negative is written in no more bytes than the array of iov()
\* and the room in front of a packet have, for any size of the groups
\* (write_varint, iov).
THEOREM PrefixFits == Spec => []VarintFits
<1>1. VarintInv => VarintFits
  BY DEF VarintInv, WrittenInv, VarintFits
<1> QED
  BY <1>1, VarintInvariant, PTL

\* Whatever is written is read back, in whatever portions it comes
\* (write_varint, read_length).
THEOREM LengthsComeBack == Spec => []RoundTrip
<1>1. VarintInv => RoundTrip
  <2> SUFFICES ASSUME VarintInv, number >= 0, phase = "handler" PROVE answer = number
    BY DEF RoundTrip
  <2>1. /\ number \in Int /\ number < Values \div 2
        /\ First(Len(wire)) /\ Spells(number, Len(wire))
    BY DEF VarintInv, WrittenInv, LengthInv
  <2>2. /\ Progress(length) /\ length.status = "done" /\ length.value # Values - 1
        /\ answer = AsInt(length.value)
    BY DEF VarintInv, LengthInv
  <2>3. First(length.size) /\ Spells(length.value, length.size)
    BY <2>2 DEF Progress, Behind, Through
  <2>4. length.size = Len(wire)
    BY <2>1, <2>3, FirstOnce
  <2>5. length.value = number
    BY <2>1, <2>3, <2>4, SameDigits DEF Spells
  <2>6. number \in 0 .. Values - 1
    BY <2>1 DEF Spells
  <2> QED
    BY <2>1, <2>2, <2>5, <2>6, AsIntFacts
<1> QED
  BY <1>1, VarintInvariant, PTL

\* read_length answers as soon as the prefix is complete, and never before, with what
\* its bytes stand for; only -1 it does not answer (read_length).
THEOREM LengthsAreExact == Spec => []LengthExact
<1>1. VarintInv => LengthExact
  <2> SUFFICES ASSUME VarintInv PROVE LengthExact
    OBVIOUS
  <2> DEFINE come == SubSeq(wire, 1, got)
  <2>1. /\ wire \in Seq(Bytes) /\ got \in Nat /\ got <= Len(wire) /\ length.size <= got
        /\ Progress(length)
    BY DEF VarintInv, LengthInv
  <2>2. length.size \in Nat /\ length.value \in 0 .. Values - 1 /\ Groups \in Nat
    BY <2>1, WeightFacts DEF Progress, Lengths
  <2>3. /\ \A e : First(e) /\ e <= got =>
             /\ SizeIn(come) = e
             /\ WellFormed(come) <=> (e = Groups + 1 => wire[Groups + 1] < LastRadix)
             /\ \A v : Spells(v, e) => ValueOf(come) = v
        /\ Goes(got) /\ got <= Groups => SizeIn(come) = 0
    BY <2>1, Come
  <2> HIDE DEF come
  <2>4. Behind(length) => AsInt(ValueOf(come)) = -1
    <3> SUFFICES ASSUME Behind(length) PROVE AsInt(ValueOf(come)) = -1
      OBVIOUS
    <3>1. First(Groups + 1) /\ Groups + 1 <= got /\ Spells(Values - 1, Groups + 1)
      BY <2>1, <2>2 DEF Behind
    <3>2. ValueOf(come) = Values - 1
      BY <2>3, <3>1
    <3> QED
      BY <3>2, AsIntFacts, WeightOrder
  <2>5. ASSUME Through(length)
        PROVE  /\ SizeIn(come) = length.size /\ WellFormed(come)
               /\ ValueOf(come) = length.value
    <3>1. First(length.size) /\ Spells(length.value, length.size)
      BY <2>5 DEF Through
    <3>2. length.size = Groups + 1 => wire[Groups + 1] < LastRadix
      BY <2>2, <2>5 DEF Through
    <3> QED
      BY <2>1, <2>3, <3>1, <3>2
  <2>6. CASE phase = "handler"
    <3>1. /\ length.status = "done" /\ length.value # Values - 1
          /\ answer = AsInt(length.value)
      BY <2>6 DEF VarintInv, LengthInv
    <3>2. Through(length)
      BY <2>1, <3>1 DEF Progress, Behind
    <3>3. length.size = SizeIn(come) /\ WellFormed(come) /\ answer = AsInt(ValueOf(come))
      BY <2>5, <3>1, <3>2
    <3> QED
      BY <2>6, <3>3 DEF LengthExact, come
  <2>7. CASE phase = "length"
    <3>1. SizeIn(come) = 0 \/ AsInt(ValueOf(come)) = -1
      <4>1. CASE length.status = "reading" /\ length.size = got
        <5>1. Within(length) \/ Behind(length)
          BY <2>1, <4>1 DEF Progress
        <5>2. Within(length) => SizeIn(come) = 0
          BY <2>3, <4>1 DEF Within
        <5> QED
          BY <2>4, <5>1, <5>2
      <4>2. CASE length.status = "done" /\ length.value = Values - 1
        <5>1. Through(length) \/ Behind(length)
          BY <2>1, <4>2 DEF Progress
        <5>2. Through(length) => AsInt(ValueOf(come)) = -1
          BY <2>2, <2>5, <4>2, AsIntFacts
        <5> QED
          BY <2>4, <5>1, <5>2
      <4> QED
        BY <2>7, <4>1, <4>2 DEF VarintInv, LengthInv
    <3> QED
      BY <2>7, <3>1 DEF LengthExact, come
  <2>8. CASE phase = "malformed"
    <3>1. length.status = "malformed"
      BY <2>8 DEF VarintInv, LengthInv
    <3>2. ~ WellFormed(come) \/ AsInt(ValueOf(come)) = -1
      <4>1. \/ Behind(length)
            \/ First(Groups + 1) /\ Groups + 1 <= length.size /\ ~ (wire[Groups + 1] < LastRadix)
        BY <2>1, <3>1 DEF Progress
      <4>2. ASSUME First(Groups + 1), Groups + 1 <= length.size, ~ (wire[Groups + 1] < LastRadix)
            PROVE  ~ WellFormed(come)
        <5>1. Groups + 1 <= got
          BY <2>1, <2>2, <4>2
        <5> QED
          BY <2>3, <4>2, <5>1
      <4> QED
        BY <2>4, <4>1, <4>2
    <3> QED
      BY <2>8, <3>2 DEF LengthExact, come
  <2>9. CASE phase = "write"
    BY <2>9 DEF LengthExact
  <2> QED
    BY <2>6, <2>7, <2>8, <2>9 DEF VarintInv, LengthInv
<1> QED
  BY <1>1, VarintInvariant, PTL

\* Every variable of the reads keeps its type: what has been read of a prefix is
\* never more than has come, and the cursor never leaves the packet's fields
\* (read_length, next_cursor).
THEOREM ReadTypes == Spec => []ReadTypeOK
<1>1. ReadInv /\ VarintInv => ReadTypeOK
  <2> SUFFICES ASSUME ReadInv, VarintInv PROVE ReadTypeOK
    OBVIOUS
  <2>1. /\ phase \in {"write", "length", "handler", "malformed"}
        /\ number \in Int /\ rest \in Int /\ answer \in Int
        /\ wire \in Seq(Bytes) /\ got \in Nat /\ got <= Len(wire)
        /\ length \in Lengths /\ length.size <= got
    BY DEF VarintInv, LengthInv, Progress
  <2>2. /\ length.value \in 0 .. Values - 1 /\ length.pos \in 0 .. Groups
        /\ length.size \in 0 .. got /\ got \in 0 .. Len(wire)
    BY <2>1 DEF Lengths
  <2>3. /\ field \in 1 .. Len(packet.fields) + 1
        /\ cursor.index \in {0, 1} /\ cursor.at = From(field)
        /\ out \in Seq(Nat) /\ fault \in BOOLEAN
    BY DEF ReadInv, CursorInv, InStep
  <2>4. cursor.at \in 1 .. StartOf(packet.fields, Len(packet.fields) + 1)
    <3>1. /\ From(field) \in Nat \ {0} /\ From(field) <= From(Len(packet.fields) + 1)
          /\ From(Len(packet.fields) + 1) \in Nat \ {0}
      <4>1. Len(packet.fields) + 1 \in 1 .. Len(packet.fields) + 1
        BY FromFacts DEF ReadInv
      <4> QED
        BY <2>3, <4>1, FromFacts DEF ReadInv
    <3> QED
      BY <2>3, <3>1 DEF From
  <2>5. cursor.index \in 0 .. 1
    BY <2>3
  <2> QED
    BY <2>1, <2>2, <2>3, <2>4, <2>5 DEF ReadTypeOK
<1> QED
  BY <1>1, ReadInvariant, VarintInvariant, PTL
================================================================================
