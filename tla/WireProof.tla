------------------------------- MODULE WireProof -------------------------------
(***************************************************************************)
(* Theorems about what the client receives: packet after packet, exactly   *)
(* the bytes that the sender wrote, in order, behind their true length;    *)
(* and that every call of a sender comes to its end.                       *)
(***************************************************************************)
EXTENDS WriteProof, LeastNumber

(* The sums that say where each entry ends. *)

EndsAre(s, es) ==
  /\ s \in [0 .. Len(es) -> Nat] /\ s[0] = 0
  /\ \A i \in 1 .. Len(es) : s[i] = s[i - 1] + es[i].len
  /\ \A i, j \in 0 .. Len(es) : i <= j => s[i] <= s[j]

LEMMA SumExists ==
  ASSUME NEW n \in Nat, NEW l, \A i \in 1 .. n : l[i] \in Nat
  PROVE  \E s \in [0 .. n -> Nat] :
           \A i \in 0 .. n : s[i] = IF i = 0 THEN 0 ELSE s[i - 1] + l[i]
<1> DEFINE Sums(m) == \E s \in [0 .. m -> Nat] :
             \A i \in 0 .. m : s[i] = IF i = 0 THEN 0 ELSE s[i - 1] + l[i]
           T == {m \in 0 .. n : ~ Sums(m)}
<1> SUFFICES ASSUME T # {} PROVE FALSE
  OBVIOUS
<1>1. PICK m \in T : \A k \in T : m <= k
  <2>1. T \subseteq Nat
    OBVIOUS
  <2> HIDE DEF T
  <2> QED
    BY <2>1, LeastNat
<1>2. m \in 0 .. n /\ ~ Sums(m)
  OBVIOUS
<1>3. m # 0
  <2>1. CASE m = 0
    <3> DEFINE s == [i \in 0 .. 0 |-> 0]
    <3>1. s \in [0 .. m -> Nat] /\ \A i \in 0 .. m : s[i] = IF i = 0 THEN 0 ELSE s[i - 1] + l[i]
      BY <2>1
    <3> QED
      BY <1>2, <3>1
  <2> QED
    BY <2>1
<1>4. m - 1 \in 0 .. n /\ m - 1 \notin T
  <2>1. m - 1 \in 0 .. n /\ ~ m <= m - 1
    BY <1>2, <1>3
  <2> HIDE DEF T
  <2> QED
    BY <1>1, <2>1
<1>5. PICK s \in [0 .. m - 1 -> Nat] :
        \A i \in 0 .. m - 1 : s[i] = IF i = 0 THEN 0 ELSE s[i - 1] + l[i]
  BY <1>4
<1> DEFINE t == [i \in 0 .. m |-> IF i = m THEN s[m - 1] + l[m] ELSE s[i]]
<1>6. m \in 1 .. n /\ m - 1 \in 0 .. m - 1 /\ l[m] \in Nat /\ s[m - 1] \in Nat
  BY <1>2, <1>3
<1>7. t \in [0 .. m -> Nat]
  BY <1>6
<1>8. ASSUME NEW i \in 0 .. m PROVE t[i] = IF i = 0 THEN 0 ELSE t[i - 1] + l[i]
  <2>1. CASE i = m
    BY <1>6, <2>1
  <2>2. CASE i # m
    <3>1. i \in 0 .. m - 1 /\ (i # 0 => i - 1 \in 0 .. m - 1)
      BY <1>6, <2>2
    <3> QED
      BY <1>5, <1>6, <2>2, <3>1
  <2> QED
    BY <2>1, <2>2
<1> HIDE DEF t
<1> QED
  BY <1>2, <1>7, <1>8

\* Ends gives these sums, and they do not decrease.
LEMMA EndsFacts ==
  ASSUME NEW es \in Seq(Entries), \A i \in DOMAIN es : es[i].len \in Nat
  PROVE  EndsAre(Ends(es), es)
<1> DEFINE n == Len(es)
           l == [i \in 1 .. n |-> es[i].len]
           s == Ends(es)
<1>1. n \in Nat /\ DOMAIN es = 1 .. n
  OBVIOUS
<1>2. PICK t \in [0 .. n -> Nat] : \A i \in 0 .. n : t[i] = IF i = 0 THEN 0 ELSE t[i - 1] + l[i]
  <2>1. \A i \in 1 .. n : l[i] \in Nat
    BY <1>1
  <2> HIDE DEF n, l
  <2> QED
    BY <1>1, <2>1, SumExists
<1>3. t = [i \in 0 .. Len(es) |-> IF i = 0 THEN 0 ELSE t[i - 1] + es[i].len]
  BY <1>1, <1>2
<1>4. s = [i \in 0 .. Len(es) |-> IF i = 0 THEN 0 ELSE s[i - 1] + es[i].len]
  BY <1>3 DEF Ends
<1> HIDE DEF s, n
<1>5. ASSUME NEW i \in 0 .. n PROVE s[i] = IF i = 0 THEN 0 ELSE s[i - 1] + l[i]
  <2>1. i # 0 => i \in 1 .. n /\ l[i] = es[i].len
    BY <1>1
  <2>2. s[i] = IF i = 0 THEN 0 ELSE s[i - 1] + es[i].len
    BY <1>4 DEF n
  <2> HIDE DEF l
  <2> QED
    BY <2>1, <2>2
<1>6. DOMAIN s = 0 .. n
  BY <1>4 DEF n
<1> DEFINE Agree(k) == s[k] = t[k]
           D == {k \in 0 .. n : ~ Agree(k)}
<1>7. D = {}
  <2> SUFFICES ASSUME D # {} PROVE FALSE
    OBVIOUS
  <2>1. PICK k \in D : \A j \in D : k <= j
    <3>1. D \subseteq Nat
      BY <1>1
    <3> HIDE DEF D
    <3> QED
      BY <3>1, LeastNat
  <2>2. k \in 0 .. n /\ s[k] # t[k]
    OBVIOUS
  <2>3. k # 0 => k - 1 \in 0 .. n /\ s[k - 1] = t[k - 1]
    BY <1>1, <2>1, <2>2
  <2> HIDE DEF l
  <2>4. s[k] = IF k = 0 THEN 0 ELSE s[k - 1] + l[k]
    BY <1>5, <2>2
  <2>5. t[k] = IF k = 0 THEN 0 ELSE t[k - 1] + l[k]
    BY <1>2, <2>2
  <2> QED
    BY <2>2, <2>3, <2>4, <2>5, Zenon
<1>8. /\ s \in [0 .. n -> Nat] /\ s[0] = 0
      /\ \A i \in 1 .. n : s[i] = s[i - 1] + es[i].len
  <2>1. \A k \in 0 .. n : s[k] = t[k]
    BY <1>7
  <2>2. s = [i \in 0 .. n |-> s[i]]
    BY <1>4 DEF n
  <2>3. \A k \in 0 .. n : s[k] \in Nat
    BY <1>2, <2>1
  <2>4. s[0] = 0
    <3>1. 0 \in 0 .. n
      BY <1>1
    <3> QED
      BY <1>5, <3>1
  <2>5. ASSUME NEW i \in 1 .. n PROVE s[i] = s[i - 1] + es[i].len
    <3>1. i \in 0 .. n /\ i # 0 /\ l[i] = es[i].len
      BY <1>1
    <3> HIDE DEF l
    <3> QED
      BY <1>5, <3>1
  <2> QED
    BY <2>2, <2>3, <2>4, <2>5
<1>9. \A i, j \in 0 .. n : i <= j => s[i] <= s[j]
  <2> DEFINE W == {j \in 0 .. n : \E i \in 0 .. n : i <= j /\ ~ s[i] <= s[j]}
  <2> SUFFICES ASSUME W # {} PROVE FALSE
    OBVIOUS
  <2>1. PICK j \in W : \A k \in W : j <= k
    <3>1. W \subseteq Nat
      BY <1>1
    <3> HIDE DEF W
    <3> QED
      BY <3>1, LeastNat
  <2>2. PICK i \in 0 .. n : i <= j /\ ~ s[i] <= s[j]
    OBVIOUS
  <2>3. j \in 1 .. n /\ i <= j - 1 /\ j - 1 \in 0 .. n
    <3>1. j \in 0 .. n
      OBVIOUS
    <3> HIDE DEF W, l
    <3>2. s[j] \in Nat
      BY <1>8, <3>1
    <3>3. i # j
      BY <2>2, <3>2
    <3> QED
      BY <1>1, <2>2, <3>1, <3>3
  <2>4. s[i] <= s[j - 1]
    BY <2>1, <2>2, <2>3
  <2>5. s[j] = s[j - 1] + l[j] /\ l[j] \in Nat
    <3>1. j \in DOMAIN es /\ l[j] = es[j].len
      BY <1>1, <2>3
    <3> HIDE DEF l
    <3> QED
      BY <1>8, <2>3, <3>1
  <2>6. s[i] \in Nat /\ s[j] \in Nat /\ s[j - 1] \in Nat
    BY <1>1, <1>8, <2>2, <2>3
  <2>7. s[i] <= s[j]
    <3> HIDE DEF l, W
    <3>1. PICK x \in Nat, y \in Nat, d \in Nat : x = s[i] /\ y = s[j - 1] /\ d = l[j]
      BY <2>5, <2>6
    <3>2. x <= y /\ s[j] = y + d
      BY <2>4, <2>5, <3>1
    <3>3. x <= y + d
      BY <3>2
    <3> QED
      BY <3>1, <3>2, <3>3
  <2> QED
    BY <2>2, <2>7
<1> QED
  BY <1>8, <1>9 DEF EndsAre, n, s
------------------------------------------------------------------------------
(* What the entries say. *)

\* The jth byte of an entry.
ByteOf(e, j) == IF e.own THEN buf[e.off + j - 1] ELSE e.off + j - 1

\* While the packet is built, its bytes are counted from 1: P says how many come
\* before each of the entries es.
Numbered(P, es) ==
  /\ P[1] = 0
  /\ \A i \in 1 .. Len(es) :
       /\ P[i + 1] = P[i] + es[i].len
       /\ ~ Stale(es[i]) => \A j \in 1 .. es[i].len : ByteOf(es[i], j) = P[i] + j

\* What is not yet in an entry lies in buf, behind what is.
Filling ==
  /\ wire = << >> /\ plen + Sector = written
  /\ at = -2 => start = cursor
  /\ \A k \in start .. cursor - 1 : buf[k] = plen + 1 + k - start
  /\ Len(iov) > 0 => iov[1].own
  /\ \E P \in [1 .. Len(iov) + 1 -> Nat] : Numbered(P, iov) /\ P[Len(iov) + 1] = plen

\* The packet on the wire: the length, then the bytes.
ByteAt(p) == IF p <= VarintSize(written) THEN - written ELSE p - VarintSize(written)

Total == VarintSize(written) + written

\* While it is sent, P says where on the wire each pending entry begins.
Placed(P, es, from) ==
  \A i \in from .. Len(es) :
    /\ P[i + 1] = P[i] + es[i].len
    /\ ~ Stale(es[i]) => \A j \in 1 .. es[i].len : ByteOf(es[i], j) = ByteAt(P[i] + j)

Leaving ==
  /\ Len(wire) <= Total
  /\ \A k \in 1 .. Len(wire) : wire[k] = ByteAt(k)
  /\ \E P \in [1 .. Len(iov) + 1 -> Nat] :
       Placed(P, iov, at + 1) /\ P[at + 1] = Len(wire) /\ P[Len(iov) + 1] = Total

\* An entry lies in the buffer that it was made for; while the packet is built,
\* between the room for the length and what is not yet in an entry.
EntryFits(e) ==
  /\ e.off \in Nat /\ e.len \in Nat /\ e.mem <= mem
  /\ e.own => e.off + e.len <= size
  /\ e.own /\ at < 0 => Headroom <= e.off /\ e.off + e.len <= start

EntriesFit == \A i \in DOMAIN iov : EntryFits(iov[i])

StoreInv ==
  /\ buf \in [0 .. size - 1 -> Int] /\ highest \in Nat /\ plen \in Nat /\ wire \in Seq(Int)
  /\ written <= MaxPacket /\ packets \in 0 .. MaxPackets
  /\ fault \in {"none", "iov_overrun", "freed_write", "underflow", "freed_read", "ran_off"}
  /\ EntriesFit

WireInv ==
  /\ WriteInv /\ StoreInv
  /\ fault = "none" /\ at < 0 => Filling
  /\ fault = "none" /\ at >= 0 => Leaving
  /\ fault = "ran_off" => Leaving /\ at = Len(iov)
------------------------------------------------------------------------------
LEMMA Numbers ==
  ASSUME WriteInv
  PROVE  /\ Headroom \in Nat /\ Capacity \in Nat /\ Extra \in Nat /\ MaxPacket \in Nat
         /\ MaxPackets \in Nat
         /\ size \in Nat /\ mem \in Nat /\ start \in Nat /\ cursor \in Nat /\ iovSize \in Nat
         /\ written \in Nat /\ at \in Int /\ Sector = cursor - start /\ Sector \in Nat
         /\ Headroom <= start /\ start <= cursor /\ cursor <= size
         /\ iov \in Seq(Entries) /\ Len(iov) \in Nat /\ DOMAIN iov = 1 .. Len(iov)
         /\ -2 <= at /\ at <= Len(iov)
BY WriteAssumption DEF WriteAssumption, WriteInv, OffsetInv, Sector

\* A value that is copied comes behind all that is in an entry.
LEMMA WriteWire ==
  ASSUME WireInv, NEW n \in Nat, Write(n)
  PROVE  WireInv'
<1>0. /\ at = -1 /\ at' = at /\ start' = start /\ cursor' = cursor + n /\ fault = "none"
      /\ written' = written + n /\ written + n <= MaxPacket
      /\ UNCHANGED <<iov, iovSize, highest, plen, fault, wire, packets>>
  BY DEF Write, Building, iovVars
<1>1. WriteInv /\ WriteInv' /\ StoreInv /\ Filling
  BY <1>0, WriteKeeps DEF WireInv
<1>2. /\ Headroom \in Nat /\ size \in Nat /\ mem \in Nat /\ start \in Nat /\ cursor \in Nat
      /\ written \in Nat /\ plen \in Nat /\ Extra \in Nat
      /\ Headroom <= start /\ start <= cursor /\ cursor <= size
      /\ DOMAIN iov = 1 .. Len(iov) /\ Sector = cursor - start /\ iov \in Seq(Entries)
  BY <1>1, Numbers DEF StoreInv
<1>3. /\ size' \in Nat /\ size <= size' /\ mem' \in {mem, mem + 1}
  <2>1. IF size - cursor < n
        THEN size' = size + n + Extra /\ mem' = mem + 1
        ELSE size' = size /\ mem' = mem
    BY DEF Write, TooSmall
  <2> QED
    BY <1>2, <2>1
<1>4. PICK top \in Nat :
        /\ size' = top /\ size <= top
        /\ buf' = [i \in 0 .. top - 1 |->
                     CASE i < cursor                    -> buf[i]
                       [] i \in cursor .. cursor + n - 1 -> written + 1 + i - cursor
                       [] OTHER                         -> 0]
  BY <1>3 DEF Write
<1>5. ASSUME NEW k \in 0 .. cursor - 1 PROVE buf'[k] = buf[k] /\ buf[k] \in Int
  <2>0. cursor \in Nat /\ size \in Nat /\ cursor <= size /\ size <= top
    BY <1>2, <1>4
  <2>1. k \in 0 .. size - 1 /\ k \in 0 .. top - 1 /\ k < cursor
    BY <2>0
  <2>2. buf'[k] = buf[k]
    <3>1. k < cursor /\ k \notin cursor .. cursor + n - 1
      BY <2>0, <2>1
    <3>2. buf'[k] = CASE k < cursor                    -> buf[k]
                      [] k \in cursor .. cursor + n - 1 -> written + 1 + k - cursor
                      [] OTHER                         -> 0
      BY <1>4, <2>1
    <3> QED
      BY <3>1, <3>2
  <2>3. buf \in [0 .. size - 1 -> Int]
    BY <1>1 DEF StoreInv
  <2> QED
    BY <2>1, <2>2, <2>3
<1>6. buf' \in [0 .. size' - 1 -> Int]
  <2>1. ASSUME NEW i \in 0 .. top - 1
        PROVE  (CASE i < cursor                    -> buf[i]
                  [] i \in cursor .. cursor + n - 1 -> written + 1 + i - cursor
                  [] OTHER                         -> 0) \in Int
    <3>1. i \in Int /\ written + 1 + i - cursor \in Int
      BY <1>2
    <3>2. i < cursor => buf[i] \in Int
      BY <1>2, <1>5
    <3> QED
      BY <1>2, <3>1, <3>2
  <2> QED
    BY <1>4, <2>1
<1>7. ASSUME NEW i \in DOMAIN iov
      PROVE  /\ iov[i].off \in Nat /\ iov[i].len \in Nat /\ iov[i].mem \in Nat /\ iov[i].mem <= mem
             /\ iov[i].own => /\ iov[i].off + iov[i].len <= size
                              /\ Headroom <= iov[i].off /\ iov[i].off + iov[i].len <= start
  <2>1. iov[i] \in Entries
    BY <1>2
  <2> QED
    BY <1>0, <1>1, <2>1 DEF StoreInv, EntriesFit, EntryFits, Entries
<1>8. EntriesFit'
  BY <1>0, <1>2, <1>3, <1>7 DEF EntriesFit, EntryFits
<1>9. ASSUME NEW i \in DOMAIN iov, ~ Stale(iov[i])', NEW j \in 1 .. iov[i].len
      PROVE  ~ Stale(iov[i]) /\ ByteOf(iov[i], j)' = ByteOf(iov[i], j)
  <2>1. ~ Stale(iov[i])
    BY <1>0, <1>2, <1>3, <1>7, <1>9 DEF Stale
  <2>2. iov[i].own => iov[i].off + j - 1 \in 0 .. cursor - 1
    <3>1. PICK o \in Nat, l \in Nat : o = iov[i].off /\ l = iov[i].len
      BY <1>7
    <3>2. /\ j \in 1 .. l
          /\ iov[i].own => o + l <= start
      BY <1>7, <1>9, <3>1
    <3>3. PICK from \in Nat, to \in Nat : from = start /\ to = cursor /\ from <= to
      BY <1>2
    <3>4. o + l <= from => o + j - 1 \in 0 .. to - 1
      BY <3>2, <3>3
    <3> QED
      BY <3>1, <3>2, <3>3, <3>4
  <2> QED
    BY <1>0, <1>5, <2>1, <2>2 DEF ByteOf
<1>10. Filling'
  <2>1. wire' = << >> /\ plen' + Sector' = written' /\ (Len(iov) > 0 => iov[1].own)'
    BY <1>0, <1>1, <1>2 DEF Filling, Sector
  <2>2. ASSUME NEW k \in start .. cursor' - 1 PROVE buf'[k] = plen + 1 + k - start
    <3>1. CASE k < cursor
      <4>1. k \in start .. cursor - 1 /\ k \in 0 .. cursor - 1
        BY <1>0, <1>2, <3>1
      <4> QED
        BY <1>1, <1>5, <4>1 DEF Filling
    <3>2. CASE ~ k < cursor
      <4>0. cursor + n <= top
        BY <1>0, <1>1, <1>4 DEF WriteInv, OffsetInv
      <4>1. k \in 0 .. top - 1 /\ (~ k < cursor => k \in cursor .. cursor + n - 1)
        <5>1. /\ start \in Nat /\ cursor \in Nat /\ cursor + n <= top
              /\ k \in start .. cursor + n - 1
          BY <1>0, <1>2, <4>0
        <5> QED
          BY <5>1
      <4>2. buf'[k] = written + 1 + k - cursor
        BY <1>4, <3>2, <4>1
      <4>3. written = plen + (cursor - start)
        BY <1>1, <1>2 DEF Filling
      <4> QED
        BY <1>2, <4>1, <4>2, <4>3
    <3> QED
      BY <3>1, <3>2
  <2>3. PICK P \in [1 .. Len(iov) + 1 -> Nat] : Numbered(P, iov) /\ P[Len(iov) + 1] = plen
    BY <1>1 DEF Filling
  <2>4. Numbered(P, iov)'
    <3>1. iov' = iov /\ P[1] = 0
      BY <1>0, <2>3 DEF Numbered
    <3>2. ASSUME NEW i \in 1 .. Len(iov)
          PROVE  /\ P[i + 1] = P[i] + iov[i].len
                 /\ ~ Stale(iov[i])' => \A j \in 1 .. iov[i].len : ByteOf(iov[i], j)' = P[i] + j
      <4>1. i \in DOMAIN iov
        BY <1>2
      <4> QED
        BY <1>9, <2>3, <4>1 DEF Numbered
    <3> QED
      BY <3>1, <3>2 DEF Numbered
  <2> QED
    BY <1>0, <2>1, <2>2, <2>3, <2>4 DEF Filling
<1>11. StoreInv'
  BY <1>0, <1>1, <1>6, <1>8 DEF StoreInv
<1> QED
  BY <1>0, <1>1, <1>10, <1>11 DEF WireInv

\* One more entry, whose bytes come behind those of the others.
LEMMA NumberedMore ==
  ASSUME NEW es \in Seq(Entries), NEW e \in Entries, e.len \in Nat,
         NEW P \in [1 .. Len(es) + 1 -> Nat], Numbered(P, es),
         ~ Stale(e) => \A j \in 1 .. e.len : ByteOf(e, j) = P[Len(es) + 1] + j
  PROVE  \E Q \in [1 .. Len(Append(es, e)) + 1 -> Nat] :
           /\ Numbered(Q, Append(es, e))
           /\ Q[Len(Append(es, e)) + 1] = P[Len(es) + 1] + e.len
<1> DEFINE n  == Len(es)
           fs == Append(es, e)
           Q  == [i \in 1 .. n + 2 |-> IF i = n + 2 THEN P[n + 1] + e.len ELSE P[i]]
<1>1. /\ fs \in Seq(Entries) /\ Len(fs) = n + 1 /\ n \in Nat /\ fs[n + 1] = e
      /\ \A i \in 1 .. n : fs[i] = es[i]
  BY AppendOne
<1>2. P[n + 1] \in Nat /\ n + 1 \in 1 .. n + 1
  BY <1>1
<1>3. Q \in [1 .. n + 2 -> Nat] /\ Q[n + 2] = P[n + 1] + e.len
      /\ \A i \in 1 .. n + 1 : Q[i] = P[i]
  BY <1>1, <1>2
<1> HIDE DEF Q, fs
<1>4. Numbered(Q, fs)
  <2>1. Q[1] = 0
    BY <1>1, <1>3 DEF Numbered
  <2>2. ASSUME NEW i \in 1 .. n
        PROVE  /\ Q[i + 1] = Q[i] + fs[i].len
               /\ ~ Stale(fs[i]) => \A j \in 1 .. fs[i].len : ByteOf(fs[i], j) = Q[i] + j
    <3>1. fs[i] = es[i] /\ Q[i] = P[i] /\ Q[i + 1] = P[i + 1]
      BY <1>1, <1>3
    <3> QED
      BY <3>1 DEF Numbered
  <2>3. /\ Q[n + 2] = Q[n + 1] + fs[n + 1].len
        /\ ~ Stale(fs[n + 1]) => \A j \in 1 .. fs[n + 1].len :
                                   ByteOf(fs[n + 1], j) = Q[n + 1] + j
    BY <1>1, <1>2, <1>3
  <2>4. ASSUME NEW i \in 1 .. Len(fs)
        PROVE  /\ Q[i + 1] = Q[i] + fs[i].len
               /\ ~ Stale(fs[i]) => \A j \in 1 .. fs[i].len : ByteOf(fs[i], j) = Q[i] + j
    <3>1. i \in 1 .. n \/ i = n + 1
      BY <1>1
    <3>2. CASE i = n + 1
      <4>1. i + 1 = n + 2
        BY <1>1, <3>2
      <4> QED
        BY <2>3, <3>2, <4>1
    <3> QED
      BY <2>2, <3>1, <3>2
  <2> QED
    BY <2>1, <2>4 DEF Numbered
<1>5. Len(fs) + 1 = n + 2
  BY <1>1
<1> QED
  BY <1>3, <1>4, <1>5 DEF fs

\* A new entry for what lies in buf behind the others.
LEMMA SectorNumbers ==
  ASSUME WriteInv, StoreInv, Filling, at = -1
  PROVE  /\ Own(start, Sector) \in Entries /\ Own(start, Sector).own
         /\ Own(start, Sector).len = Sector /\ Own(start, Sector).off = start
         /\ Own(start, Sector).mem = mem
         /\ \A j \in 1 .. Sector : ByteOf(Own(start, Sector), j) = plen + j
<1> DEFINE e == Own(start, Sector)
<1>1. /\ e \in Entries /\ e.own /\ e.len = Sector /\ e.off = start /\ e.mem = mem
  BY SectorEntry DEF Own
<1> HIDE DEF e
<1>2. ASSUME NEW j \in 1 .. Sector PROVE ByteOf(e, j) = plen + j
  <2>0. /\ start \in Nat /\ cursor \in Nat /\ start <= cursor /\ Sector = cursor - start
        /\ plen \in Nat
    BY Numbers DEF StoreInv
  <2>1. start + j - 1 \in start .. cursor - 1 /\ plen \in Nat /\ start \in Nat
    BY <2>0
  <2>2. buf[start + j - 1] = plen + 1 + (start + j - 1) - start
    BY <2>1 DEF Filling
  <2> QED
    BY <1>1, <2>1, <2>2 DEF ByteOf
<1> QED
  BY <1>1, <1>2 DEF e

\* With it, all that was written is in an entry.
LEMMA SectorAdded ==
  ASSUME WriteInv, StoreInv, Filling, at = -1
  PROVE  \E Q \in [1 .. Len(Append(iov, Own(start, Sector))) + 1 -> Nat] :
           /\ Numbered(Q, Append(iov, Own(start, Sector)))
           /\ Q[Len(Append(iov, Own(start, Sector))) + 1] = written
<1> DEFINE e == Own(start, Sector)
<1>1. PICK P \in [1 .. Len(iov) + 1 -> Nat] : Numbered(P, iov) /\ P[Len(iov) + 1] = plen
  BY DEF Filling
<1>2. iov \in Seq(Entries) /\ Sector \in Nat /\ plen + Sector = written
  BY Numbers DEF Filling
<1>3. e \in Entries /\ e.len = Sector /\ \A j \in 1 .. Sector : ByteOf(e, j) = plen + j
  BY SectorNumbers
<1> HIDE DEF e
<1>4. \E Q \in [1 .. Len(Append(iov, e)) + 1 -> Nat] :
        Numbered(Q, Append(iov, e)) /\ Q[Len(Append(iov, e)) + 1] = P[Len(iov) + 1] + e.len
  BY <1>1, <1>2, <1>3, NumberedMore
<1> QED
  BY <1>1, <1>2, <1>3, <1>4 DEF e

LEMMA MaxOfTwo ==
  ASSUME NEW a \in Nat, NEW b \in Nat
  PROVE  Max({a, b}) \in Nat
<1>1. \E x \in {a, b} : \A y \in {a, b} : x >= y
  BY a >= b \/ b >= a
<1> QED
  BY <1>1 DEF Max

\* An entry more at the end of a sequence.
LEMMA AppendIn ==
  ASSUME NEW es \in Seq(Entries), NEW e \in Entries, NEW S, e \in S,
         \A i \in DOMAIN es : es[i] \in S
  PROVE  /\ Append(es, e) \in Seq(Entries)
         /\ \A i \in DOMAIN Append(es, e) : Append(es, e)[i] \in S
         /\ Len(Append(es, e)) > 0
         /\ Append(es, e)[1] = IF Len(es) > 0 THEN es[1] ELSE e
<1> DEFINE fs == Append(es, e)
<1>1. /\ fs \in Seq(Entries) /\ Len(fs) = Len(es) + 1 /\ fs[Len(es) + 1] = e
      /\ \A i \in 1 .. Len(es) : fs[i] = es[i]
  BY AppendOne
<1> HIDE DEF fs
<1>2. ASSUME NEW i \in DOMAIN fs PROVE fs[i] \in S
  <2>1. i \in 1 .. Len(es) \/ i = Len(es) + 1
    BY <1>1
  <2>2. CASE i \in 1 .. Len(es)
    <3>1. fs[i] = es[i] /\ i \in DOMAIN es
      BY <1>1, <2>2
    <3> QED
      BY <3>1
  <2> QED
    BY <1>1, <2>1, <2>2
<1>3. fs[1] = IF Len(es) > 0 THEN es[1] ELSE e
  <2>1. CASE Len(es) > 0
    BY <1>1, <2>1
  <2>2. CASE ~ Len(es) > 0
    <3>1. Len(es) + 1 = 1
      BY <2>2
    <3> QED
      BY <1>1, <2>2, <3>1
  <2> QED
    BY <2>1, <2>2
<1>4. Len(fs) > 0
  BY <1>1
<1> QED
  BY <1>1, <1>2, <1>3, <1>4 DEF fs

\* A string: before it, what lies in buf becomes an entry of its own; and there is
\* one in any case if this is the first.
LEMMA WriteBytesWire ==
  ASSUME WireInv, NEW n \in Nat, WriteBytes(n)
  PROVE  WireInv'
<1> DEFINE one  == Own(start, Sector)
           text == String(written + 1, n)
           some == Sector > 0 \/ iov = << >>
           base == IF some THEN Append(iov, one) ELSE iov
<1>0. /\ at = -1 /\ at' = at /\ start' = cursor /\ cursor' = cursor /\ fault = "none"
      /\ written' = written + n /\ written + n <= MaxPacket
      /\ UNCHANGED <<size, mem, buf, wire, packets>>
  BY DEF WriteBytes, Building
<1>1. WriteInv /\ WriteInv' /\ StoreInv /\ Filling
  BY <1>0, WriteBytesKeeps DEF WireInv
<1>2. /\ Headroom \in Nat /\ size \in Nat /\ mem \in Nat /\ start \in Nat /\ cursor \in Nat
      /\ written \in Nat /\ plen \in Nat /\ iov \in Seq(Entries)
      /\ Headroom <= start /\ start <= cursor /\ cursor <= size
      /\ Sector = cursor - start /\ Sector \in Nat /\ plen + Sector = written
  BY <1>1, Numbers DEF StoreInv, Filling
<1>3. /\ iov' = IF some THEN iov \o Append(<<one>>, text) ELSE iov \o Append(<< >>, text)
      /\ plen' = plen + (Sector + n)
      /\ highest' = Max({highest, Len(iov')})
  BY DEF WriteBytes, Push
<1>4. one \in Entries /\ one.own /\ one.len = Sector /\ one.off = start /\ one.mem = mem
  BY <1>0, <1>1, SectorNumbers
<1>5. /\ text \in Entries /\ ~ text.own /\ text.len = n /\ text.off = written + 1
      /\ text.mem = 0
  BY <1>2 DEF String, Entries
<1>6. iov' = Append(base, text)
  BY <1>2, <1>3, <1>4, <1>5
<1> HIDE DEF one, text
<1>7. /\ base \in Seq(Entries)
      /\ \E Q \in [1 .. Len(base) + 1 -> Nat] : Numbered(Q, base) /\ Q[Len(base) + 1] = written
  <2>1. CASE some
    <3>1. Append(iov, one) \in Seq(Entries)
      BY <1>2, <1>4, AppendOne
    <3>2. \E Q \in [1 .. Len(Append(iov, one)) + 1 -> Nat] :
            Numbered(Q, Append(iov, one)) /\ Q[Len(Append(iov, one)) + 1] = written
      BY <1>0, <1>1, SectorAdded DEF one
    <3> QED
      BY <2>1, <3>1, <3>2
  <2>2. CASE ~ some
    <3>1. plen = written
      BY <1>2, <2>2
    <3> QED
      BY <1>1, <1>2, <2>2, <3>1 DEF Filling
  <2> QED
    BY <2>1, <2>2
<1> DEFINE S == {e \in Entries : EntryFits(e)'}
<1>8. \A i \in DOMAIN iov : iov[i] \in S
  <2> SUFFICES ASSUME NEW i \in DOMAIN iov PROVE iov[i] \in S
    OBVIOUS
  <2>1. iov[i] \in Entries /\ EntryFits(iov[i])
    BY <1>1, <1>2 DEF StoreInv, EntriesFit
  <2>2. PICK e \in Entries : e = iov[i] /\ EntryFits(e)
    BY <2>1
  <2>3. EntryFits(e)'
    BY <1>0, <1>2, <2>2 DEF EntryFits
  <2> QED
    BY <2>2, <2>3
<1>9. one \in S /\ text \in S
  <2>1. PICK e \in Entries : /\ e = one /\ e.len = Sector /\ e.off = start /\ e.mem = mem
    BY <1>4
  <2>2. start + Sector = cursor
    BY <1>2
  <2>3. EntryFits(e)'
    BY <1>0, <1>2, <2>1, <2>2 DEF EntryFits
  <2>4. PICK e2 \in Entries : /\ e2 = text /\ ~ e2.own /\ e2.len = n
                             /\ e2.off = written + 1 /\ e2.mem = 0
    BY <1>5
  <2>5. n \in Nat /\ written + 1 \in Nat /\ 0 <= mem
    BY <1>2
  <2>6. EntryFits(e2)'
    BY <1>0, <2>4, <2>5 DEF EntryFits
  <2> QED
    BY <2>1, <2>3, <2>4, <2>6
<1> HIDE DEF S
<1>10. /\ \A i \in DOMAIN base : base[i] \in S
       /\ Len(base) > 0 /\ base[1].own
  <2>1. CASE some
    <3>1. /\ \A i \in DOMAIN Append(iov, one) : Append(iov, one)[i] \in S
          /\ Len(Append(iov, one)) > 0
          /\ Append(iov, one)[1] = IF Len(iov) > 0 THEN iov[1] ELSE one
      BY <1>2, <1>4, <1>8, <1>9, AppendIn
    <3>2. (IF Len(iov) > 0 THEN iov[1] ELSE one).own
      BY <1>1, <1>4 DEF Filling
    <3> QED
      BY <2>1, <3>1, <3>2
  <2>2. CASE ~ some
    <3>1. Len(iov) > 0
      BY <1>2, <2>2
    <3> QED
      BY <1>1, <1>8, <2>2, <3>1 DEF Filling
  <2> QED
    BY <2>1, <2>2
<1> HIDE DEF base
<1>11. /\ iov' \in Seq(Entries) /\ Len(iov') > 0 /\ iov'[1].own
       /\ \A i \in DOMAIN iov' : iov'[i] \in S
  <2>1. /\ Append(base, text) \in Seq(Entries)
        /\ \A i \in DOMAIN Append(base, text) : Append(base, text)[i] \in S
        /\ Len(Append(base, text)) > 0
        /\ Append(base, text)[1] = IF Len(base) > 0 THEN base[1] ELSE text
    BY <1>5, <1>7, <1>9, <1>10, AppendIn
  <2> QED
    BY <1>6, <1>10, <2>1
<1>12. EntriesFit'
  BY <1>11 DEF EntriesFit, EntryFits, S
<1>13. PICK P \in [1 .. Len(iov') + 1 -> Nat] :
         Numbered(P, iov') /\ P[Len(iov') + 1] = plen'
  <2>1. PICK Q \in [1 .. Len(base) + 1 -> Nat] : Numbered(Q, base) /\ Q[Len(base) + 1] = written
    BY <1>7
  <2>2. \A j \in 1 .. text.len : ByteOf(text, j) = Q[Len(base) + 1] + j
    BY <1>2, <1>5, <2>1 DEF ByteOf
  <2>3. \E P \in [1 .. Len(Append(base, text)) + 1 -> Nat] :
          /\ Numbered(P, Append(base, text))
          /\ P[Len(Append(base, text)) + 1] = Q[Len(base) + 1] + text.len
    BY <1>5, <1>7, <2>1, <2>2, NumberedMore
  <2>4. Q[Len(base) + 1] + text.len = plen'
    BY <1>2, <1>3, <1>5, <2>1
  <2> QED
    BY <1>6, <2>3, <2>4
<1>14. Filling'
  <2>1. Numbered(P, iov)'
    BY <1>0, <1>13 DEF Numbered, Stale, ByteOf
  <2>2. /\ wire' = << >> /\ plen' + Sector' = written' /\ at' # -2
        /\ \A k \in start' .. cursor' - 1 : FALSE
    BY <1>0, <1>1, <1>2, <1>3 DEF Filling, Sector
  <2> QED
    BY <1>11, <1>13, <2>1, <2>2 DEF Filling
<1>15. StoreInv'
  <2>0. highest \in Nat /\ Len(iov') \in Nat
    BY <1>1, <1>11 DEF StoreInv
  <2>1. highest' \in Nat /\ plen' \in Nat
    <3>1. Max({highest, Len(iov')}) \in Nat
      BY <2>0, MaxOfTwo
    <3> QED
      BY <1>2, <1>3, <3>1
  <2>2. fault' \in {"none", "iov_overrun"}
    BY <1>0 DEF WriteBytes, Push
  <2> QED
    BY <1>0, <1>1, <1>12, <2>1, <2>2 DEF StoreInv
<1> QED
  BY <1>0, <1>1, <1>14, <1>15 DEF WireInv, WriteBytes, Push

\* The end of the packet: with its last entry all of it is in the entries.
LEMMA LastWriteWire ==
  ASSUME WireInv, LastWrite
  PROVE  WireInv'
<1> DEFINE one == Own(start, Sector)
<1>0. /\ at = -1 /\ at' = -2 /\ cursor' = cursor /\ fault = "none" /\ written > 0
      /\ UNCHANGED <<size, mem, buf, wire, packets, written>> /\ Flush
  BY DEF LastWrite, Building
<1>1. WriteInv /\ WriteInv' /\ StoreInv /\ Filling
  BY <1>0, LastWriteKeeps DEF WireInv
<1>2. /\ Headroom \in Nat /\ size \in Nat /\ mem \in Nat /\ start \in Nat /\ cursor \in Nat
      /\ written \in Nat /\ plen \in Nat /\ iov \in Seq(Entries)
      /\ Headroom <= start /\ start <= cursor /\ cursor <= size
      /\ Sector = cursor - start /\ Sector \in Nat /\ plen + Sector = written
  BY <1>1, Numbers DEF StoreInv, Filling
<1>3. CASE Sector > 0
  <2>1. /\ iov' = iov \o <<one>> /\ plen' = plen + Sector /\ start' = cursor
        /\ highest' = Max({highest, Len(iov')}) /\ fault' \in {"none", "iov_overrun"}
    BY <1>0, <1>3 DEF Flush, Push
  <2>2. one \in Entries /\ one.own /\ one.len = Sector /\ one.off = start /\ one.mem = mem
    BY <1>0, <1>1, SectorNumbers
  <2>3. \E P \in [1 .. Len(Append(iov, one)) + 1 -> Nat] :
          /\ Numbered(P, Append(iov, one))
          /\ P[Len(Append(iov, one)) + 1] = written
    BY <1>0, <1>1, SectorAdded
  <2> HIDE DEF one
  <2>4. iov' = Append(iov, one)
    BY <1>2, <2>1, <2>2
  <2> DEFINE S == {e \in Entries : EntryFits(e)'}
  <2>5. \A i \in DOMAIN iov : iov[i] \in S
    <3> SUFFICES ASSUME NEW i \in DOMAIN iov PROVE iov[i] \in S
      OBVIOUS
    <3>1. iov[i] \in Entries /\ EntryFits(iov[i])
      BY <1>1, <1>2 DEF StoreInv, EntriesFit
    <3>2. PICK e \in Entries : e = iov[i] /\ EntryFits(e)
      BY <3>1
    <3>3. EntryFits(e)'
      BY <1>0, <1>2, <2>1, <3>2 DEF EntryFits
    <3> QED
      BY <3>2, <3>3
  <2>6. one \in S
    BY <1>0, <1>2, <2>1, <2>2 DEF EntryFits
  <2> HIDE DEF S
  <2>7. /\ iov' \in Seq(Entries) /\ Len(iov') > 0 /\ iov'[1].own
        /\ \A i \in DOMAIN iov' : iov'[i] \in S
    <3>1. /\ Append(iov, one) \in Seq(Entries)
          /\ \A i \in DOMAIN Append(iov, one) : Append(iov, one)[i] \in S
          /\ Len(Append(iov, one)) > 0
          /\ Append(iov, one)[1] = IF Len(iov) > 0 THEN iov[1] ELSE one
      BY <1>2, <2>2, <2>5, <2>6, AppendIn
    <3>2. (IF Len(iov) > 0 THEN iov[1] ELSE one).own
      BY <1>1, <2>2 DEF Filling
    <3> QED
      BY <2>4, <3>1, <3>2
  <2>8. EntriesFit'
    BY <2>7 DEF EntriesFit, EntryFits, S
  <2>9. PICK P \in [1 .. Len(iov') + 1 -> Nat] : Numbered(P, iov') /\ P[Len(iov') + 1] = written
    BY <2>3, <2>4
  <2>10. Filling'
    <3>1. Numbered(P, iov)'
      BY <1>0, <2>9 DEF Numbered, Stale, ByteOf
    <3>2. /\ wire' = << >> /\ plen' + Sector' = written' /\ start' = cursor' /\ plen' = written
          /\ \A k \in start' .. cursor' - 1 : FALSE
      BY <1>0, <1>1, <1>2, <2>1 DEF Filling, Sector
    <3> QED
      BY <2>7, <2>9, <3>1, <3>2 DEF Filling
  <2>11. StoreInv'
    <3>0. highest \in Nat /\ Len(iov') \in Nat
      BY <1>1, <2>7 DEF StoreInv
    <3>1. highest' \in Nat /\ plen' \in Nat
      <4>1. Max({highest, Len(iov')}) \in Nat
        BY <3>0, MaxOfTwo
      <4> QED
        BY <1>2, <2>1, <4>1
    <3> QED
      BY <1>0, <1>1, <2>1, <2>8, <3>1 DEF StoreInv
  <2> QED
    BY <1>0, <1>1, <2>1, <2>10, <2>11 DEF WireInv
<1>4. CASE ~ Sector > 0
  <2>1. UNCHANGED <<iov, highest, plen, start, fault>>
    BY <1>0, <1>4 DEF Flush, iovVars
  <2>2. start = cursor /\ Sector' = Sector
    BY <1>0, <1>2, <1>4, <2>1 DEF Sector
  <2>3. Filling'
    <3>1. PICK P \in [1 .. Len(iov) + 1 -> Nat] : Numbered(P, iov) /\ P[Len(iov) + 1] = plen
      BY <1>1 DEF Filling
    <3>2. Numbered(P, iov)'
      BY <1>0, <2>1, <3>1 DEF Numbered, Stale, ByteOf
    <3> QED
      BY <1>0, <1>1, <2>1, <2>2, <3>1, <3>2 DEF Filling
  <2>4. StoreInv'
    BY <1>0, <1>1, <2>1 DEF StoreInv, EntriesFit, EntryFits
  <2> QED
    BY <1>0, <1>1, <2>1, <2>3, <2>4 DEF WireInv
<1> QED
  BY <1>3, <1>4

LEMMA ResetWire ==
  ASSUME WireInv, Sending, Reset
  PROVE  WireInv'
<1>1. /\ start' = Headroom /\ cursor' = Headroom /\ iov' = << >> /\ at' = -1 /\ written' = 0
      /\ plen' = 0 /\ wire' = << >> /\ packets' = packets + 1 /\ packets < MaxPackets
      /\ buf' = [i \in DOMAIN buf |-> 0]
      /\ UNCHANGED <<size, highest, fault>> /\ fault = "none"
  BY DEF Reset, FirstSector, NoLength, Sending
<1>2. WriteInv /\ WriteInv' /\ StoreInv
  BY ResetKeeps DEF WireInv
<1>3. Headroom \in Nat /\ MaxPacket \in Nat /\ MaxPackets \in Nat
  BY <1>2, Numbers
<1>4. Filling'
  <2> DEFINE P == [i \in 1 .. 1 |-> 0]
  <2>1. P \in [1 .. 0 + 1 -> Nat] /\ P[1] = 0
    OBVIOUS
  <2> HIDE DEF P
  <2>2. Len(iov') = 0
    BY <1>1
  <2>3. Numbered(P, iov)'
    BY <2>1, <2>2 DEF Numbered
  <2>4. Sector' = 0
    BY <1>1, <1>3 DEF Sector
  <2>5. \A k \in start' .. cursor' - 1 : FALSE
    BY <1>1, <1>3
  <2> QED
    BY <1>1, <2>1, <2>2, <2>3, <2>4, <2>5 DEF Filling
<1>5. StoreInv'
  <2>1. buf' \in [0 .. size - 1 -> Int]
    BY <1>1, <1>2 DEF StoreInv
  <2>2. packets' \in 0 .. MaxPackets
    BY <1>1, <1>2, <1>3 DEF StoreInv
  <2>3. EntriesFit'
    BY <1>1 DEF EntriesFit
  <2> QED
    BY <1>1, <1>2, <1>3, <2>1, <2>2, <2>3 DEF StoreInv
<1> QED
  BY <1>1, <1>2, <1>4, <1>5 DEF WireInv

LEMMA WireInit == Init => WireInv
<1> SUFFICES ASSUME Init PROVE WireInv
  OBVIOUS
<1>1. WriteInv
  BY WriteInit
<1>2. /\ start = Headroom /\ cursor = Headroom /\ iov = << >> /\ at = -1 /\ written = 0
      /\ plen = 0 /\ wire = << >> /\ packets = 0 /\ highest = 0 /\ fault = "none"
  BY DEF Init
<1>3. Headroom \in Nat /\ MaxPacket \in Nat /\ MaxPackets \in Nat
  BY <1>1, Numbers
<1>4. Filling
  <2> DEFINE P == [i \in 1 .. 1 |-> 0]
  <2>1. P \in [1 .. 0 + 1 -> Nat] /\ P[1] = 0
    OBVIOUS
  <2> HIDE DEF P
  <2>2. Len(iov) = 0
    BY <1>2
  <2>3. Numbered(P, iov)
    BY <2>1, <2>2 DEF Numbered
  <2>4. Sector = 0
    BY <1>2, <1>3 DEF Sector
  <2>5. \A k \in start .. cursor - 1 : FALSE
    BY <1>2, <1>3
  <2> QED
    BY <1>2, <2>1, <2>2, <2>3, <2>4, <2>5 DEF Filling
<1>5. StoreInv
  <2>1. EntriesFit /\ packets \in 0 .. MaxPackets
    BY <1>2, <1>3 DEF EntriesFit
  <2>2. buf \in [0 .. size - 1 -> Int]
    <3>1. size = Capacity + Headroom /\ buf = [i \in 0 .. Capacity + Headroom - 1 |-> 0]
      BY DEF Init
    <3>2. Capacity \in Nat /\ Headroom \in Nat
      BY <1>1, Numbers
    <3>3. size - 1 = Capacity + Headroom - 1
      BY <3>1, <3>2
    <3> QED
      BY <3>1, <3>3
  <2> QED
    BY <1>2, <1>3, <2>1, <2>2 DEF StoreInv
<1> QED
  BY <1>1, <1>2, <1>4, <1>5 DEF WireInv

\* Places of the v bytes before offset h, where the length goes, and the l behind it.
LengthPlaces(h, v, l, top, j) ==
  /\ h \in Nat /\ v \in Nat /\ l \in Nat /\ top \in Nat
  /\ v <= h /\ h + l <= top /\ j \in 1 .. l + v

LEMMA InRoom ==
  ASSUME NEW h, NEW v, NEW l, NEW top, NEW j, LengthPlaces(h, v, l, top, j)
  PROVE  /\ (h - v) + j - 1 \in 0 .. top - 1
         /\ j <= v => (h - v) + j - 1 \in h - v .. h - 1
         /\ ~ j <= v => /\ (h - v) + j - 1 \notin h - v .. h - 1
                        /\ j - v \in 1 .. l
                        /\ (h - v) + j - 1 = h + (j - v) - 1
BY DEF LengthPlaces

BehindPrefix(a, v, j) == a \in Nat /\ v \in Nat /\ j \in Nat /\ j >= 1

LEMMA BehindLength ==
  ASSUME NEW a, NEW v, NEW j, BehindPrefix(a, v, j)
  PROVE  (a + v) + j \in Nat /\ ~ (a + v) + j <= v /\ ((a + v) + j) - v = a + j
BY DEF BehindPrefix

\* The length moves the packet up, and the first entry down.
LEMMA WriteLengthWire ==
  ASSUME WireInv, WriteLength
  PROVE  WireInv'
<1> DEFINE first == iov[1]
<1>0. /\ at = -2 /\ fault = "none"
      /\ UNCHANGED <<size, mem, start, cursor, iovSize, highest, plen, wire, written, packets>>
  BY DEF WriteLength
<1>1. WriteInv /\ WriteInv' /\ StoreInv /\ Filling
  BY <1>0, WriteLengthKeeps DEF WireInv
<1>2. /\ Headroom \in Nat /\ size \in Nat /\ mem \in Nat /\ start \in Nat /\ cursor \in Nat
      /\ written \in Nat /\ plen \in Nat /\ iov \in Seq(Entries)
      /\ Headroom <= start /\ start <= cursor /\ cursor <= size /\ plen = written
  <2>1. start = cursor /\ plen + Sector = written /\ plen \in Nat
    BY <1>0, <1>1 DEF Filling, StoreInv
  <2>2. Sector = cursor - start /\ start \in Nat
    BY <1>1, Numbers
  <2>3. plen = written
    BY <2>1, <2>2
  <2> QED
    BY <1>1, <2>1, <2>3, Numbers
<1>3. Len(iov) \in Nat /\ Len(iov) > 0 /\ first.off = Headroom /\ first.own
  BY <1>0, <1>1, <1>2 DEF WriteInv, FirstInv, Filling
<1>4. ASSUME NEW i \in DOMAIN iov
      PROVE  /\ iov[i].off \in Nat /\ iov[i].len \in Nat /\ iov[i].mem \in Nat /\ iov[i].mem <= mem
             /\ iov[i].own => /\ iov[i].off + iov[i].len <= size
                              /\ Headroom <= iov[i].off /\ iov[i].off + iov[i].len <= start
  <2>1. iov[i] \in Entries
    BY <1>2
  <2> QED
    BY <1>0, <1>1, <2>1 DEF StoreInv, EntriesFit, EntryFits, Entries
<1>5. CASE Stale(first)
  <2>1. fault' = "freed_write" /\ UNCHANGED <<buf, iov, at>>
    BY <1>5 DEF WriteLength
  <2>2. StoreInv'
    BY <1>0, <1>1, <2>1 DEF StoreInv, EntriesFit, EntryFits
  <2> QED
    BY <1>1, <2>1, <2>2 DEF WireInv
<1>6. CASE ~ Stale(first)
  <2>1. PICK v \in Nat : v = VarintSize(plen) /\ v <= Headroom
    BY LengthHasRoom
  <2>2. /\ buf' = [i \in DOMAIN buf |->
                     IF i \in Headroom - v .. Headroom - 1 THEN - plen ELSE buf[i]]
        /\ iov' = [iov EXCEPT ![1] = Cut(first, - v)]
        /\ at' = 0 /\ fault' = fault
    <3>1. ~ Headroom - v < 0
      BY <1>2, <2>1
    <3> QED
      BY <1>3, <1>6, <2>1, <3>1 DEF WriteLength
  <2>3. PICK e \in Entries : /\ e = Cut(first, - v) /\ e.own /\ e.mem = first.mem
                            /\ e.off = Headroom - v /\ e.len = first.len + v
    <3>1. first.len \in Nat /\ first \in Entries /\ 1 \in DOMAIN iov
      BY <1>2, <1>3, <1>4
    <3>2. Cut(first, - v) \in Entries
      <4>1. first \in Entries /\ - v \in Int
        BY <2>1, <3>1
      <4> HIDE DEF first
      <4> QED
        BY <4>1, CutEntry
    <3>3. Cut(first, - v) = [own |-> first.own, mem |-> first.mem, off |-> Headroom - v,
                             len |-> first.len + v]
      <4>1. first.off + (- v) = Headroom - v /\ first.len - (- v) = first.len + v
        BY <1>2, <1>3, <2>1, <3>1
      <4> HIDE DEF first
      <4> QED
        BY <4>1 DEF Cut
    <3> QED
      BY <1>3, <3>2, <3>3
  <2>4. /\ iov' \in Seq(Entries) /\ Len(iov') = Len(iov) /\ iov'[1] = e
        /\ \A i \in DOMAIN iov : i # 1 => iov'[i] = iov[i]
    <3>1. iov' = [iov EXCEPT ![1] = e] /\ 1 \in DOMAIN iov
      BY <1>2, <1>3, <2>2, <2>3
    <3> QED
      BY <1>2, <3>1, ReplaceOne
  <2>5. buf' \in [0 .. size - 1 -> Int]
    BY <1>1, <1>2, <2>2 DEF StoreInv
  <2>6. EntriesFit'
    <3> SUFFICES ASSUME NEW i \in DOMAIN iov' PROVE EntryFits(iov[i])'
      BY DEF EntriesFit
    <3>1. i \in DOMAIN iov
      BY <1>2, <2>4
    <3>2. CASE i = 1
      <4>1. first.len \in Nat /\ Headroom + first.len <= size /\ first.mem <= mem
        BY <1>3, <1>4, <3>1, <3>2
      <4>2. e.off \in Nat /\ e.len \in Nat /\ e.mem <= mem /\ e.off + e.len <= size
        <5>1. PICK l \in Nat : l = first.len
          BY <4>1
        <5>2. Headroom + l <= size /\ e.off = Headroom - v /\ e.len = l + v
          BY <2>3, <4>1, <5>1
        <5>3. e.off \in Nat /\ e.len \in Nat /\ e.off + e.len = Headroom + l
          BY <1>2, <2>1, <5>2
        <5> QED
          BY <2>3, <4>1, <5>2, <5>3
      <4> QED
        BY <1>0, <2>2, <2>4, <3>2, <4>2 DEF EntryFits
    <3>3. CASE i # 1
      BY <1>0, <1>4, <2>2, <2>4, <3>1, <3>3 DEF EntryFits
    <3> QED
      BY <3>2, <3>3
  <2>7. StoreInv'
    BY <1>0, <1>1, <2>2, <2>5, <2>6 DEF StoreInv
  <2>8. Leaving'
    <3>1. PICK P \in [1 .. Len(iov) + 1 -> Nat] : Numbered(P, iov) /\ P[Len(iov) + 1] = plen
      BY <1>1 DEF Filling
    <3>2. PICK Q \in [1 .. Len(iov) + 1 -> Nat] :
            Q[1] = 0 /\ P[1] = 0 /\ \A i \in 2 .. Len(iov) + 1 : Q[i] = P[i] + v
      <4> DEFINE R == [i \in 1 .. Len(iov) + 1 |-> IF i = 1 THEN 0 ELSE P[i] + v]
      <4>1. /\ R \in [1 .. Len(iov) + 1 -> Nat] /\ R[1] = 0 /\ P[1] = 0
            /\ \A i \in 2 .. Len(iov) + 1 : R[i] = P[i] + v
        BY <1>3, <2>1, <3>1 DEF Numbered
      <4> HIDE DEF R
      <4> QED
        BY <4>1
    <3>3. Total' = v + written /\ wire' = << >>
      BY <1>0, <1>1, <1>2, <2>1 DEF Total, Filling
    <3>4. ASSUME NEW p \in Nat PROVE ByteAt(p)' = IF p <= v THEN - written ELSE p - v
      BY <1>0, <1>2, <2>1 DEF ByteAt
    <3>5. ASSUME NEW i \in 1 .. Len(iov)
          PROVE  /\ Q[i + 1] = Q[i] + iov'[i].len
                 /\ ~ Stale(iov[i])' => \A j \in 1 .. iov'[i].len :
                                          ByteOf(iov[i], j)' = ByteAt(Q[i] + j)'
      <4>0. /\ P[i] \in Nat /\ P[i + 1] \in Nat /\ P[i + 1] = P[i] + iov[i].len /\ i \in DOMAIN iov
            /\ ~ Stale(iov[i]) => \A j \in 1 .. iov[i].len : ByteOf(iov[i], j) = P[i] + j
        <5>1. i \in 1 .. Len(iov) + 1 /\ i + 1 \in 1 .. Len(iov) + 1 /\ i \in DOMAIN iov
          BY <1>2, <1>3
        <5>2. P[i] \in Nat /\ P[i + 1] \in Nat
          BY <5>1
        <5> QED
          BY <3>1, <5>1, <5>2 DEF Numbered
      <4>1. CASE i = 1
        <5>1. first.len \in Nat /\ Headroom + first.len <= size
          BY <1>3, <1>4, <4>0, <4>1
        <5>2. iov'[i] = e /\ Q[i] = 0 /\ Q[i + 1] = P[i + 1] + v /\ P[i] = 0
          BY <1>3, <2>4, <3>2, <4>0, <4>1
        <5>3. Q[i + 1] = Q[i] + iov'[i].len
          BY <2>1, <2>3, <4>0, <4>1, <5>1, <5>2
        <5>4. ASSUME NEW j \in 1 .. e.len
              PROVE  buf'[e.off + j - 1] = IF j <= v THEN - written ELSE j - v
          <6>0. PICK l \in Nat : l = first.len
            BY <5>1
          <6>5. LengthPlaces(Headroom, v, l, size, j)
            BY <1>2, <2>1, <2>3, <5>1, <6>0 DEF LengthPlaces
          <6>1. PICK k \in 0 .. size - 1 : k = e.off + j - 1 /\ k = (Headroom - v) + j - 1
            BY <2>3, <6>5, InRoom
          <6>2. k \in DOMAIN buf
            BY <1>1, <6>1 DEF StoreInv
          <6>3. CASE j <= v
            <7>1. k \in Headroom - v .. Headroom - 1
              BY <6>1, <6>3, <6>5, InRoom
            <7> QED
              BY <1>2, <2>2, <6>1, <6>2, <6>3, <7>1
          <6>4. CASE ~ j <= v
            <7>1. k \notin Headroom - v .. Headroom - 1 /\ j - v \in 1 .. first.len
                  /\ k = Headroom + (j - v) - 1
              BY <6>0, <6>1, <6>4, <6>5, InRoom
            <7>2. ByteOf(iov[i], j - v) = j - v
              BY <1>6, <4>0, <4>1, <5>2, <7>1
            <7>3. buf[k] = j - v
              BY <1>3, <4>1, <7>1, <7>2 DEF ByteOf
            <7> QED
              BY <2>2, <6>1, <6>2, <6>4, <7>1, <7>3
          <6> QED
            BY <6>3, <6>4
        <5>5. ASSUME NEW j \in 1 .. iov'[i].len PROVE ByteOf(iov[i], j)' = ByteAt(Q[i] + j)'
          <6>1. j \in 1 .. e.len /\ j \in Nat /\ 0 + j = j
            BY <2>3, <5>2
          <6>2. ByteOf(iov[i], j)' = buf'[e.off + j - 1]
            BY <2>3, <5>2 DEF ByteOf
          <6>3. ByteAt(j)' = IF j <= v THEN - written ELSE j - v
            BY <3>4, <6>1
          <6> QED
            BY <5>2, <5>4, <6>1, <6>2, <6>3
        <5> QED
          BY <5>3, <5>5
      <4>2. CASE i # 1
        <5>1. /\ iov'[i] = iov[i] /\ Q[i] = P[i] + v /\ Q[i + 1] = P[i + 1] + v
              /\ iov[i].len \in Nat /\ iov[i].off \in Nat
          BY <1>3, <1>4, <2>4, <3>2, <4>0, <4>2
        <5>2. Q[i + 1] = Q[i] + iov'[i].len
          <6>1. PICK a \in Nat, l \in Nat : a = P[i] /\ l = iov[i].len
            BY <4>0, <5>1
          <6>2. P[i + 1] = a + l /\ (a + l) + v = (a + v) + l
            BY <2>1, <4>0, <6>1
          <6> QED
            BY <5>1, <6>1, <6>2
        <5>3. ASSUME ~ Stale(iov[i])', NEW j \in 1 .. iov'[i].len
              PROVE  ByteOf(iov[i], j)' = ByteAt(Q[i] + j)'
          <6>1. ~ Stale(iov[i]) /\ j \in 1 .. iov[i].len /\ j \in Nat
            BY <1>0, <5>1, <5>3 DEF Stale
          <6>2. ByteOf(iov[i], j) = P[i] + j
            BY <4>0, <6>1
          <6>3. ByteOf(iov[i], j)' = ByteOf(iov[i], j)
            <7>1. CASE iov[i].own
              <8>1. /\ iov[i].off + j - 1 \in 0 .. size - 1
                    /\ iov[i].off + j - 1 \notin Headroom - v .. Headroom - 1
                <9>1. PICK o \in Nat, l \in Nat : o = iov[i].off /\ l = iov[i].len
                  BY <5>1
                <9>2. Headroom <= o /\ o + l <= size /\ j \in 1 .. l
                  BY <1>4, <4>0, <6>1, <7>1, <9>1
                <9>3. o + j - 1 \in 0 .. size - 1 /\ o + j - 1 \notin Headroom - v .. Headroom - 1
                  BY <1>2, <2>1, <9>2
                <9> QED
                  BY <9>1, <9>3
              <8>2. buf'[iov[i].off + j - 1] = buf[iov[i].off + j - 1]
                BY <1>1, <2>2, <8>1 DEF StoreInv
              <8> QED
                BY <5>1, <7>1, <8>2 DEF ByteOf
            <7>2. CASE ~ iov[i].own
              BY <5>1, <7>2 DEF ByteOf
            <7> QED
              BY <7>1, <7>2
          <6>4. Q[i] + j \in Nat /\ ~ Q[i] + j <= v /\ (Q[i] + j) - v = P[i] + j
            <7>1. PICK a \in Nat : a = P[i]
              BY <4>0
            <7>2. Q[i] = a + v /\ j \in Nat /\ j >= 1
              BY <5>1, <6>1, <7>1
            <7>3. BehindPrefix(a, v, j)
              BY <2>1, <7>2 DEF BehindPrefix
            <7> QED
              BY <7>1, <7>2, <7>3, BehindLength
          <6>5. ByteAt(Q[i] + j)' = P[i] + j
            BY <3>4, <6>4
          <6> QED
            BY <6>2, <6>3, <6>5
        <5> QED
          BY <5>2, <5>3
      <4> QED
        BY <4>1, <4>2
    <3>6. Placed(Q, iov, at + 1)'
      <4>1. \A i \in at' + 1 .. Len(iov') : i \in 1 .. Len(iov)
        BY <1>3, <2>2, <2>4
      <4>2. ASSUME NEW i \in at' + 1 .. Len(iov')
            PROVE  /\ Q[i + 1] = Q[i] + iov'[i].len
                   /\ ~ Stale(iov[i])' => \A j \in 1 .. iov'[i].len :
                                            ByteOf(iov[i], j)' = ByteAt(Q[i] + j)'
        <5>1. i \in 1 .. Len(iov)
          BY <4>1
        <5> QED
          BY <3>5, <5>1
      <4> QED
        BY <4>2 DEF Placed
    <3>7. Q[at + 1]' = Len(wire') /\ Q[Len(iov') + 1] = Total'
      <4>1. Q[at + 1]' = Len(wire')
        BY <2>2, <3>2, <3>3
      <4>2. Len(iov) + 1 \in 2 .. Len(iov) + 1
        BY <1>3
      <4>3. Q[Len(iov) + 1] = plen + v
        BY <3>1, <3>2, <4>2
      <4>4. plen + v = Total'
        BY <1>2, <2>1, <3>3
      <4> QED
        BY <2>4, <4>1, <4>3, <4>4
    <3> QED
      <4>1. /\ Len(wire') <= Total'
            /\ \A k \in 1 .. Len(wire') : FALSE
        BY <1>2, <2>1, <3>3
      <4>2. \A k \in 1 .. Len(wire') : wire'[k] = ByteAt(k)'
        BY <4>1
      <4>3. Q \in [1 .. Len(iov') + 1 -> Nat]
        BY <2>4, <3>2
      <4> QED
        BY <3>6, <3>7, <4>1, <4>2, <4>3 DEF Leaving
  <2> QED
    BY <1>0, <1>1, <2>2, <2>7, <2>8 DEF WireInv
<1> QED
  BY <1>5, <1>6
------------------------------------------------------------------------------
(* writev. *)

\* Where the entries es behind the first a ones begin.
BeginAt(P, a, s, es) == \A k \in 0 .. Len(es) : P[a + 1 + k] = P[a + 1] + s[k]

LEMMA PlacesFollow ==
  ASSUME NEW fs \in Seq(Entries), NEW es \in Seq(Entries), NEW a \in Nat,
         a + Len(es) = Len(fs), \A i \in 1 .. Len(es) : es[i] = fs[a + i],
         NEW s, EndsAre(s, es), NEW P \in [1 .. Len(fs) + 1 -> Nat],
         \A i \in a + 1 .. Len(fs) : P[i + 1] = P[i] + fs[i].len
  PROVE  BeginAt(P, a, s, es)
<1> DEFINE m == Len(es)
           T == {k \in 0 .. m : ~ P[a + 1 + k] = P[a + 1] + s[k]}
<1> SUFFICES ASSUME T # {} PROVE FALSE
  BY DEF BeginAt
<1>0. m \in Nat /\ a + m = Len(fs)
  OBVIOUS
<1>1. PICK k \in T : \A j \in T : k <= j
  <2>1. T \subseteq Nat
    BY <1>0
  <2> HIDE DEF T
  <2> QED
    BY <2>1, LeastNat
<1>2. k \in 0 .. m /\ ~ P[a + 1 + k] = P[a + 1] + s[k]
  OBVIOUS
<1>3. /\ s \in [0 .. m -> Nat] /\ s[0] = 0
      /\ \A i \in 1 .. m : s[i] = s[i - 1] + es[i].len
      /\ \A i, j \in 0 .. m : i <= j => s[i] <= s[j]
  BY DEF EndsAre
<1>4. k # 0
  <2>1. a + 1 + 0 = a + 1 /\ a + 1 \in 1 .. Len(fs) + 1
    BY <1>0
  <2>2. P[a + 1] \in Nat
    BY <2>1
  <2> QED
    BY <1>2, <1>3, <2>1, <2>2
<1>5. k - 1 \in 0 .. m /\ k - 1 \notin T
  <2>1. k - 1 \in 0 .. m /\ ~ k <= k - 1
    BY <1>0, <1>2, <1>4
  <2> HIDE DEF T
  <2> QED
    BY <1>1, <2>1
<1>6. P[a + k] = P[a + 1] + s[k - 1]
  <2>1. a + 1 + (k - 1) = a + k
    BY <1>0, <1>2
  <2> QED
    BY <1>5, <2>1
<1>7. /\ a + k \in a + 1 .. Len(fs) /\ (a + k) + 1 = a + 1 + k /\ k \in 1 .. m
      /\ a + 1 \in 1 .. Len(fs) + 1
  BY <1>0, <1>2, <1>4
<1>8. P[a + 1 + k] = P[a + k] + es[k].len /\ s[k] = s[k - 1] + es[k].len
  BY <1>3, <1>7
<1>9. PICK x \in Nat, y \in Nat, z \in Nat : x = P[a + 1] /\ y = s[k - 1] /\ s[k] = y + z /\ z = es[k].len
  <2>1. s[k] \in Nat /\ s[k - 1] \in Nat /\ P[a + 1] \in Nat
    BY <1>2, <1>3, <1>5, <1>7
  <2>2. es[k] \in Entries
    BY <1>7
  <2>3. es[k].len \in Int
    BY <2>2 DEF Entries
  <2>4. es[k].len \in Nat
    <3>1. s[k - 1] <= s[k]
      <4>1. k - 1 <= k
        BY <1>7
      <4> QED
        BY <1>2, <1>3, <1>5, <4>1
    <3>2. PICK x \in Nat, y \in Nat, z \in Int : x = s[k - 1] /\ y = s[k] /\ z = es[k].len
      BY <2>1, <2>3
    <3>3. y = x + z /\ x <= y
      BY <1>8, <3>1, <3>2
    <3>4. z \in Nat
      BY <3>3
    <3> QED
      BY <3>2, <3>4
  <2> QED
    BY <1>8, <2>1, <2>4
<1>10. P[a + 1 + k] = (x + y) + z /\ P[a + 1] + s[k] = x + (y + z)
  BY <1>6, <1>8, <1>9
<1>11. (x + y) + z = x + (y + z)
  OBVIOUS
<1> QED
  BY <1>2, <1>10, <1>11

\* The entry that the kth byte lies in.
LEMMA FindEntry ==
  ASSUME NEW es \in Seq(Entries), NEW s, EndsAre(s, es),
         NEW k \in Nat \ {0}, k <= s[Len(es)]
  PROVE  \E i \in DOMAIN es : s[i - 1] < k /\ k <= s[i]
<1> DEFINE m == Len(es)
           T == {i \in 0 .. m : k <= s[i]}
<1>0. m \in Nat /\ DOMAIN es = 1 .. m /\ s[0] = 0 /\ \A i \in 0 .. m : s[i] \in Nat
  BY DEF EndsAre
<1>1. PICK i \in T : \A j \in T : i <= j
  <2>1. m \in T /\ T \subseteq Nat
    BY <1>0
  <2> HIDE DEF T
  <2> QED
    BY <2>1, LeastNat
<1>2. i \in 0 .. m /\ k <= s[i] /\ i # 0
  BY <1>0
<1>3. i - 1 \in 0 .. m /\ i \in 1 .. m /\ ~ i <= i - 1
  BY <1>0, <1>2
<1>4. ~ k <= s[i - 1]
  <2>1. i - 1 \notin T
    <3> HIDE DEF T
    <3> QED
      BY <1>1, <1>3
  <2> QED
    BY <1>3, <2>1
<1>5. s[i - 1] < k
  BY <1>0, <1>3, <1>4
<1> QED
  BY <1>0, <1>2, <1>3, <1>5

LEMMA PendingFacts ==
  ASSUME WriteInv, StoreInv, at >= 0
  PROVE  /\ Pending \in Seq(Entries) /\ Len(Pending) \in Nat /\ at \in Nat
         /\ DOMAIN Pending = 1 .. Len(Pending)
         /\ at + Len(Pending) = Len(iov)
         /\ \A i \in 1 .. Len(Pending) : Pending[i] = iov[at + i] /\ at + i \in DOMAIN iov
         /\ EndsAre(Ends(Pending), Pending)
<1>1. iov \in Seq(Entries) /\ at \in Nat /\ Len(iov) \in Nat /\ at <= Len(iov)
  BY DEF WriteInv, OffsetInv
<1>2. /\ Pending \in Seq(Entries) /\ Len(Pending) = Len(iov) - at
      /\ \A i \in 1 .. Len(Pending) : Pending[i] = iov[at + i]
  BY <1>1 DEF Pending
<1>3. \A i \in 1 .. Len(Pending) : at + i \in DOMAIN iov
  BY <1>1, <1>2
<1>4. \A i \in DOMAIN Pending : Pending[i].len \in Nat
  <2>1. DOMAIN Pending = 1 .. Len(Pending)
    BY <1>2
  <2> QED
    BY <1>2, <1>3, <2>1 DEF StoreInv, EntriesFit, EntryFits
<1>5. EndsAre(Ends(Pending), Pending)
  BY <1>2, <1>4, EndsFacts
<1> HIDE DEF Pending
<1> QED
  BY <1>1, <1>2, <1>3, <1>5

\* What an entry that fits says is a byte, stale or not.
LEMMA ByteIsInt ==
  ASSUME WriteInv, StoreInv, NEW i \in DOMAIN iov, NEW j \in 1 .. iov[i].len
  PROVE  ByteOf(iov[i], j) \in Int /\ Bytes(iov[i])[j] = ByteOf(iov[i], j)
<1>1. PICK o \in Nat, l \in Nat :
        o = iov[i].off /\ l = iov[i].len /\ (iov[i].own => o + l <= size)
  BY DEF StoreInv, EntriesFit, EntryFits
<1>2. j \in 1 .. l /\ size \in Nat
  BY <1>1, Numbers
<1>3. Bytes(iov[i])[j] = ByteOf(iov[i], j)
  BY DEF Bytes, ByteOf
<1>4. CASE iov[i].own
  <2>1. o + j - 1 \in 0 .. size - 1
    BY <1>1, <1>2, <1>4
  <2> QED
    BY <1>1, <1>3, <1>4, <2>1 DEF ByteOf, StoreInv
<1>5. CASE ~ iov[i].own
  <2>1. o + j - 1 \in Int
    BY <1>2
  <2> QED
    BY <1>1, <1>3, <1>5, <2>1 DEF ByteOf
<1> QED
  BY <1>4, <1>5

\* writev takes no more bytes than there are.
LEMMA TakesNoMore ==
  ASSUME WriteInv, StoreInv, at >= 0,
         NEW s, s = Ends(Pending),
         NEW done \in 0 .. Len(Pending), NEW rest \in Nat, NEW n,
         Finishes(n, done, rest)
  PROVE  n \in Nat /\ n <= s[Len(Pending)]
<1> DEFINE es == Pending
           m  == Len(es)
<1>1. /\ es \in Seq(Entries) /\ m \in Nat /\ DOMAIN es = 1 .. m /\ EndsAre(s, es)
  BY PendingFacts
<1>2. /\ s \in [0 .. m -> Nat]
      /\ \A i \in 1 .. m : s[i] = s[i - 1] + es[i].len
      /\ \A i, j \in 0 .. m : i <= j => s[i] <= s[j]
  BY <1>1 DEF EndsAre
<1>3. /\ n = s[done] + rest /\ (IF done < m THEN rest < es[done + 1].len ELSE rest = 0)
  BY DEF Finishes
<1>4. done \in 0 .. m
  OBVIOUS
<1> HIDE DEF es, m
<1>5. s[done] \in Nat /\ done \in Nat /\ done <= m /\ s[m] \in Nat /\ s[done] <= s[m]
  BY <1>1, <1>2, <1>4
<1>6. n \in Nat
  BY <1>3, <1>5
<1>7. CASE done < m
  <2>1. s[done + 1] = s[done] + es[done + 1].len
    <3>1. done + 1 \in 1 .. m /\ (done + 1) - 1 = done
      BY <1>1, <1>5, <1>7
    <3> QED
      BY <1>2, <3>1
  <2>2. s[done + 1] <= s[m] /\ s[done + 1] \in Nat
    BY <1>1, <1>2, <1>5, <1>7
  <2>3. es[done + 1].len \in Int
    <3>1. es[done + 1] \in Entries
      BY <1>1, <1>5, <1>7
    <3> QED
      BY <3>1 DEF Entries
  <2>4. n < s[done + 1]
    BY <1>3, <1>5, <1>7, <2>1, <2>3
  <2>5. n <= s[m]
    BY <1>5, <1>6, <2>2, <2>4
  <2> QED
    BY <1>6, <2>5 DEF m, es
<1>8. CASE ~ done < m
  <2>1. done = m /\ n = s[m]
    BY <1>1, <1>3, <1>5, <1>8
  <2> QED
    BY <1>5, <1>6, <2>1 DEF m, es
<1> QED
  BY <1>7, <1>8

\* The kth byte taken is a byte of one of the entries up to last.
TakenFrom(k, P, last) ==
  \E i \in at + 1 .. last :
    /\ i \in DOMAIN iov /\ PendingByte(k) \in Int
    /\ ~ Stale(iov[i]) => PendingByte(k) = ByteAt(P[at + 1] + k)

\* Each byte that writev takes is a byte of an entry that it has read, and the
\* next one on the wire.
LEMMA TakenByte ==
  ASSUME WriteInv, StoreInv, at >= 0,
         NEW s, s = Ends(Pending),
         NEW done \in 0 .. Len(Pending), NEW rest \in Nat, NEW n \in Int,
         Finishes(n, done, rest),
         NEW P \in [1 .. Len(iov) + 1 -> Nat], Placed(P, iov, at + 1),
         NEW k \in 1 .. n
  PROVE  TakenFrom(k, P, at + done + (IF rest > 0 THEN 1 ELSE 0))
<1> DEFINE es == Pending
           m  == Len(es)
<1>1. /\ es \in Seq(Entries) /\ m \in Nat /\ at \in Nat /\ DOMAIN es = 1 .. m
      /\ at + m = Len(iov)
      /\ \A i \in 1 .. m : es[i] = iov[at + i] /\ at + i \in DOMAIN iov
      /\ EndsAre(s, es)
  BY PendingFacts
<1>2. /\ s \in [0 .. m -> Nat] /\ s[0] = 0
      /\ \A i \in 1 .. m : s[i] = s[i - 1] + es[i].len
      /\ \A i, j \in 0 .. m : i <= j => s[i] <= s[j]
  BY <1>1 DEF EndsAre
<1>3. /\ n = s[done] + rest /\ (IF done < m THEN rest < es[done + 1].len ELSE rest = 0)
  BY DEF Finishes
<1>4. PendingByte(k) = LET i == CHOOSE i \in DOMAIN es : s[i - 1] < k /\ k <= s[i]
                       IN  Bytes(es[i])[k - s[i - 1]]
  BY DEF PendingByte
<1>5. iov \in Seq(Entries) /\ Len(iov) \in Nat /\ DOMAIN iov = 1 .. Len(iov)
  BY Numbers
<1>0. done \in 0 .. m
  OBVIOUS
<1> HIDE DEF es, m
<1>6. s[done] \in Nat /\ done \in Nat /\ done <= m /\ k \in Nat \ {0}
  BY <1>0, <1>1, <1>2
<1>7. k <= s[m]
  <2>1. n <= s[Len(Pending)]
    BY TakesNoMore
  <2>2. s[m] \in Nat
    BY <1>1, <1>2
  <2> QED
    BY <1>6, <2>1, <2>2 DEF m, es
<1>8. \E i \in DOMAIN es : s[i - 1] < k /\ k <= s[i]
  <2>1. k <= s[Len(es)]
    BY <1>7 DEF m
  <2> QED
    BY <1>1, <1>6, <2>1, FindEntry
<1>9. PICK i \in 1 .. m : /\ s[i - 1] < k /\ k <= s[i]
                         /\ PendingByte(k) = Bytes(es[i])[k - s[i - 1]]
  <2> DEFINE c == CHOOSE i \in DOMAIN es : s[i - 1] < k /\ k <= s[i]
  <2>1. c \in DOMAIN es /\ s[c - 1] < k /\ k <= s[c]
    BY <1>8
  <2>2. PendingByte(k) = Bytes(es[c])[k - s[c - 1]]
    BY <1>4
  <2> HIDE DEF c
  <2> QED
    BY <1>1, <2>1, <2>2
<1>10. /\ i - 1 \in 0 .. m /\ i \in 0 .. m /\ s[i - 1] \in Nat /\ s[i] = s[i - 1] + es[i].len
       /\ es[i] = iov[at + i] /\ at + i \in DOMAIN iov
  BY <1>1, <1>2, <1>9
<1>11. iov[at + i].len \in Nat
  BY <1>10 DEF StoreInv, EntriesFit, EntryFits
<1>12. k - s[i - 1] \in 1 .. iov[at + i].len
  <2>1. PICK x \in Nat, l \in Nat : x = s[i - 1] /\ l = iov[at + i].len
    BY <1>10, <1>11
  <2>2. x < k /\ k <= x + l
    BY <1>9, <1>10, <2>1
  <2>3. k - x \in 1 .. l
    BY <2>2
  <2> QED
    BY <2>1, <2>3
<1>13. PendingByte(k) = ByteOf(iov[at + i], k - s[i - 1]) /\ PendingByte(k) \in Int
  BY <1>9, <1>10, <1>12, ByteIsInt
<1>14. i <= done + (IF rest > 0 THEN 1 ELSE 0)
  <2>1. ASSUME i > done + 1 PROVE FALSE
    <3>1. done < m /\ done + 1 \in 1 .. m /\ done + 1 \in 0 .. m /\ done + 1 <= i - 1
          /\ (done + 1) - 1 = done
      BY <1>1, <1>6, <1>9, <2>1
    <3>2. s[done + 1] = s[done] + es[done + 1].len /\ s[done + 1] <= s[i - 1]
      BY <1>2, <1>10, <3>1
    <3>3. s[done + 1] \in Nat
      BY <1>2, <3>1
    <3>4. es[done + 1].len \in Int
      <4>1. es[done + 1] \in Entries
        BY <1>1, <3>1
      <4> QED
        BY <4>1 DEF Entries
    <3>5. PICK x \in Nat, l \in Int : x = s[done] /\ l = es[done + 1].len
      BY <1>2, <1>6, <3>4
    <3>6. n = x + rest /\ rest < l /\ s[done + 1] = x + l
      BY <1>3, <3>1, <3>2, <3>5
    <3>7. n < s[done + 1]
      BY <1>6, <3>6
    <3>8. PICK y \in Nat, z \in Nat : y = s[done + 1] /\ z = s[i - 1]
      BY <1>10, <3>3
    <3>9. n < y /\ y <= z /\ z < k
      BY <1>9, <3>2, <3>7, <3>8
    <3> QED
      BY <1>6, <3>8, <3>9
  <2>2. ASSUME i = done + 1, rest = 0 PROVE FALSE
    <3>1. i - 1 = done
      BY <1>6, <2>2
    <3>2. n = s[i - 1]
      BY <1>3, <1>6, <2>2, <3>1
    <3> QED
      BY <1>9, <1>10, <3>2
  <2>3. i \in Nat /\ done \in Nat /\ rest \in Nat
    BY <1>6, <1>9, <1>10
  <2> QED
    BY <2>1, <2>2, <2>3
<1>15. at + i \in at + 1 .. at + done + (IF rest > 0 THEN 1 ELSE 0)
  BY <1>1, <1>6, <1>9, <1>14
<1>16. ASSUME ~ Stale(iov[at + i]) PROVE PendingByte(k) = ByteAt(P[at + 1] + k)
  <2>1. P[at + i] = P[at + 1] + s[i - 1]
    <3>1. \A j \in 0 .. m : P[at + 1 + j] = P[at + 1] + s[j]
      <4>1. \A j \in at + 1 .. Len(iov) : P[j + 1] = P[j] + iov[j].len
        BY DEF Placed
      <4>2. at + Len(es) = Len(iov) /\ \A j \in 1 .. Len(es) : es[j] = iov[at + j]
        BY <1>1 DEF m
      <4>3. \A j \in 0 .. Len(es) : P[at + 1 + j] = P[at + 1] + s[j]
        <5>1. BeginAt(P, at, s, es)
          BY <1>1, <1>5, <4>1, <4>2, PlacesFollow
        <5> QED
          BY <5>1 DEF BeginAt
      <4> QED
        BY <4>3 DEF m
    <3>2. at + 1 + (i - 1) = at + i
      BY <1>1
    <3> QED
      BY <1>10, <3>1, <3>2
  <2>2. ByteOf(iov[at + i], k - s[i - 1]) = ByteAt(P[at + i] + (k - s[i - 1]))
    <3>1. at + i \in at + 1 .. Len(iov)
      BY <1>1, <1>9
    <3> QED
      BY <1>12, <1>16, <3>1 DEF Placed
  <2>3. P[at + i] + (k - s[i - 1]) = P[at + 1] + k
    <3>1. PICK x \in Nat, y \in Nat : x = s[i - 1] /\ y = P[at + 1]
      <4>1. at + 1 \in 1 .. Len(iov) + 1
        BY <1>1
      <4> QED
        BY <1>10, <4>1
    <3>2. P[at + i] = y + x /\ (y + x) + (k - x) = y + k
      BY <2>1, <3>1
    <3> QED
      BY <3>1, <3>2
  <2> QED
    BY <1>13, <2>2, <2>3
<1> QED
  BY <1>10, <1>13, <1>15, <1>16 DEF TakenFrom

LEMMA BytesBehind ==
  ASSUME NEW a \in Seq(Int), NEW b \in Seq(Int)
  PROVE  /\ a \o b \in Seq(Int) /\ Len(a \o b) = Len(a) + Len(b)
         /\ \A k \in 1 .. Len(a) + Len(b) :
              (a \o b)[k] = IF k <= Len(a) THEN a[k] ELSE b[k - Len(a)]
OBVIOUS

\* What writev takes is the next part of the packet, and no byte of it is left
\* pending.
LEMMA WritevWire ==
  ASSUME WireInv, Sending, at < Len(iov), NEW n \in Int, Writev(n)
  PROVE  WireInv'
<1>0. /\ UNCHANGED <<size, mem, buf, start, cursor, iovSize, highest, plen, written, packets>>
      /\ at \in Nat /\ fault = "none" /\ wire' = wire \o [k \in 1 .. n |-> PendingByte(k)]
  BY DEF Writev, bufVars, Sending, WireInv, WriteInv, OffsetInv
<1>1. WriteInv /\ WriteInv' /\ StoreInv /\ Leaving
  BY <1>0, WritevKeeps DEF WireInv
<1>2. PICK done \in 0 .. Len(Pending), rest \in 0 .. n :
        /\ Finishes(n, done, rest)
        /\ at' = at + done
        /\ iov' = IF at + done = Len(iov) THEN iov
                  ELSE [iov EXCEPT ![at + done + 1] = Cut(@, rest)]
        /\ IF \E i \in at + 1 .. at + done + (IF rest > 0 THEN 1 ELSE 0) : Stale(iov[i])
           THEN fault' = "freed_read"
           ELSE fault' = "none" \/ (fault' = "ran_off" /\ at + done = Len(iov))
  BY DEF Writev
<1>3. /\ iov \in Seq(Entries) /\ Len(iov) \in Nat /\ DOMAIN iov = 1 .. Len(iov)
      /\ written \in Nat /\ wire \in Seq(Int)
  BY <1>1, Numbers DEF StoreInv
<1>4. /\ Len(Pending) \in Nat /\ at + Len(Pending) = Len(iov) /\ Pending \in Seq(Entries)
      /\ \A i \in 1 .. Len(Pending) : Pending[i] = iov[at + i]
      /\ EndsAre(Ends(Pending), Pending)
  BY <1>0, <1>1, PendingFacts
<1>5. PICK s : s = Ends(Pending)
  OBVIOUS
<1>6. PICK P \in [1 .. Len(iov) + 1 -> Nat] :
        Placed(P, iov, at + 1) /\ P[at + 1] = Len(wire) /\ P[Len(iov) + 1] = Total
  BY <1>1 DEF Leaving
<1>7. n \in Nat /\ rest \in Nat /\ done \in Nat /\ n <= s[Len(Pending)]
  BY <1>0, <1>1, <1>2, <1>4, <1>5, TakesNoMore
<1>8. ASSUME NEW k \in 1 .. n
      PROVE  /\ PendingByte(k) \in Int
             /\ fault' # "freed_read" => PendingByte(k) = ByteAt(Len(wire) + k)
  <2>1. TakenFrom(k, P, at + done + (IF rest > 0 THEN 1 ELSE 0))
    <3>1. at >= 0
      BY <1>0
    <3> QED
      BY <1>1, <1>2, <1>5, <1>6, <1>7, <3>1, TakenByte
  <2> QED
    BY <1>2, <1>6, <2>1 DEF TakenFrom
<1>9. wire' \in Seq(Int) /\ Len(wire') = Len(wire) + n
      /\ \A k \in 1 .. Len(wire) + n :
           wire'[k] = IF k <= Len(wire) THEN wire[k] ELSE PendingByte(k - Len(wire))
  <2> DEFINE t == [k \in 1 .. n |-> PendingByte(k)]
  <2>1. t \in [1 .. n -> Int]
    BY <1>8
  <2>2. t \in Seq(Int) /\ Len(t) = n /\ \A k \in 1 .. n : t[k] = PendingByte(k)
    BY <1>7, <2>1
  <2> HIDE DEF t
  <2>3. wire' = wire \o t
    BY <1>0 DEF t
  <2>4. /\ wire' \in Seq(Int) /\ Len(wire') = Len(wire) + n
        /\ \A k \in 1 .. Len(wire) + n :
             wire'[k] = IF k <= Len(wire) THEN wire[k] ELSE t[k - Len(wire)]
    BY <1>3, <2>2, <2>3, BytesBehind
  <2>5. ASSUME NEW k \in 1 .. Len(wire) + n, ~ k <= Len(wire) PROVE k - Len(wire) \in 1 .. n
    BY <1>3, <1>7, <2>5
  <2> QED
    BY <2>2, <2>4, <2>5
<1> DEFINE q == at + done + 1
<1>10. /\ q \in 1 .. Len(iov) + 1 /\ at' + 1 = q /\ done <= Len(Pending)
       /\ at + done = Len(iov) => rest = 0
       /\ at + done # Len(iov) => /\ q \in 1 .. Len(iov) /\ rest < iov[q].len
                                 /\ iov[q].len \in Nat
  <2>1. /\ q \in 1 .. Len(iov) + 1 /\ at' + 1 = q /\ done <= Len(Pending)
    BY <1>0, <1>2, <1>4
  <2>2. at + done = Len(iov) => rest = 0
    BY <1>0, <1>2, <1>4 DEF Finishes
  <2>3. ASSUME at + done # Len(iov)
        PROVE  q \in 1 .. Len(iov) /\ rest < iov[q].len /\ iov[q].len \in Nat
    <3>1. done < Len(Pending) /\ q \in 1 .. Len(iov) /\ done + 1 \in 1 .. Len(Pending)
          /\ at + (done + 1) = q
      <4>1. PICK m \in Nat : m = Len(Pending)
        BY <1>4
      <4>2. at \in Nat /\ done \in 0 .. m /\ at + m = Len(iov) /\ q = at + done + 1
        BY <1>0, <1>4, <4>1 DEF q
      <4>3. done # m
        BY <2>3, <4>1, <4>2
      <4> QED
        BY <4>1, <4>2, <4>3
    <3>2. Pending[done + 1] = iov[q]
      BY <1>4, <3>1
    <3>3. rest < Pending[done + 1].len
      BY <1>2, <3>1 DEF Finishes
    <3> QED
      BY <1>1, <1>3, <3>1, <3>2, <3>3 DEF StoreInv, EntriesFit, EntryFits
  <2> QED
    BY <2>1, <2>2, <2>3
<1> HIDE DEF q
<1>11. /\ iov' \in Seq(Entries) /\ Len(iov') = Len(iov)
       /\ \A i \in DOMAIN iov : i # q => iov'[i] = iov[i]
       /\ q \in DOMAIN iov => iov'[q] = Cut(iov[q], rest)
  <2>1. CASE at + done = Len(iov)
    <3>1. q \notin DOMAIN iov
      BY <1>0, <1>3, <2>1 DEF q
    <3> QED
      BY <1>2, <1>3, <2>1, <3>1
  <2>2. CASE at + done # Len(iov)
    <3>1. iov' = [iov EXCEPT ![q] = Cut(iov[q], rest)] /\ q \in DOMAIN iov
      BY <1>2, <1>3, <1>10, <2>2 DEF q
    <3>2. Cut(iov[q], rest) \in Entries
      BY <1>3, <1>7, <3>1, CutEntry
    <3> QED
      BY <1>3, <3>1, <3>2, ReplaceOne
  <2> QED
    BY <2>1, <2>2
<1>12. ASSUME NEW i \in DOMAIN iov
       PROVE  /\ iov[i].off \in Nat /\ iov[i].len \in Nat /\ iov[i].mem <= mem
              /\ iov[i].own => iov[i].off + iov[i].len <= size
  BY <1>1 DEF StoreInv, EntriesFit, EntryFits
<1>13. q \in DOMAIN iov => /\ iov'[q].own = iov[q].own /\ iov'[q].mem = iov[q].mem
                          /\ iov'[q].off = iov[q].off + rest
                          /\ iov'[q].len = iov[q].len - rest
                          /\ rest < iov[q].len
  <2>1. ASSUME q \in DOMAIN iov PROVE at + done # Len(iov)
    <3>1. q \in 1 .. Len(iov) /\ q = at + done + 1
      BY <1>3, <2>1 DEF q
    <3>2. PICK x \in Nat : x = at + done
      BY <1>0, <1>7
    <3>3. q = x + 1 /\ x # Len(iov)
      BY <1>3, <3>1, <3>2
    <3> QED
      BY <3>2, <3>3
  <2> QED
    BY <1>10, <1>11, <2>1 DEF Cut
<1>14. EntriesFit'
  <2> SUFFICES ASSUME NEW i \in DOMAIN iov' PROVE EntryFits(iov[i])'
    BY DEF EntriesFit
  <2>1. i \in DOMAIN iov
    BY <1>3, <1>11
  <2>2. CASE i = q
    <3>1. PICK o \in Nat, l \in Nat : o = iov[q].off /\ l = iov[q].len
      BY <1>12, <2>1, <2>2
    <3>2. rest < l /\ iov'[q].off = o + rest /\ iov'[q].len = l - rest
      BY <1>13, <2>1, <2>2, <3>1
    <3>3. o + rest \in Nat /\ l - rest \in Nat /\ (o + rest) + (l - rest) = o + l
      BY <1>7, <3>2
    <3>4. iov[q].own => o + l <= size
      BY <1>12, <2>1, <2>2, <3>1
    <3>5. iov'[q].mem <= mem /\ (iov'[q].own <=> iov[q].own)
      BY <1>12, <1>13, <2>1, <2>2
    <3>6. ~ at' < 0
      BY <1>0, <1>2, <1>7
    <3> QED
      BY <1>0, <2>2, <3>2, <3>3, <3>4, <3>5, <3>6 DEF EntryFits
  <2>3. CASE i # q
    <3>1. ~ at' < 0
      BY <1>0, <1>2, <1>7
    <3> QED
      BY <1>0, <1>11, <1>12, <2>1, <2>3, <3>1 DEF EntryFits
  <2> QED
    BY <2>2, <2>3
<1>15. StoreInv'
  <2>1. fault' \in {"freed_read", "none", "ran_off"}
    BY <1>2
  <2> QED
    BY <1>0, <1>1, <1>9, <1>14, <2>1 DEF StoreInv
<1>16. ASSUME fault' # "freed_read" PROVE Leaving'
  <2>1. P[q] = Len(wire) + Ends(Pending)[done] /\ Ends(Pending)[done] + rest = n
        /\ Ends(Pending)[done] \in Nat
    <3>1. BeginAt(P, at, s, Pending)
      <4>1. \A j \in at + 1 .. Len(iov) : P[j + 1] = P[j] + iov[j].len
        BY <1>6 DEF Placed
      <4>2. EndsAre(s, Pending)
        BY <1>4, <1>5
      <4> QED
        BY <1>0, <1>3, <1>4, <1>6, <4>1, <4>2, PlacesFollow
    <3>2. P[at + 1 + done] = P[at + 1] + s[done]
      BY <1>2, <3>1 DEF BeginAt
    <3>3. at + 1 + done = q
      BY <1>0, <1>7 DEF q
    <3>4. s[done] \in Nat
      BY <1>2, <1>4, <1>5 DEF EndsAre
    <3>5. s[done] + rest = n
      BY <1>2, <1>5 DEF Finishes
    <3> QED
      BY <1>5, <1>6, <3>2, <3>3, <3>4, <3>5
  <2>2. P[q] + rest = Len(wire) + n
    <3>1. PICK x \in Nat, w \in Nat : x = Ends(Pending)[done] /\ w = Len(wire)
      BY <1>3, <2>1
    <3>2. x + rest = n /\ P[q] = w + x
      BY <2>1, <3>1
    <3>3. (w + x) + rest = w + (x + rest)
      BY <1>7
    <3> QED
      BY <3>1, <3>2, <3>3
  <2>3. Len(wire') <= Total
    <3>1. BeginAt(P, at, s, Pending)
      <4>1. \A j \in at + 1 .. Len(iov) : P[j + 1] = P[j] + iov[j].len
        BY <1>6 DEF Placed
      <4>2. EndsAre(s, Pending)
        BY <1>4, <1>5
      <4> QED
        BY <1>0, <1>3, <1>4, <1>6, <4>1, <4>2, PlacesFollow
    <3>2. PICK m \in Nat : m = Len(Pending) /\ at + m = Len(iov)
      BY <1>4
    <3>3. P[at + 1 + m] = P[at + 1] + s[m] /\ s[m] \in Nat /\ n <= s[m]
      BY <1>4, <1>5, <1>7, <3>1, <3>2 DEF BeginAt, EndsAre
    <3>4. at + 1 + m = Len(iov) + 1
      <4>1. PICK x \in Nat, w \in Nat : x = at /\ w = Len(iov)
        BY <1>0, <1>3
      <4>2. x + m = w
        BY <3>2, <4>1
      <4>3. x + 1 + m = w + 1
        BY <4>2
      <4> QED
        BY <4>1, <4>3
    <3>5. Total = Len(wire) + s[m]
      BY <1>6, <3>3, <3>4
    <3>6. Len(wire) + n <= Len(wire) + s[m]
      BY <1>3, <1>7, <3>3
    <3> QED
      BY <1>9, <3>5, <3>6
  <2>4. \A k \in 1 .. Len(wire') : wire'[k] = ByteAt(k)
    <3> SUFFICES ASSUME NEW k \in 1 .. Len(wire) + n PROVE wire'[k] = ByteAt(k)
      BY <1>9
    <3>1. CASE k <= Len(wire)
      <4>1. k \in 1 .. Len(wire)
        BY <1>3, <1>7, <3>1
      <4> QED
        BY <1>1, <1>9, <3>1, <4>1 DEF Leaving
    <3>2. CASE ~ k <= Len(wire)
      <4>1. k - Len(wire) \in 1 .. n /\ Len(wire) + (k - Len(wire)) = k
        BY <1>3, <1>7, <3>2
      <4>2. PendingByte(k - Len(wire)) = ByteAt(Len(wire) + (k - Len(wire)))
        BY <1>8, <1>16, <4>1
      <4> QED
        BY <1>9, <3>2, <4>1, <4>2
    <3> QED
      BY <3>1, <3>2
  <2>5. PICK Q \in [1 .. Len(iov) + 1 -> Nat] :
          Q[q] = P[q] + rest /\ \A i \in 1 .. Len(iov) + 1 : i # q => Q[i] = P[i]
    <3> DEFINE R == [i \in 1 .. Len(iov) + 1 |-> IF i = q THEN P[q] + rest ELSE P[i]]
    <3>1. /\ R \in [1 .. Len(iov) + 1 -> Nat] /\ R[q] = P[q] + rest
          /\ \A i \in 1 .. Len(iov) + 1 : i # q => R[i] = P[i]
      BY <1>7, <1>10
    <3> HIDE DEF R
    <3> QED
      BY <3>1
  <2>6. ASSUME NEW i \in q .. Len(iov)
        PROVE  /\ Q[i + 1] = Q[i] + iov'[i].len
               /\ ~ Stale(iov[i])' => \A j \in 1 .. iov'[i].len :
                                        ByteOf(iov[i], j)' = ByteAt(Q[i] + j)
    <3>0. /\ i \in DOMAIN iov /\ i \in at + 1 .. Len(iov) /\ i \in 1 .. Len(iov) + 1
          /\ i + 1 \in 1 .. Len(iov) + 1 /\ i + 1 # q
      <4>1. q \in Nat /\ q >= at + 1 /\ at + 1 >= 1
        BY <1>0, <1>7 DEF q
      <4> QED
        BY <1>0, <1>3, <4>1
    <3>1. /\ P[i + 1] = P[i] + iov[i].len /\ Q[i + 1] = P[i + 1]
          /\ ~ Stale(iov[i]) => \A j \in 1 .. iov[i].len : ByteOf(iov[i], j) = ByteAt(P[i] + j)
      BY <1>6, <2>5, <3>0 DEF Placed
    <3>2. PICK l \in Nat, o \in Nat, a \in Nat : l = iov[i].len /\ o = iov[i].off /\ a = P[i]
      BY <1>12, <3>0
    <3>3. CASE i = q
      <4>1. /\ iov'[i].own = iov[i].own /\ iov'[i].mem = iov[i].mem /\ rest < l
            /\ iov'[i].off = o + rest /\ iov'[i].len = l - rest /\ Q[i] = a + rest
        BY <1>13, <2>5, <3>0, <3>2, <3>3
      <4>2. Q[i + 1] = Q[i] + iov'[i].len
        <5>1. Q[i + 1] = a + l
          BY <3>1, <3>2
        <5>2. (a + rest) + (l - rest) = a + l
          BY <1>7
        <5> QED
          BY <4>1, <5>1, <5>2
      <4>3. ASSUME ~ Stale(iov[i])', NEW j \in 1 .. iov'[i].len
            PROVE  ByteOf(iov[i], j)' = ByteAt(Q[i] + j)
        <5>1. ~ Stale(iov[i])
          BY <1>0, <4>1, <4>3 DEF Stale
        <5>2. j \in 1 .. l - rest
          BY <4>1, <4>3
        <5>3. j + rest \in 1 .. l /\ (o + rest) + j - 1 = o + (j + rest) - 1
              /\ a + (j + rest) = (a + rest) + j
          BY <1>7, <5>2
        <5>4. ByteOf(iov[i], j + rest) = ByteAt(a + (j + rest))
          BY <3>1, <3>2, <5>1, <5>3
        <5>5. ByteOf(iov[i], j)' = ByteOf(iov[i], j + rest)
          BY <1>0, <3>2, <4>1, <5>3 DEF ByteOf
        <5> QED
          BY <4>1, <5>3, <5>4, <5>5
      <4> QED
        BY <4>2, <4>3
    <3>4. CASE i # q
      <4>1. iov'[i] = iov[i] /\ Q[i] = P[i]
        BY <1>11, <2>5, <3>0, <3>4
      <4>2. ASSUME ~ Stale(iov[i])', NEW j \in 1 .. iov'[i].len
            PROVE  ByteOf(iov[i], j)' = ByteAt(Q[i] + j)
        <5>1. ~ Stale(iov[i]) /\ j \in 1 .. iov[i].len
          BY <1>0, <4>1, <4>2 DEF Stale
        <5>2. ByteOf(iov[i], j)' = ByteOf(iov[i], j)
          BY <1>0, <4>1 DEF ByteOf
        <5> QED
          BY <3>1, <4>1, <5>1, <5>2
      <4> QED
        BY <3>1, <4>1, <4>2
    <3> QED
      BY <3>3, <3>4
  <2>7. Placed(Q, iov, at + 1)'
    <3>1. \A i \in at' + 1 .. Len(iov') : i \in q .. Len(iov)
      BY <1>10, <1>11
    <3> QED
      BY <1>0, <2>6, <3>1 DEF Placed, Stale, ByteOf, ByteAt
  <2>8. /\ Q[at' + 1] = Len(wire') /\ Q[Len(iov') + 1] = Total' /\ Total' = Total
        /\ Q \in [1 .. Len(iov') + 1 -> Nat]
    <3>1. Total' = Total
      BY <1>0 DEF Total
    <3>2. Q[at' + 1] = Len(wire')
      BY <1>9, <1>10, <2>2, <2>5
    <3>3. Q[Len(iov) + 1] = Total
      <4>1. CASE q = Len(iov) + 1
        <5>1. rest = 0
          <6>1. at + done + 1 = Len(iov) + 1
            BY <4>1 DEF q
          <6>2. at + done = Len(iov)
            <7>0. at + done \in Nat /\ Len(iov) \in Nat
              <8>1. at \in Nat /\ done \in Nat
                BY <1>0, <1>7
              <8> QED
                BY <1>3, <8>1
            <7>1. PICK x \in Nat, y \in Nat : x = at + done /\ y = Len(iov)
              BY <7>0
            <7>2. x + 1 = y + 1
              BY <6>1, <7>1
            <7>3. x = y
              BY <7>2
            <7> QED
              BY <7>1, <7>3
          <6> QED
            BY <1>10, <6>2
        <5> QED
          BY <1>6, <1>10, <2>5, <4>1, <5>1
      <4>2. CASE q # Len(iov) + 1
        BY <1>3, <1>6, <2>5, <4>2
      <4> QED
        BY <4>1, <4>2
    <3> QED
      BY <1>11, <2>5, <3>1, <3>2, <3>3
  <2>9. \A k \in 1 .. Len(wire') : wire'[k] = ByteAt(k)'
    BY <1>0, <2>4 DEF ByteAt
  <2> QED
    BY <2>3, <2>5, <2>7, <2>8, <2>9 DEF Leaving
<1>17. fault' = "ran_off" => at' = Len(iov')
  BY <1>2, <1>11
<1>18. at' >= 0 /\ at' \in Int
  BY <1>0, <1>2, <1>7
<1> QED
  BY <1>1, <1>15, <1>16, <1>17, <1>18 DEF WireInv
------------------------------------------------------------------------------
LEMMA SendSomeWire == WireInv /\ SendSome => WireInv'
<1> SUFFICES ASSUME WireInv, SendSome PROVE WireInv'
  OBVIOUS
<1>1. PICK n \in Min({1, Left}) .. Left : Writev(n)
  BY DEF SendSome
<1>2. n \in Int
  BY <1>1
<1> QED
  BY <1>1, <1>2, WritevWire DEF SendSome

LEMMA WireStutter == WireInv /\ UNCHANGED vars => WireInv'
<1> SUFFICES ASSUME WireInv, UNCHANGED vars PROVE WireInv'
  OBVIOUS
<1>1. WriteInv'
  BY WriteStutter DEF WireInv
<1>2. UNCHANGED <<size, mem, buf, start, cursor, iovSize, iov, highest, plen, at, wire, written,
                  packets, fault>>
  BY DEF vars, bufVars, iovVars
<1>3. StoreInv'
  BY <1>2 DEF WireInv, StoreInv, EntriesFit, EntryFits
<1>4. Filling => Filling'
  BY <1>2 DEF Filling, Sector, Numbered, Stale, ByteOf
<1>5. Leaving => Leaving'
  BY <1>2 DEF Leaving, Total, Placed, Stale, ByteOf, ByteAt
<1> QED
  BY <1>1, <1>2, <1>3, <1>4, <1>5 DEF WireInv

\* One step for any mix of writes.
LEMMA WireNext == WireInv /\ [Next]_vars => WireInv'
<1> SUFFICES ASSUME WireInv, [Next]_vars PROVE WireInv'
  OBVIOUS
<1>1. ASSUME NEW n \in OwnSizes, Write(n) PROVE WireInv'
  BY <1>1, WriteWire, WriteAssumption DEF WriteAssumption
<1>2. ASSUME NEW n \in StringSizes, WriteBytes(n) PROVE WireInv'
  BY <1>2, WriteBytesWire, WriteAssumption DEF WriteAssumption
<1>3. CASE LastWrite
  BY <1>3, LastWriteWire
<1>4. CASE WriteLength
  BY <1>4, WriteLengthWire
<1>5. CASE SendSome
  BY <1>5, SendSomeWire
<1>6. CASE Sent
  BY <1>6, ResetWire DEF Sent
<1>7. CASE WritevFails
  BY <1>7, ResetWire DEF WritevFails
<1>8. CASE UNCHANGED vars
  BY <1>8, WireStutter
<1> QED
  BY <1>1, <1>2, <1>3, <1>4, <1>5, <1>6, <1>7, <1>8 DEF Next

\* One step of a sender.
LEMMA WireSends ==
  WireInv /\ todo \in Seq(Writes) /\ [SendersNext]_sendVars => WireInv'
<1> SUFFICES ASSUME WireInv, todo \in Seq(Writes), [SendersNext]_sendVars PROVE WireInv'
  OBVIOUS
<1>1. CASE Call
  BY <1>1, WireStutter DEF Call
<1>2. CASE NextWrite
  <2>1. Head(todo) \in Writes
    BY <1>2 DEF NextWrite
  <2>2. Head(todo).size \in Nat
    BY <2>1 DEF Writes
  <2> QED
    BY <1>2, <2>2, WriteWire, WriteBytesWire DEF NextWrite
<1>3. CASE AnyWrite
  BY <1>3, WriteWire, WriteBytesWire, WriteAssumption DEF AnyWrite, WriteAssumption
<1>4. CASE Finish
  BY <1>4, LastWriteWire, WriteLengthWire DEF Finish
<1>5. CASE Send
  BY <1>5, SendSomeWire DEF Send
<1>6. CASE Return \/ Fail
  BY <1>6, ResetWire DEF Return, Fail, Sent, WritevFails
<1>7. CASE UNCHANGED sendVars
  BY <1>7, WireStutter DEF sendVars
<1> QED
  BY <1>1, <1>2, <1>3, <1>4, <1>5, <1>6, <1>7 DEF SendersNext

LEMMA MixesInvariant == Spec => []WireInv
BY WireInit, WireNext, PTL DEF Spec

LEMMA PacketsInvariant == SendersSpec => []WireInv
<1>1. SendersInit => WireInv
  BY WireInit DEF SendersInit
<1>2. SendersInv => todo \in Seq(Writes)
  BY DEF SendersInv
<1> QED
  BY <1>1, <1>2, WireSends, SendersInvariant, PTL DEF SendersSpec

LEMMA ExactWire == WireInv => WireExact
<1> SUFFICES ASSUME WireInv PROVE WireExact
  OBVIOUS
<1>1. /\ written \in Nat /\ VarintSize(written) \in Nat /\ wire \in Seq(Int)
      /\ Len(iov) \in Nat
  BY LengthHasRoom, Numbers DEF WireInv, StoreInv
<1>2. Expected = [i \in 1 .. Total |-> ByteAt(i)] /\ Total \in Nat
  BY <1>1 DEF Expected, Total, ByteAt
<1>3. Expected \in Seq(Int) /\ Len(Expected) = Total /\ \A i \in 1 .. Total : Expected[i] = ByteAt(i)
  <2>1. \A i \in 1 .. Total : ByteAt(i) \in Int
    BY <1>1 DEF ByteAt
  <2> QED
    BY <1>2, <2>1
<1> HIDE DEF Expected
<1>4. ASSUME Leaving PROVE IsPrefix(wire, Expected)
  <2>1. Len(wire) <= Len(Expected) /\ \A k \in 1 .. Len(wire) : wire[k] = Expected[k]
    BY <1>1, <1>2, <1>3, <1>4 DEF Leaving
  <2> QED
    BY <1>1, <1>3, <2>1 DEF IsPrefix
<1>5. ASSUME Leaving, at = Len(iov) PROVE wire = Expected
  <2>1. Len(wire) = Len(Expected)
    BY <1>3, <1>5 DEF Leaving
  <2>2. \A k \in 1 .. Len(wire) : wire[k] = Expected[k]
    BY <1>1, <1>2, <1>3, <1>5 DEF Leaving
  <2> QED
    BY <1>1, <1>3, <2>1, <2>2
<1> QED
  BY <1>4, <1>5 DEF WireInv, WireExact, Sending

LEMMA TypedWire == WireInv => WriteTypeOK
<1> SUFFICES ASSUME WireInv PROVE WriteTypeOK
  OBVIOUS
<1>1. iov \in Seq([own : BOOLEAN, mem : Nat, off : Nat, len : Nat])
  <2> DEFINE R == [own : BOOLEAN, mem : Nat, off : Nat, len : Nat]
  <2>1. iov \in Seq(Entries)
    BY DEF WireInv, WriteInv, OffsetInv
  <2>2. ASSUME NEW i \in DOMAIN iov PROVE iov[i] \in R
    <3>1. iov[i] \in Entries /\ iov[i].off \in Nat /\ iov[i].len \in Nat
      BY <2>1 DEF WireInv, StoreInv, EntriesFit, EntryFits
    <3> QED
      BY <3>1 DEF Entries
  <2> HIDE DEF R
  <2>3. iov \in Seq(R)
    BY <2>1, <2>2
  <2> QED
    BY <2>3 DEF R
<1>2. /\ size \in Nat /\ mem \in Nat /\ start \in 0 .. cursor /\ cursor \in 0 .. size
      /\ iovSize \in Nat /\ at \in -2 .. Len(iov) /\ written \in 0 .. MaxPacket
  BY Numbers DEF WireInv, StoreInv
<1>3. reach \in Nat
  BY Numbers DEF WireInv, WriteInv, OffsetInv
<1> QED
  BY <1>1, <1>2, <1>3 DEF WireInv, StoreInv, WriteTypeOK

\* Whatever the sizes and however writev takes them, any mix of writes reaches the
\* client in order, complete and behind its true length (write_bytes, iov,
\* write_wbuf).
THEOREM MixesExact == Spec => []WireExact
BY MixesInvariant, ExactWire, PTL

\* And so does every packet that the server sends (the functions send_*).
THEOREM PacketsExact == SendersSpec => []WireExact
BY PacketsInvariant, ExactWire, PTL

\* The variables of the write path keep their types: no entry begins before buf or
\* has a negative length (buffer_resize, write_iov, write_wbuf).
THEOREM WriteTypes == SendersSpec => []WriteTypeOK
BY PacketsInvariant, TypedWire, PTL
------------------------------------------------------------------------------
(* write_wbuf comes to its end. *)

\* What has not been sent: bytes that the kernel has not taken, and entries that
\* are not done.
Unsent == (Total - Len(wire)) + (Len(iov) - at)

\* The pending entries hold the bytes that are not on the wire.
LEMMA LeftIs ==
  ASSUME WireInv, Sending
  PROVE  Left = Total - Len(wire) /\ Left \in Nat /\ Len(wire) \in Nat /\ Total \in Nat
<1>1. WriteInv /\ StoreInv /\ Leaving /\ at >= 0
  BY DEF WireInv, Sending
<1>2. PICK P \in [1 .. Len(iov) + 1 -> Nat] :
        Placed(P, iov, at + 1) /\ P[at + 1] = Len(wire) /\ P[Len(iov) + 1] = Total
  BY <1>1 DEF Leaving
<1>3. /\ Pending \in Seq(Entries) /\ Len(Pending) \in Nat /\ at \in Nat
      /\ at + Len(Pending) = Len(iov)
      /\ \A i \in 1 .. Len(Pending) : Pending[i] = iov[at + i]
      /\ EndsAre(Ends(Pending), Pending)
  BY <1>1, PendingFacts
<1>4. iov \in Seq(Entries) /\ Len(iov) \in Nat
  BY <1>1, Numbers
<1>5. BeginAt(P, at, Ends(Pending), Pending)
  <2>1. \A i \in at + 1 .. Len(iov) : P[i + 1] = P[i] + iov[i].len
    BY <1>2 DEF Placed
  <2> QED
    BY <1>3, <1>4, <2>1, PlacesFollow
<1>6. PICK m \in Nat, s \in {Ends(Pending)} : m = Len(Pending) /\ s = Ends(Pending)
  BY <1>3
<1>7. P[at + 1 + m] = P[at + 1] + s[m] /\ s[m] \in Nat
  BY <1>3, <1>5, <1>6 DEF BeginAt, EndsAre
<1>8. at + 1 + m = Len(iov) + 1 /\ at + 1 \in 1 .. Len(iov) + 1 /\ Len(iov) + 1 \in 1 .. Len(iov) + 1
  <2>1. PICK a \in Nat, l \in Nat : a = at /\ l = Len(iov) /\ a + m = l
    BY <1>3, <1>4, <1>6
  <2>2. a + 1 + m = l + 1 /\ a + 1 \in 1 .. l + 1 /\ l + 1 \in 1 .. l + 1
    BY <2>1
  <2> QED
    BY <2>1, <2>2
<1>9. Total = Len(wire) + s[m] /\ Total \in Nat /\ Len(wire) \in Nat
  BY <1>2, <1>7, <1>8
<1>10. Left = s[m]
  BY <1>6 DEF Left
<1> QED
  BY <1>7, <1>9, <1>10

\* Whatever the kernel takes, it finishes some entries and leaves a part of the
\* next one.
LEMMA TakesSome ==
  ASSUME WireInv, Sending, NEW n \in 0 .. Left
  PROVE  \E done \in 0 .. Len(Pending), rest \in 0 .. n : Finishes(n, done, rest)
<1>1. /\ Pending \in Seq(Entries) /\ Len(Pending) \in Nat
      /\ DOMAIN Pending = 1 .. Len(Pending)
      /\ EndsAre(Ends(Pending), Pending)
  BY PendingFacts DEF WireInv, Sending
<1>2. PICK m \in Nat, s \in {Ends(Pending)} : m = Len(Pending) /\ s = Ends(Pending)
  BY <1>1
<1>3. /\ s \in [0 .. m -> Nat] /\ EndsAre(s, Pending)
      /\ \A i \in 1 .. m : s[i] = s[i - 1] + Pending[i].len
  BY <1>1, <1>2 DEF EndsAre
<1>4. s[m] \in Nat /\ n \in 0 .. s[m]
  BY <1>2, <1>3 DEF Left
<1>5. CASE n = s[m]
  <2>1. m \in 0 .. Len(Pending) /\ 0 \in 0 .. n /\ n = s[m] + 0
    BY <1>2, <1>4, <1>5
  <2>2. Finishes(n, m, 0)
    BY <1>2, <2>1 DEF Finishes
  <2> QED
    BY <2>1, <2>2
<1>6. CASE n # s[m]
  <2>1. n + 1 \in Nat \ {0} /\ n + 1 <= s[Len(Pending)]
    BY <1>2, <1>4, <1>6
  <2>2. PICK i \in 1 .. m : s[i - 1] < n + 1 /\ n + 1 <= s[i]
    BY <1>1, <1>2, <1>3, <2>1, FindEntry
  <2>3. PICK a \in Nat, l \in Int : a = s[i - 1] /\ l = Pending[i].len /\ s[i] = a + l
    <3>1. i - 1 \in 0 .. m /\ i \in 1 .. Len(Pending)
      BY <1>2, <2>2
    <3>2. s[i - 1] \in Nat
      BY <1>3, <3>1
    <3>3. Pending[i] \in Entries
      BY <1>1, <3>1
    <3>4. Pending[i].len \in Int
      BY <3>3 DEF Entries
    <3> QED
      BY <1>3, <3>2, <3>4
  <2>4. n - a \in 0 .. n /\ n = a + (n - a) /\ n - a < l
    BY <1>4, <2>2, <2>3
  <2>5. i - 1 \in 0 .. Len(Pending) /\ i - 1 < Len(Pending) /\ (i - 1) + 1 = i
    BY <1>2, <2>2
  <2>6. Finishes(n, i - 1, n - a)
    BY <1>2, <2>3, <2>4, <2>5 DEF Finishes
  <2> QED
    BY <2>4, <2>5, <2>6
<1> QED
  BY <1>5, <1>6

\* The smaller of two numbers.
LEMMA MinOfTwo ==
  ASSUME NEW a \in Int, NEW b \in Int
  PROVE  Min({a, b}) \in {a, b} /\ \A x \in {a, b} : Min({a, b}) <= x
<1>1. \E x \in {a, b} : \A y \in {a, b} : x <= y
  BY a <= b \/ b <= a
<1> QED
  BY <1>1 DEF Min

\* writev takes nothing only when there is nothing to take.
LEMMA LeastTaken ==
  ASSUME NEW l \in Nat, NEW n \in Min({1, l}) .. l
  PROVE  n \in Nat /\ (n = 0 => l = 0)
<1>1. 1 \in Int /\ l \in Int
  OBVIOUS
<1>2. Min({1, l}) \in {1, l} /\ \A x \in {1, l} : Min({1, l}) <= x
  BY <1>1, MinOfTwo
<1>3. PICK a \in {1, l} : a = Min({1, l})
  BY <1>2
<1>4. n \in a .. l
  BY <1>3
<1> QED
  BY <1>4

\* A writev that takes nothing finishes an entry at least, an empty one.
LEMMA MovesOn ==
  ASSUME WireInv, Sending, at < Len(iov), NEW n \in Min({1, Left}) .. Left,
         NEW done \in 0 .. Len(Pending), NEW rest \in Nat, Finishes(n, done, rest)
  PROVE  n \in Nat /\ n + done > 0
<1>1. Left \in Nat
  BY LeftIs
<1>2. n \in Nat /\ (n = 0 => Left = 0)
  BY <1>1, LeastTaken
<1>3. ASSUME n = 0, done = 0 PROVE FALSE
  <2>1. /\ Pending \in Seq(Entries) /\ Len(Pending) \in Nat /\ at + Len(Pending) = Len(iov)
        /\ at \in Nat /\ EndsAre(Ends(Pending), Pending)
    BY PendingFacts DEF WireInv, Sending
  <2>2. PICK m \in Nat, s \in {Ends(Pending)} : m = Len(Pending) /\ s = Ends(Pending)
    BY <2>1
  <2>3. 0 < m
    BY <2>1, <2>2
  <2>4. /\ s[0] = 0 /\ s[1] = s[0] + Pending[1].len /\ s[1] \in Nat /\ s[1] <= s[m]
    <3>1. 1 \in 1 .. m /\ 1 \in 0 .. m /\ m \in 0 .. m /\ 1 - 1 = 0
      BY <2>3
    <3> QED
      BY <2>1, <2>2, <2>3, <3>1 DEF EndsAre
  <2>5. s[m] = 0
    BY <1>2, <1>3, <2>2 DEF Left
  <2>6. s[1] = 0 /\ Pending[1] \in Entries
    BY <2>1, <2>2, <2>3, <2>4, <2>5
  <2>7. Pending[1].len = 0
    BY <2>4, <2>6 DEF Entries
  <2>8. rest < Pending[1].len
    BY <1>3, <2>2, <2>3 DEF Finishes
  <2> QED
    BY <2>7, <2>8
<1> QED
  BY <1>2, <1>3

\* One queue behind another is as long as both.
LEMMA WireLonger ==
  ASSUME NEW w \in Seq(Int), NEW n \in Nat, NEW t, DOMAIN t = 1 .. n,
         t = [k \in 1 .. n |-> t[k]]
  PROVE  Len(w \o t) = Len(w) + n
<1> DEFINE S == Int \cup {t[k] : k \in 1 .. n}
<1>1. t \in Seq(S) /\ Len(t) = n /\ w \in Seq(S)
  OBVIOUS
<1> HIDE DEF S
<1> QED
  BY <1>1

\* Each writev takes a byte or finishes an entry, and never takes too much.
LEMMA SendStep ==
  ASSUME WireInv, SendSome
  PROVE  Unsent' \in Nat /\ Unsent' < Unsent
<1>1. PICK n \in Min({1, Left}) .. Left : Writev(n)
  BY DEF SendSome
<1>2. Sending /\ at < Len(iov) /\ WriteInv /\ StoreInv
  BY DEF SendSome, WireInv
<1>3. PICK done \in 0 .. Len(Pending), rest \in 0 .. n :
        /\ Finishes(n, done, rest)
        /\ at' = at + done
        /\ iov' = IF at + done = Len(iov) THEN iov
                  ELSE [iov EXCEPT ![at + done + 1] = Cut(@, rest)]
  BY <1>1 DEF Writev
<1>4. n \in Nat /\ n + done > 0
  <2>1. rest \in Nat
    OBVIOUS
  <2> QED
    BY <1>2, <1>3, <2>1, MovesOn
<1>5. PICK w \in Nat, t \in Nat, l \in Nat, m \in Nat :
        /\ w = Len(wire) /\ t = Total /\ l = Len(iov) /\ m = Len(Pending)
        /\ Left = t - w /\ at + m = l /\ at \in Nat
  <2>1. Left = Total - Len(wire) /\ Len(wire) \in Nat /\ Total \in Nat
    BY <1>2, LeftIs
  <2>2. Len(Pending) \in Nat /\ at \in Nat /\ at + Len(Pending) = Len(iov)
    BY <1>2, PendingFacts DEF Sending
  <2>3. Len(iov) \in Nat
    BY <1>2, Numbers
  <2> QED
    BY <2>1, <2>2, <2>3
<1>6. Len(wire') = w + n /\ Total' = t
  <2>1. wire' = wire \o [k \in 1 .. n |-> PendingByte(k)] /\ written' = written
    BY <1>1 DEF Writev
  <2>2. Len(wire') = Len(wire) + n
    <3> DEFINE u == [k \in 1 .. n |-> PendingByte(k)]
    <3>1. DOMAIN u = 1 .. n /\ u = [k \in 1 .. n |-> u[k]]
      OBVIOUS
    <3>2. wire' = wire \o u /\ wire \in Seq(Int)
      BY <1>2, <2>1 DEF StoreInv
    <3> HIDE DEF u
    <3> QED
      BY <1>4, <3>1, <3>2, WireLonger
  <2> QED
    BY <1>5, <2>1, <2>2 DEF Total
<1>7. Len(iov') = l
  BY <1>2, <1>3, <1>5, Numbers
<1>8. Unsent = (t - w) + (l - at) /\ Unsent' = (t - (w + n)) + (l - (at + done))
  BY <1>3, <1>5, <1>6, <1>7 DEF Unsent
<1>9. n <= t - w /\ done \in 0 .. m
  BY <1>3, <1>5
<1> QED
  BY <1>4, <1>5, <1>8, <1>9

\* Every writev brings write_wbuf nearer to its end.
SendsApproach == [][Send => Unsent' \in Nat /\ Unsent' < Unsent]_sendVars

\* The loop of write_wbuf does not go round forever: what is not sent is a number
\* that each writev makes smaller, even one that takes nothing of an empty entry
\* (write_wbuf).
THEOREM SendsComeToAnEnd == SendersSpec => SendsApproach
<1>1. WireInv /\ [SendersNext]_sendVars => [Send => Unsent' \in Nat /\ Unsent' < Unsent]_sendVars
  BY SendStep DEF Send
<1> QED
  BY <1>1, PacketsInvariant, PTL DEF SendersSpec, SendsApproach

\* And no writev leaves it without a next step: however many of the pending bytes
\* the kernel takes, they finish a number of entries and a part of the one behind
\* them, which the loop that counts them finds (write_wbuf).
THEOREM SendsGoOn ==
  SendersSpec => [](Sending => \A n \in 0 .. Left :
                                 \E done \in 0 .. Len(Pending), rest \in 0 .. n :
                                   Finishes(n, done, rest))
<1>1. WireInv => (Sending => \A n \in 0 .. Left :
                               \E done \in 0 .. Len(Pending), rest \in 0 .. n :
                                 Finishes(n, done, rest))
  BY TakesSome
<1> QED
  BY <1>1, PacketsInvariant, PTL
================================================================================
