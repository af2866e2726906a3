-------------------------------- MODULE Varint --------------------------------
(***************************************************************************)
(* Variable-length integers: groups of bits, least significant first, in   *)
(* bytes whose top bit says that another one follows.  The code's groups   *)
(* are of 7 bits; after four of them a last byte has room for 4 bits.      *)
(*                                                                         *)
(*   src/network/writebuffer.cpp  WRITE_VARINT, the loop of iov()          *)
(*   src/network/readbuffer.cpp   the loops of read_varint, read_length    *)
(***************************************************************************)
EXTENDS Integers, Sequences

CONSTANTS
  Radix,     \* values of a group: 128
  Groups,    \* groups before the last byte: 4
  LastRadix  \* values of the last byte: 16

ASSUME VarintAssumption ==
  /\ Radix \in Nat /\ Radix > 1
  /\ Groups \in Nat \ {0}
  /\ LastRadix \in 1 .. Radix /\ LastRadix % 2 = 0

Bytes == 0 .. 2 * Radix - 1

\* c & CONTINUE_BIT and c & SEGMENT_BITS
Continues(c) == c >= Radix
Segment(c)   == c % Radix

\* What a group counts for: Radix to the number of the groups before it.
Weight == LET weight[k \in 0 .. Groups] == IF k = 0 THEN 1 ELSE weight[k - 1] * Radix
          IN  weight

\* The unsigned value of all groups as an int.
Values   == Weight[Groups] * LastRadix
AsInt(u) == IF u < Values \div 2 THEN u ELSE u - Values
------------------------------------------------------------------------------
(* Writing: one turn of the loop per byte. *)

\* Mutation: the loop ends with x = 0.
IsZero(x) == x = 0

\* (x & ~0x7f) == 0, which no negative x meets
IsLast(x) == x \in 0 .. Radix - 1

ByteOf(x) == IF IsLast(x) THEN x ELSE (x % Radix) + Radix

\* Mutation: x >>= 8
ShiftedByte(x) == x \div (2 * Radix)

\* x >>= 7, an arithmetic shift
Shifted(x) == x \div Radix
------------------------------------------------------------------------------
(* Reading: "pos" counts groups where the code counts their bits. *)

NothingRead == [value |-> 0, pos |-> 0, size |-> 0, status |-> "reading"]

\* Mutation: the upper half of the last byte is not looked at.
TakeLastUnchecked(d, c) ==
  [d EXCEPT !.size = @ + 1, !.value = @ + Segment(c) * Weight[Groups], !.status = "done"]

\* The last byte.  Its bits are or'ed in, so that they count once.
TakeLast(d, c) ==
  [d EXCEPT !.size = @ + 1,
            !.value = IF c < LastRadix /\ @ < Weight[Groups] THEN @ + c * Weight[Groups] ELSE @,
            !.status = IF c < LastRadix THEN "done" ELSE "malformed"]

Take(d, c) ==
  IF d.pos = Groups
  THEN TakeLast(d, c)
  ELSE [d EXCEPT !.size = @ + 1,
                 !.value = @ + Segment(c) * Weight[d.pos],
                 !.pos = IF Continues(c) THEN @ + 1 ELSE @,
                 !.status = IF Continues(c) THEN "reading" ELSE "done"]
------------------------------------------------------------------------------
(* What a varint at the beginning of the bytes s is, all bytes at once. *)

Ends(s, i) == i \in 1 .. Groups + 1 /\ i <= Len(s) /\ (~ Continues(s[i]) \/ i = Groups + 1)

\* Bytes of the varint, 0 when s ends before it does.
SizeIn(s) == IF \E i \in DOMAIN s : Ends(s, i)
             THEN CHOOSE i \in DOMAIN s : Ends(s, i) /\ \A j \in 1 .. i - 1 : ~ Ends(s, j)
             ELSE 0

WellFormed(s) == SizeIn(s) = Groups + 1 => s[Groups + 1] < LastRadix

\* The number whose base-Radix digits the segments are.
ValueOf(s) ==
  CHOOSE v \in 0 .. Values - 1 :
    \A i \in 1 .. Groups + 1 :
      (v \div Weight[i - 1]) % Radix = IF i <= SizeIn(s) THEN Segment(s[i]) ELSE 0
==============================================================================
