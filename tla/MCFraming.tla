------------------------------ MODULE MCFraming ------------------------------
(* Client streams for model-checking Framing. *)
EXTENDS Framing

\* Four packets that fit in a primary buffer of 4 bytes: one byte short of it,
\* exactly it, the shortest there is, and one with a two-byte prefix.
SmallStart == <<0, 3, 7, 9, 13>>
SmallHdr   == <<1, 1, 1, 2>>

\* One byte short of primary; an exact fit; one byte too long; and one that needs the
\* secondary buffer for more than one read.
MixedStart == <<0, 3, 7, 12, 19>>
MixedHdr   == <<1, 2, 1, 2>>

\* Prefixes of a packet that fits and of one that does not; of no byte at all; of -1,
\* and of negative lengths as long as their prefix, and longer.
Strays == {[size |-> 2, len |-> 3], [size |-> 1, len |-> 5],
           [size |-> 1, len |-> 0], [size |-> 2, len |-> -1],
           [size |-> 2, len |-> -2], [size |-> 2, len |-> -3]}
==============================================================================
