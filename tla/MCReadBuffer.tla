----------------------------- MODULE MCReadBuffer -----------------------------
(* Bytes and numbers for model-checking ReadBuffer. *)
EXTENDS ReadBuffer

\* Groups of all ones, last bytes on both sides of the limit, and zero.
SomeBytes == {0, 3, 4, 7, 8, 15}

\* One byte more than a varint can have: what comes behind it.
SomePrefixes == [1 .. Groups + 2 -> SomeBytes]

AllNumbers == -2 .. Values \div 2 - 1
==============================================================================
