----------------------------- MODULE PacketStream -----------------------------
(***************************************************************************)
(* What one client may expect of the server's receive path: the packets it *)
(* writes reach their handlers one at a time, each exactly once, in the    *)
(* order they were written.  Framing implements this up to the first of    *)
(* its hazards.                                                            *)
(***************************************************************************)
EXTENDS Integers, Sequences

CONSTANT Packets  \* 1 .. n, in the order the client writes them

VARIABLES
  written,  \* the packets that have arrived completely
  handled   \* the packets given to a handler, in order

streamVars == <<written, handled>>

StreamTypeOK ==
  /\ written \subseteq Packets
  /\ handled \in Seq(Packets)

StreamInit ==
  /\ written = {}
  /\ handled = << >>

\* Any number of packets may arrive together.
Write ==
  /\ written' \in SUBSET Packets
  /\ written \subseteq written'
  /\ UNCHANGED handled

Deliver ==
  /\ Len(handled) + 1 \in written
  /\ handled' = Append(handled, Len(handled) + 1)
  /\ UNCHANGED written

StreamNext == Write \/ Deliver

StreamSpec == StreamInit /\ [][StreamNext]_streamVars
==============================================================================
