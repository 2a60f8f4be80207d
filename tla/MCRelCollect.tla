---------------------------- MODULE MCRelCollect ----------------------------
(***************************************************************************)
(* Instances of RelCollect for TLC.                                        *)
(***************************************************************************)
EXTENDS RelCollect

CONSTANTS n1, n2, n3

\* Packets of three nodes: one asks for a retransmission, and n1, which is also a
\* candidate parent, forwards a packet of n2 (a routing cycle).
SomePackets ==
  {[origin |-> n2, seq |-> 0, from |-> n1, max |-> 1],
   [origin |-> n1, seq |-> 0, from |-> n1, max |-> 0],
   [origin |-> n3, seq |-> 0, from |-> n2, max |-> 0]}

OnePacket == {[origin |-> n2, seq |-> 0, from |-> n2, max |-> 0]}
=============================================================================
