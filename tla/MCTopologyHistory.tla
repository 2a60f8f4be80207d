-------------------------- MODULE MCTopologyHistory --------------------------
(***************************************************************************)
(* Instance of TopologyHistory for TLC.                                    *)
(***************************************************************************)
EXTENDS TopologyHistory

CONSTANTS sink, n1, n2, n3

\* A chain, in which the two far nodes can take each other for their parents, and the
\* third one for its parent leads into that cycle.
Lasso == {<<n1, n2>>, <<n2, n3>>, <<n3, n2>>, <<n2, sink>>, <<n3, sink>>}
=============================================================================
