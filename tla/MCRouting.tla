------------------------------ MODULE MCRouting ------------------------------
(***************************************************************************)
(* Instances of Routing for TLC.                                           *)
(***************************************************************************)
EXTENDS Routing

CONSTANTS sink, a1, a2

\* Every node reaches every other one.
Triangle == {<<sink, a1>>, <<sink, a2>>, <<a1, a2>>}

\* a2 reaches the sink only through a1.
Line == {<<sink, a1>>, <<a1, a2>>}
=============================================================================
