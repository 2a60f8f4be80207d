---------------------------- MODULE MCGlossyFlood ----------------------------
(***************************************************************************)
(* Instance of GlossyFlood for TLC.                                        *)
(***************************************************************************)
EXTENDS GlossyFlood

CONSTANTS i, a, b, c

\* Two hosts in range of the initiator, and one more behind them.
Diamond == {<<i, a>>, <<i, b>>, <<a, c>>, <<b, c>>}
=============================================================================
