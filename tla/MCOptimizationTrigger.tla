----------------------- MODULE MCOptimizationTrigger ------------------------
(***************************************************************************)
(* Instances of OptimizationTrigger for TLC.                               *)
(***************************************************************************)
EXTENDS OptimizationTrigger

OnlyPerformance == {"performance"}
=============================================================================
