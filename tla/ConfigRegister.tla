--------------------------- MODULE ConfigRegister ---------------------------
(***************************************************************************)
(* What configuration dissemination promises: the controller publishes     *)
(* configurations one after the other, every host holds one of them as it  *)
(* was published, and a host only moves on to a later one, unless it       *)
(* restarts and is back at the configuration it was compiled with.  The    *)
(* promise ends when `void` is set.                                        *)
(***************************************************************************)
EXTENDS Naturals

CONSTANTS
  Host,
  Last,     \* number of configurations the controller ever publishes
  Value     \* [0..Last -> configurations]; Value[0] is the compiled-in one

VARIABLES
  latest,   \* configurations published so far
  held,     \* per host: the configuration it runs
  void      \* nothing is promised any more

Init ==
  /\ latest = 0
  /\ held = [h \in Host |-> Value[0]]
  /\ void = FALSE

Publish ==
  /\ latest < Last
  /\ latest' = latest + 1
  /\ UNCHANGED held

Adopt(h) ==
  \E u \in 0..latest : \E v \in (u + 1)..latest :
    /\ held[h] = Value[u]
    /\ held' = [held EXCEPT ![h] = Value[v]]
    /\ UNCHANGED latest

Restart(h) ==
  /\ held' = [held EXCEPT ![h] = Value[0]]
  /\ UNCHANGED latest

Next ==
  \/ void'
  \/ /\ UNCHANGED void
     /\ Publish \/ \E h \in Host : Adopt(h) \/ Restart(h)

Spec == Init /\ [][Next]_<<latest, held, void>>
=============================================================================
