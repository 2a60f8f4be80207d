------------------------------ MODULE Broadcast ------------------------------
(***************************************************************************)
(* What a flood promises: the data of one source spreads from host to host *)
(* in radio range, at most one hop per slot; a host's application gets it  *)
(* only once the host has been reached, and keeps it until the next flood. *)
(***************************************************************************)
EXTENDS Naturals

CONSTANTS Host, Source, Link

VARIABLES
  slot,
  reached,   \* hosts that have received the packet, and the source
  copied     \* hosts whose application has the data of this flood

vars == <<slot, reached, copied>>

Init == slot = 0 /\ reached = {Source} /\ copied = {Source}

InRange(S) ==
  {h \in Host : \E g \in S : g # h /\ (<<g, h>> \in Link \/ <<h, g>> \in Link)}

Spread ==
  /\ reached \subseteq reached' /\ reached' \subseteq reached \cup InRange(reached)
  /\ slot' = slot + 1
  /\ UNCHANGED copied

Copy ==
  /\ copied \subseteq copied' /\ copied' \subseteq copied \cup reached
  /\ UNCHANGED <<slot, reached>>

\* The next flood, in which everybody else's data is outdated.
Again == slot' = 0 /\ reached' = {Source} /\ copied' = {Source}

Next == Spread \/ Copy \/ Again

Spec == Init /\ [][Next]_vars
=============================================================================
