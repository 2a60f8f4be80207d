---------------------------- MODULE ForwardQueue ----------------------------
(***************************************************************************)
(* What the collection layer promises of the packets it has accepted: they *)
(* leave in the order in which they were accepted, one at a time.  The     *)
(* oldest is transmitted, and it leaves when a transmission of it has been *)
(* acknowledged or when all that its originator asked for have failed.     *)
(* Nothing else removes, replaces or overtakes a packet.  The promise ends *)
(* when `void` is set.                                                     *)
(***************************************************************************)
EXTENDS Naturals, Sequences

CONSTANTS
  Packet,  \* with a field max: the retransmissions asked for
  Idle,    \* no packet
  Size     \* packets that fit

VARIABLES
  queue,   \* accepted packets, the oldest first
  air,     \* the packet in transmission, or Idle
  tries,   \* unacknowledged transmissions of that packet
  out,     \* how the last step took a packet off the queue
  void     \* nothing is promised any more

vars == <<queue, air, tries, out, void>>

Init == queue = <<>> /\ air = Idle /\ tries = 0 /\ out = "none" /\ void = FALSE

\* With nothing in transmission the oldest packet may be taken up.
TakeUp(waiting) ==
  /\ air' = Idle \/ (waiting # <<>> /\ air' = Head(waiting))
  /\ tries' = 0

Accept(p) ==
  /\ p \in Packet /\ Len(queue) < Size
  /\ queue' = Append(queue, p)
  /\ IF air = Idle THEN TakeUp(queue') ELSE UNCHANGED <<air, tries>>
  /\ out' = "none"

Start ==
  /\ air = Idle /\ queue # <<>>
  /\ air' = Head(queue) /\ tries' = 0
  /\ out' = "none"
  /\ UNCHANGED queue

Retry ==
  /\ air # Idle /\ tries <= air.max
  /\ tries' = tries + 1
  /\ out' = "none"
  /\ UNCHANGED <<queue, air>>

Leave(how) ==
  /\ queue # <<>> /\ air = Head(queue)
  /\ IF how = "acked" THEN tries <= air.max ELSE tries = air.max + 1
  /\ queue' = Tail(queue)
  /\ TakeUp(queue')
  /\ out' = how

\* A step of the node that leaves its queue alone.
Other == out' = "none" /\ UNCHANGED <<queue, air, tries>>

Newest(q) == q[Len(q)]

Next ==
  \/ void'
  \/ /\ UNCHANGED void
     /\ \/ queue' # <<>> /\ Accept(Newest(queue'))
        \/ Start \/ Retry \/ Other
        \/ \E how \in {"acked", "timedout"} : Leave(how)

Spec == Init /\ [][Next]_vars
=============================================================================
