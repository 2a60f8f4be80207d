------------------------------- MODULE Routing -------------------------------
(***************************************************************************)
(* How the nodes find their way to the sink: relcollect.c as far as it     *)
(* keeps routes, each node with its neighbour table (NeighborTable), and   *)
(* the announcements that carry a node's rtmetric to the nodes in range.   *)
(*                                                                         *)
(* A pending announcement is replaced when the metric changes              *)
(* (polite-announcement.c), so what a neighbour hears is the metric the    *)
(* sender has.  Announcements are lost at will and repeated for ever.      *)
(* Handlers run to completion and are one action each.  Of the forwarding  *)
(* queue only its head matters here, when it is about to be sent: Head     *)
(* says that the queue is empty, that the head came from the best          *)
(* neighbour (a cycle) or that it came from elsewhere.  The queue itself   *)
(* is modelled in RelCollect.                                              *)
(***************************************************************************)
EXTENDS NeighborTable

CONSTANTS
  Node,        \* addresses of the nodes
  Sink,        \* the one for which relcollect_set_sink was called
  Link,        \* pairs of nodes in radio range
  MaxRexmit,   \* retransmissions before a packet is given up
  MaxChanges   \* bound: how often links change, neighbours age and nodes restart

Idle == "idle"

ASSUME NetworkAssumption ==
  /\ Sink \in Node /\ Null \notin Node /\ Idle \notin Node \cup {Null}
  /\ Link \subseteq Node \X Node
  /\ MaxRexmit \in Nat /\ MaxChanges \in Nat

VARIABLES
  node,     \* of every node but the sink: its table, its metric, and dest,
            \* the node to which relunicast is sending a packet
  changes   \* changes of links, so far

vars == <<node, changes>>

SINK_METRIC == 0
Router == Node \ {Sink}
Near(n) == {m \in Node \ {n} : <<n, m>> \in Link \/ <<m, n>> \in Link}

\* The heads of the queue that matter: none while a packet is on its way.
Head(s) == IF s.dest = Idle THEN {"empty", "best", "other"} ELSE {"empty"}

StateOf(n) ==
  [entry : [Block -> EntryOf(Near(n))], last_best : Block \cup {NULL},
   rtmetric : Nat, dest : Near(n) \cup {Null, Idle}]

\* A node that has just started: relcollect_open.
Fresh == [entry |-> EmptyEntries, last_best |-> NULL,
          rtmetric |-> RTMETRIC_MAX, dest |-> Idle]

Metric(m) == IF m = Sink THEN SINK_METRIC ELSE node[m].rtmetric

Init ==
  /\ node = [n \in Router |-> Fresh]
  /\ changes = 0

-----------------------------------------------------------------------------
(***************************************************************************)
(* What the handlers call: from a node's record to the ones it may leave.  *)
(***************************************************************************)

\* Handing the packet to relunicast for the best neighbour, if there is one.
Transmit(s) ==
  IF s.last_best = NULL THEN s
  ELSE [s EXCEPT !.dest = s.entry[s.last_best].addr]

\* The best neighbour, if it is a router and not a freed entry.
BestRouter(s) == s.last_best \in Listed(s) /\ s.entry[s.last_best].addr # Sink

\* Fault: the packet goes to the neighbour that has just been removed.
AvoidCycle_SameNeighbor(s) ==
  IF BestRouter(s) THEN {Remove(s, s.last_best)} ELSE {s}

\* The best neighbour is the one the packet came from: it is removed and the next
\* best is looked for.
AvoidCycle(s) == IF BestRouter(s) THEN Best(Remove(s, s.last_best)) ELSE {s}

\* rel_send_queued_packet.
SendQueued(s, head) ==
  IF head = "empty" \/ s.dest # Idle THEN {s}
  ELSE UNION {IF head = "best" THEN {Transmit(v) : v \in AvoidCycle(u)}
              ELSE {Transmit(u)} : u \in Best(s)}

\* Fault: the way to the best neighbour is not added to its metric.
UpdateMetric_ForgetsEtx(s, head) ==
  IF s.rtmetric = SINK_METRIC THEN {s}
  ELSE {[u EXCEPT !.rtmetric = IF u.last_best = NULL THEN RTMETRIC_MAX
                               ELSE u.entry[u.last_best].rtmetric] : u \in Best(s)}

\* rel_update_rtmetric.
UpdateMetric(s, head) ==
  LET Followed(u) ==
        IF u.last_best = NULL THEN {[u EXCEPT !.rtmetric = RTMETRIC_MAX]}
        ELSE LET v == [u EXCEPT !.rtmetric = Cost(u, u.last_best)]
             IN  IF s.rtmetric = RTMETRIC_MAX /\ v.rtmetric # s.rtmetric
                 THEN SendQueued(v, head) ELSE {v}
  IN  IF s.rtmetric = SINK_METRIC THEN {s}
      ELSE UNION {Followed(u) : u \in Best(s)}

\* rel_node_packet_sent and rel_node_packet_timedout, after the change of the etx.
\* (Only the first SendQueued has an effect, if there are two.)
Finish(s, head) ==
  UNION {SendQueued(u, head) : u \in UpdateMetric([s EXCEPT !.dest = Idle], head)}

-----------------------------------------------------------------------------
(***************************************************************************)
(* The handlers.  Bound: MaxChanges.  A step in which links get worse or   *)
(* better, a neighbour is removed or a node restarts counts as a change.   *)
(***************************************************************************)
Becomes(n, S) == \E s \in S : node' = [node EXCEPT ![n] = s]

Count(isChange) ==
  IF isChange THEN changes < MaxChanges /\ changes' = changes + 1
  ELSE UNCHANGED changes

\* received_announcement at n: m is a new neighbour or its metric is updated.
Hear(n, m) ==
  LET s == node[n]
      heard == IF Find(s, m) = NULL THEN Add(s, m, Metric(m), 1)
               ELSE {Update(s, Find(s, m), Metric(m))}
  IN  \E head \in Head(s) :
        /\ Becomes(n, UNION {UpdateMetric(t, head) : t \in heard})
        /\ Count(head = "best")

\* relcollect_send at a router.
Send(n) ==
  \E head \in Head(node[n]) :
    /\ Becomes(n, UNION {IF u.last_best = NULL THEN {u} ELSE SendQueued(u, head)
                           : u \in Best(node[n])})
    /\ Count(head = "best")

\* rel_node_packet_received for a packet m is sending to n.  With higher the packet
\* shows a metric above that of n.
Receive(n, m) ==
  /\ node[m].dest = n
  /\ \E higher \in BOOLEAN, head \in Head(node[n]) :
       /\ Becomes(n, UNION {IF u.rtmetric \in {SINK_METRIC, RTMETRIC_MAX} THEN {u}
                            ELSE SendQueued(u, head) :
                              u \in IF higher THEN {node[n]}
                                    ELSE UpdateMetric(node[n], head)})
       /\ Count(head = "best")

\* The packet is acknowledged at the k-th transmission, or given up.
Sent(n, k) ==
  /\ node[n].dest \in Near(n)
  /\ LET s == UpdateEtx(node[n], node[n].dest, k)
     IN  \E head \in {"empty", "best", "other"} :
           /\ Becomes(n, Finish(s, head))
           /\ Count(s.entry # node[n].entry \/ head = "best")

TimedOut(n) ==
  /\ node[n].dest # Idle
  /\ LET s == TimedOutEtx(node[n], node[n].dest, MaxRexmit + 1)
     IN  \E head \in {"empty", "best", "other"} :
           /\ Becomes(n, Finish(s, head))
           /\ Count(s.entry # node[n].entry \/ head = "best")

\* periodic(): a neighbour has been silent for max_time seconds.
Age(n) ==
  /\ \E b \in Listed(node[n]) : Becomes(n, {Remove(node[n], b)})
  /\ Count(TRUE)

Reboot(n) ==
  /\ node[n] # Fresh
  /\ Becomes(n, {Fresh})
  /\ Count(TRUE)

-----------------------------------------------------------------------------
Step(n) ==
  \/ \E m \in Near(n) : Hear(n, m)
  \/ Send(n)
  \/ \E m \in Near(n) \ {Sink} : Receive(n, m)
  \/ \E k \in 1 .. MaxRexmit + 1 : Sent(n, k)
  \/ TimedOut(n) \/ Age(n) \/ Reboot(n)

Next == \E n \in Router : Step(n)

Spec == Init /\ [][Next]_vars

\* Announcements are repeated for ever (send_timer), and the radio does not lose all
\* those of a neighbour.
FairSpec ==
  /\ Spec
  /\ \A n \in Router : \A m \in Near(n) : SF_vars(Hear(n, m))

-----------------------------------------------------------------------------
(***************************************************************************)
(* Properties.                                                             *)
(***************************************************************************)

\* Types of the variables; what is stored of a metric and of an ETX is a byte.
TypeOK ==
  /\ DOMAIN node = Router
  /\ \A n \in Router : node[n] \in StateOf(n)
  /\ changes \in 0 .. MaxChanges

\* Whatever is added, recycled, removed and aged, a neighbour has one entry: the ETX
\* learned from packets and the metric it announces meet in the same place.
OneEntryEach ==
  \A n \in Router : \A b, x \in Listed(node[n]) :
    node[n].entry[b].addr = node[n].entry[x].addr => b = x

\* Between handlers the neighbour kept by the hysteresis of neighbor_best() costs at
\* most 2 more than the cheapest one, although costs change in many handlers.  (A
\* node whose metric has wrapped to that of the sink updates it no more.)
NearlyBest ==
  \A n \in Router :
    node[n].last_best \in Listed(node[n]) /\ node[n].rtmetric # SINK_METRIC =>
      Cost(node[n], node[n].last_best) <= Lowest(node[n]) + 2

\* A packet is handed to relunicast for a neighbour that costs at most 2 more than
\* the cheapest, also when the best one has just been removed to break a cycle.  In
\* particular the freed entry that last_best may still point to is used (the packet
\* goes to rimeaddr_null) only when no neighbour has a usable route.
SendsToNearlyBest ==
  [][\A n \in Router :
       node'[n].dest \notin {Idle, node[n].dest} =>
         LET s == node'[n]
         IN  /\ s.dest = s.entry[s.last_best].addr
             /\ Cost(s, s.last_best) <= Lowest(s) + 2]_vars

Parent(n) == IF node[n].last_best = NULL THEN Null
             ELSE node[n].entry[node[n].last_best].addr

\* As long as no link has changed, metrics fall from child to parent, so there is no
\* routing loop: announcements may be lost and heard in any order.
LoopFree ==
  changes = 0 =>
    \A n \in Router : Parent(n) \in Router => node[n].rtmetric > Metric(Parent(n))

\* Then a route is one: who is a parent has a parent, or is the sink, and no set of
\* routers keeps to itself.
Routed == {n \in Router : Parent(n) # Null}

LeadsToSink ==
  changes = 0 =>
    /\ \A n \in Routed : Parent(n) \in Routed \cup {Sink}
    /\ \A S \in (SUBSET Routed) \ {{}} : \E n \in S : Parent(n) \in Node \ S

\* The parents lead every node to the sink: no set of routers keeps to itself.
Tree ==
  \A S \in (SUBSET Router) \ {{}} : \E n \in S : Parent(n) \in Node \ S

\* Once links change no more, the parents form a tree again, although loops, nodes
\* that restarted and metrics cut to a byte may have been in between.  Every node has
\* room for all its neighbours here.
Converges == <>[]Tree

\* "If we have don't have any neighbors, we set our rtmetric to the maximum value to
\* indicate that we do not have a route" (relcollect.c:269): a node that has no route
\* is not taken for the sink by its neighbours.
OnlySinkLooksLikeSink ==
  \A n \in Router : \A b \in Listed(node[n]) :
    node[n].entry[b].rtmetric = SINK_METRIC => node[n].entry[b].addr = Sink
=============================================================================
