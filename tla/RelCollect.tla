----------------------------- MODULE RelCollect -----------------------------
(***************************************************************************)
(* The collection layer of one sensor node that is not the sink:           *)
(* relcollect.c with the layers it calls, relunicast.c (stop-and-wait with *)
(* retransmissions), packetqueue.c (forwarding queue), queuebuf.c (shared  *)
(* buffer pool) and polite-announcement.c / ipolite.c (pending             *)
(* advertisement, which takes a buffer of the same pool).                  *)
(*                                                                         *)
(* Contiki runs every handler to completion, so a handler is one action.   *)
(* Inside it the code calls helpers that change the connection one after   *)
(* another; each helper is an operator from the node's state to the state  *)
(* it leaves, and the action composes them in the order of the calls.      *)
(*                                                                         *)
(* The neighbour table (neighbor.c) is abstracted to "best", what          *)
(* neighbor_best() would return; its path cost is rtmetric + etx of that   *)
(* entry.  neighbor_best() holds on to the entry it returned last whatever *)
(* that costs, even if the entry has been freed in the meantime: then its  *)
(* address is null and its cost at least RTMETRIC_MAX.  The radio is the   *)
(* environment: a transmission is acknowledged or not.                     *)
(***************************************************************************)
EXTENDS Naturals, Sequences

CONSTANTS
  Me,          \* address of this node
  Null,        \* rimeaddr_null, the address in cleared packet attributes
  Neighbor,    \* addresses of the nodes in radio range
  Origin,      \* addresses of the other nodes whose packets may come this way
  Cost,        \* path costs, of any entry of the table
  RTMETRIC_MAX,\* metric of a node without a route
  Foreign,     \* packets that other nodes may send to this one
  MaxRexmit,   \* retransmissions asked for by this node's application
  SeqMod,      \* own packets are numbered modulo SeqMod
  NumRecent,   \* NUM_RECENT_PACKETS
  MaxQueue,    \* MAX_FORWARDING_QUEUE
  Pool         \* QUEUEBUF_NUM

ASSUME CostAssumption ==
  /\ Cost \subseteq Nat
  /\ RTMETRIC_MAX \in Nat \ {0}
ASSUME BoundAssumption ==
  /\ MaxRexmit \in Nat
  /\ SeqMod \in Nat \ {0}
  /\ NumRecent \in Nat \ {0}
  /\ MaxQueue \in Nat \ {0}
  /\ Pool \in Nat \ {0}

\* What the layer reads of a packet: originator and EPACKET_ID, the node it
\* came from, and MAX_REXMIT, which the originator chose.
Packet == [origin : Origin \cup {Me, Null}, seq : 0 .. SeqMod - 1,
           from : Neighbor \cup {Null}, max : Nat]

ASSUME ForeignAssumption ==
  /\ Me \notin Neighbor
  /\ Null \notin Neighbor \cup {Me}
  /\ Me \notin Origin
  /\ \A p \in Foreign : /\ p \in Packet
                        /\ p.origin \in Origin
                        /\ p.from \in Neighbor

\* An announcement in the packet buffer: all attributes cleared.
Announcement == [origin |-> Null, seq |-> 0, from |-> Null, max |-> 0]

OwnPacket(seq) == [origin |-> Me, seq |-> seq, from |-> Null, max |-> MaxRexmit]

\* "no packet", for the pointer c->buf and for a packet buffer not in use.
None == [origin |-> Me, seq |-> 0, from |-> Me, max |-> 0]
\* neighbor_best() returned NULL; Me is no entry's address.
NoRoute == [addr |-> Me, cost |-> RTMETRIC_MAX]
Freed   == [addr : {Null}, cost : {x \in Cost : x >= RTMETRIC_MAX}]
Routes  == [addr : Neighbor, cost : Cost] \cup Freed
Usable  == {r \in Routes \ Freed : r.cost < RTMETRIC_MAX}

SINK_METRIC == 0

\* What is best once neighbour b, which was, has been removed from the table.
SecondBest(b) ==
  IF b = NoRoute THEN {NoRoute}
  ELSE {r \in Routes \cup {NoRoute} : r.addr # b.addr}

Id(p) == [origin |-> p.origin, seq |-> p.seq]

VARIABLES
  c,         \* the connection and the node's packet memory, see TypeOK
  recent,    \* recent_packets, the ring of packets already accepted
  ptr,       \* recent_packet_ptr
  accepted,  \* history: identities of the last NumRecent accepted packets
  tries,     \* history: transmissions of the packet handed to relunicast
  resent,    \* history: a handler once sent the packet it went on to remove
  out        \* history: how the last step took a packet off the queue

vars == <<c, recent, ptr, accepted, tries, resent, out>>

Init ==
  /\ c = [queue |-> <<>>, forwarding |-> 0, rtmetric |-> RTMETRIC_MAX,
          is_tx |-> 0, rxmit |-> 0, buf |-> None, adv |-> 1,
          queuebuf_len |-> 1, seqno |-> 1 % SeqMod, best |-> NoRoute,
          packetbuf |-> None]
  /\ recent = [i \in 0 .. NumRecent - 1 |-> Id(Announcement)]
  /\ ptr = 0
  /\ accepted = [i \in 1 .. NumRecent |-> Id(Announcement)]
  /\ tries = 0
  /\ resent = FALSE
  /\ out = "none"

-----------------------------------------------------------------------------
(***************************************************************************)
(* Helpers, each from a state of the node to the state it leaves.          *)
(***************************************************************************)

\* Fault: only the number of queue items is checked.
HasRoom_IgnoresPool(s) == Len(s.queue) < MaxQueue

\* packetqueue_enqueue_packetbuf has room: a queue item and a queuebuf.
HasRoom(s) == Len(s.queue) < MaxQueue /\ s.queuebuf_len < Pool

Enqueue(s) == [s EXCEPT !.queue = Append(@, s.packetbuf),
                        !.queuebuf_len = @ + 1]

Dequeue(s) ==
  IF s.queue = <<>> THEN s
  ELSE [s EXCEPT !.queue = Tail(@), !.queuebuf_len = @ - 1]

\* Fault: the buffer of the previous packet is not freed.
RelunicastSend_Leak(s) ==
  IF s.is_tx = 1 THEN s
  ELSE IF s.queuebuf_len = Pool THEN [s EXCEPT !.buf = None]
  ELSE [s EXCEPT !.buf = s.packetbuf, !.queuebuf_len = @ + 1,
                 !.rxmit = 0, !.is_tx = 1]

\* relunicast_send: frees the previous packet's buffer and copies the packet
\* buffer into a new one; without a free buffer nothing is scheduled.
RelunicastSend(s) ==
  LET freed == IF s.buf = None THEN s.queuebuf_len ELSE s.queuebuf_len - 1
  IN  IF s.is_tx = 1 THEN s
      ELSE IF freed >= Pool THEN [s EXCEPT !.buf = None, !.queuebuf_len = freed]
      ELSE [s EXCEPT !.buf = s.packetbuf, !.queuebuf_len = freed + 1,
                     !.rxmit = 0, !.is_tx = 1]

\* The best neighbour, once the one the packet came from has been removed
\* from the table to break a cycle; alt is what is best then.  The sender of
\* an own packet is null, and there is no such neighbour to remove.
AvoidCycle(best, p, alt) ==
  IF best.addr = p.from /\ p.from \in Neighbor THEN alt ELSE best

\* rel_send_queued_packet.
SendQueued(s, alt) ==
  IF s.queue = <<>> \/ s.forwarding = 1 THEN s
  ELSE LET p == Head(s.queue)
           t == [s EXCEPT !.packetbuf = p, !.best = AvoidCycle(@, p, alt)]
       IN  IF t.best = NoRoute THEN t
           ELSE RelunicastSend([t EXCEPT !.forwarding = 1])

\* send_adv: the announcement is composed in the packet buffer and copied to
\* a buffer of the pool, which replaces an advertisement still pending.
Announce(s) ==
  LET freed == s.queuebuf_len - s.adv
      got == IF freed < Pool THEN 1 ELSE 0
  IN  [s EXCEPT !.packetbuf = Announcement, !.adv = got,
                !.queuebuf_len = freed + got]

\* Fault: a route found again does not restart the queue.
UpdateMetric_NoResend(s, alt) ==
  IF s.rtmetric = SINK_METRIC \/ (s.best # NoRoute /\ s.best.cost = s.rtmetric) THEN s
  ELSE Announce([s EXCEPT !.rtmetric = s.best.cost])

\* Fault: a metric that has not changed is announced again.
UpdateMetric_AlwaysAnnounces(s, alt) ==
  LET t == Announce([s EXCEPT !.rtmetric = s.best.cost])
  IN  IF s.rtmetric = SINK_METRIC THEN s
      ELSE IF s.best # NoRoute /\ s.rtmetric = RTMETRIC_MAX /\ s.best.cost # s.rtmetric
           THEN SendQueued(t, alt)
      ELSE t

\* rel_update_rtmetric.  Without a best neighbour the metric is RTMETRIC_MAX.
UpdateMetric(s, alt) ==
  LET t == Announce([s EXCEPT !.rtmetric = s.best.cost])
  IN  IF s.rtmetric = SINK_METRIC \/ (s.best # NoRoute /\ s.best.cost = s.rtmetric) THEN s
      ELSE IF s.best # NoRoute /\ s.rtmetric = RTMETRIC_MAX THEN SendQueued(t, alt)
      ELSE t

\* No handler reads what an earlier one left in the packet buffer.
Settle(s) == [s EXCEPT !.packetbuf = None]

-----------------------------------------------------------------------------
(***************************************************************************)
(* The application sends a packet: relcollect_send.  A node that takes     *)
(* itself for the sink delivers it to its own application.                 *)
(***************************************************************************)
SendOwn(alt) ==
  LET s == [c EXCEPT !.packetbuf = OwnPacket(c.seqno),
                     !.seqno = (@ + 1) % SeqMod]
  IN  /\ c' = IF s.rtmetric = SINK_METRIC \/ ~HasRoom(s) THEN Settle(s)
              ELSE IF s.best = NoRoute THEN Settle(Enqueue(s))
              ELSE Settle(SendQueued(Enqueue(s), alt))
      /\ tries' = IF c'.is_tx = c.is_tx THEN tries ELSE 0
      /\ out' = "none"
      /\ UNCHANGED <<recent, ptr, accepted, resent>>

(***************************************************************************)
(* A packet arrives from another node: rel_node_packet_received.  higher   *)
(* says that its RTMETRIC exceeds this node's.                             *)
(***************************************************************************)
IsDuplicate(p) == \E i \in DOMAIN recent : recent[i] = Id(p)

\* Fault: the ring's write position is not advanced.
Remember_Stuck(p) ==
  /\ recent' = [recent EXCEPT ![ptr] = Id(p)]
  /\ ptr' = ptr
  /\ accepted' = Append(Tail(accepted), Id(p))

Remember(p) ==
  /\ recent' = [recent EXCEPT ![ptr] = Id(p)]
  /\ ptr' = (ptr + 1) % NumRecent
  /\ accepted' = Append(Tail(accepted), Id(p))

Receive(p, higher, alt) ==
  LET s == [c EXCEPT !.packetbuf = p]
      t == IF higher THEN s ELSE UpdateMetric(s, alt)
  IN  /\ ~IsDuplicate(p)
      /\ Remember(p)
      /\ c' = IF t.rtmetric \notin {SINK_METRIC, RTMETRIC_MAX} /\ HasRoom(t)
             THEN Settle(SendQueued(Enqueue(t), alt))
             ELSE Settle(t)
      /\ tries' = IF c'.is_tx = c.is_tx THEN tries ELSE 0
      /\ out' = "none"
      /\ UNCHANGED resent

ReceiveDuplicate(p) ==
  /\ IsDuplicate(p)
  /\ out' = "none"
  /\ UNCHANGED <<c, recent, ptr, accepted, tries, resent>>

(***************************************************************************)
(* relunicast's timer fires: send().  The packet is transmitted, or given  *)
(* up after the last retransmission.  b is what is best after the change   *)
(* of the receiver's etx.                                                  *)
(***************************************************************************)

\* Fault: the next packet is sent before the queue's head is removed.
Finish_SendThenDequeue(s, b, alt) ==
  LET t == UpdateMetric([s EXCEPT !.is_tx = 0, !.forwarding = 0, !.best = b], alt)
  IN  Settle(Dequeue(SendQueued(t, alt)))

\* What the callbacks have done when they remove the first packet of the queue.
Updated(s, b, alt) ==
  UpdateMetric([s EXCEPT !.is_tx = 0, !.forwarding = 0, !.best = b], alt)

\* rel_node_packet_sent and rel_node_packet_timedout.
Finish(s, b, alt) == Settle(SendQueued(Dequeue(Updated(s, b, alt)), alt))

\* What may be best after a change of the table.  neighbor_best() falls from an
\* entry to NULL when the entry costs over RTMETRIC_MAX + 2 and no other is usable;
\* from NULL it needs a usable neighbour.
NextBest == (IF c.best = NoRoute THEN Usable ELSE Routes) \cup {NoRoute}

Exhausted == c.rxmit > c.buf.max

TransmitAcked(b, alt) ==
  /\ c.is_tx = 1
  /\ ~Exhausted
  /\ c' = Finish(c, b, alt)
  /\ tries' = 0
  /\ resent' = (resent \/ Updated(c, b, alt).is_tx = 1)
  /\ out' = "acked"
  /\ UNCHANGED <<recent, ptr, accepted>>

TransmitUnacked ==
  /\ c.is_tx = 1
  /\ ~Exhausted
  /\ c' = [c EXCEPT !.rxmit = @ + 1]
  /\ tries' = tries + 1
  /\ out' = "none"
  /\ UNCHANGED <<recent, ptr, accepted, resent>>

TimedOut(b, alt) ==
  LET s == [c EXCEPT !.rxmit = @ - 1]
  IN  /\ c.is_tx = 1
      /\ Exhausted
      /\ c' = Finish(s, b, alt)
      /\ tries' = 0
      /\ resent' = (resent \/ Updated(s, b, alt).is_tx = 1)
      /\ out' = "timedout"
      /\ UNCHANGED <<recent, ptr, accepted>>

(***************************************************************************)
(* Routing events.                                                         *)
(***************************************************************************)

\* received_announcement: the table changes, then the metric follows.
HearAnnouncement(b, alt) ==
  /\ c' = Settle(UpdateMetric([c EXCEPT !.best = b], alt))
  /\ tries' = IF c'.is_tx = c.is_tx THEN tries ELSE 0
  /\ out' = "none"
  /\ UNCHANGED <<recent, ptr, accepted, resent>>

\* periodic() of neighbor.c removes the best neighbour, which has been silent
\* for max_time; the metric is left as it was.
AgeOut(b) ==
  /\ c.best.addr \in Neighbor
  /\ c' = [c EXCEPT !.best = b]
  /\ out' = "none"
  /\ UNCHANGED <<recent, ptr, accepted, tries, resent>>

\* send_timer: the advertisement is repeated.
Advertise ==
  /\ c' = Settle(Announce(c))
  /\ out' = "none"
  /\ UNCHANGED <<recent, ptr, accepted, tries, resent>>

\* The pending advertisement is broadcast, or dropped because a neighbour
\* sent the same one.
AdvertisementLeaves ==
  /\ c.adv = 1
  /\ c' = [c EXCEPT !.adv = 0, !.queuebuf_len = @ - 1]
  /\ out' = "none"
  /\ UNCHANGED <<recent, ptr, accepted, tries, resent>>

-----------------------------------------------------------------------------
\* The second best matters only to a queue with a packet that the best one sent.
Senders == {c.queue[i].from : i \in DOMAIN c.queue}
Second(b, senders) == IF b.addr \in senders THEN SecondBest(b) ELSE {b}

Application == \E alt \in Second(c.best, Senders) : SendOwn(alt)

SendTimer ==
  \/ TransmitUnacked
  \/ \E b \in NextBest : \E alt \in Second(b, Senders) :
       TransmitAcked(b, alt) \/ TimedOut(b, alt)

Reception ==
  \E p \in Foreign :
    \/ ReceiveDuplicate(p)
    \/ \E higher \in BOOLEAN, alt \in Second(c.best, Senders \cup {p.from}) :
         Receive(p, higher, alt)

Routing ==
  \/ \E b \in NextBest : \E alt \in Second(b, Senders) :
       HearAnnouncement(b, alt)
  \/ \E b \in SecondBest(c.best) : AgeOut(b)

Advertising == Advertise \/ AdvertisementLeaves

Next ==
  Application \/ SendTimer \/ Reception \/ Routing \/ Advertising

Spec == Init /\ [][Next]_vars

\* The application sends periodically (etimer), and relunicast's callback
\* timer fires: it is set whenever is_tx is.
FairSpec == Spec /\ WF_vars(Application) /\ WF_vars(SendTimer)

-----------------------------------------------------------------------------
(***************************************************************************)
(* Properties.                                                             *)
(***************************************************************************)
Bit == 0 .. 1
BufferedPacket == Packet \cup {None}

\* Type invariant.  Packets are members of Packet: cleared attributes are
\* those of Announcement, and no buffer in use is taken for a free one.
TypeOK ==
  /\ c.queue \in Seq(Packet) /\ Len(c.queue) <= MaxQueue
  /\ c.forwarding \in Bit /\ c.is_tx \in Bit /\ c.adv \in Bit
  /\ c.rtmetric \in Cost \cup {RTMETRIC_MAX}
  /\ c.buf \in BufferedPacket
  /\ c.rxmit \in Nat
  /\ c.queuebuf_len \in 0 .. Pool
  /\ c.seqno \in 0 .. SeqMod - 1
  /\ c.best \in Routes \cup {NoRoute}
  /\ c.packetbuf = None
  /\ recent \in [0 .. NumRecent - 1 -> [origin : Origin \cup {Me, Null},
                                       seq : 0 .. SeqMod - 1]]
  /\ ptr \in 0 .. NumRecent - 1
  /\ tries \in Nat /\ resent \in BOOLEAN
  /\ out \in {"none", "acked", "timedout"}

\* No buffer of the pool is lost or freed twice, whatever the order of
\* enqueueing, sending and announcing: the allocated buffers are those of the
\* queued packets, of the packet relunicast last took and of the pending
\* advertisement.
NoLeak ==
  c.queuebuf_len =
    Len(c.queue) + (IF c.buf = None THEN 0 ELSE 1) + c.adv

\* Seen from outside the layer is a queue: packets are transmitted and leave in the
\* order in which they were accepted, each when it was acknowledged or after all its
\* transmissions, whatever routes, announcements and full buffers do in between.  The
\* promise ends when the end of a transmission changes the metric from RTMETRIC_MAX
\* and so restarts the packet that is about to be removed (see RemovesWhatWasSent).
Queue == INSTANCE ForwardQueue WITH
  queue <- c.queue, air <- IF c.is_tx = 1 THEN c.buf ELSE None, void <- resent,
  Idle <- None, Size <- MaxQueue

ImplementsQueue == Queue!Spec

\* "Remove the first packet on the queue, the packet that was just sent"
\* (relcollect.c:417): what leaves the queue is what relunicast transmitted.
RemovesWhatWasSent ==
  [][Len(c'.queue) < Len(c.queue) => c.buf = Head(c.queue)]_vars

\* The ring and its write position hold the last NumRecent accepted packets:
\* a packet is accepted again only after NumRecent others.
RingIsRecent ==
  \A i \in 1 .. NumRecent :
    recent[(ptr + i - 1) % NumRecent] = accepted[i]

\* A packet is given up only after max_rxmit + 1 unacknowledged
\* transmissions, counted from the moment relunicast took it: no packet
\* inherits the retransmission count of the one before.
GivesUpOnlyAfterAll ==
  [][out' = "timedout" => tries = c.buf.max + 1]_vars

\* With a route that lasts the queue moves: queued packets are transmitted and
\* leave, although packets that find no buffer restart nothing.  Set aside are
\* executions in which forwarding is stuck (see ForwardingEnds) and those in
\* which the best neighbour vanishes without an update of the metric: then the
\* return of a route of the same cost restarts nothing.
QueueMoves ==
  (/\ <>[](c.best # NoRoute)
   /\ [](c.forwarding = c.is_tx)
   /\ [](c.best = NoRoute => c.rtmetric = RTMETRIC_MAX)) =>
     []<>(c.queue = <<>> \/ out # "none")

\* "If we are currently forwarding a packet, we wait until the packet is
\* forwarded and try again then" (relcollect.c:156): forwarding means that
\* relunicast has a packet whose end will clear it.
ForwardingEnds == c.forwarding = 1 => c.is_tx = 1

\* "If we are not the sink, we forward the packet to the best neighbor"
\* (relcollect.c:375): the packet put on the queue is the one received, as long
\* as the metric does not change with it.  When it does, the announcement of the
\* new metric has been composed in the packet buffer and is queued in its place.
ForwardsWhatItReceives ==
  [][(/\ accepted' # accepted
      /\ Len(c'.queue) > Len(c.queue)
      /\ c'.rtmetric = c.rtmetric) =>
       Id(c'.queue[Len(c'.queue)]) = accepted'[NumRecent]]_vars
=============================================================================
