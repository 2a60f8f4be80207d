-------------------------- MODULE RelCollect_proofs --------------------------
(***************************************************************************)
(* Proofs about RelCollect.  The handlers are compositions of helpers from *)
(* a state of the node to the next, so the invariant is stated of such a   *)
(* state, and for each helper a lemma says what it keeps of it.            *)
(***************************************************************************)
EXTENDS RelCollect, SequenceTheorems, TLAPS

USE CostAssumption, BoundAssumption DEF CostAssumption, BoundAssumption

-----------------------------------------------------------------------------
\* The shape of the record c, in a handler or between two.
State == [queue : Seq(Packet), forwarding : Bit, rtmetric : Cost \cup {RTMETRIC_MAX},
          is_tx : Bit, rxmit : Nat, buf : BufferedPacket, adv : Bit,
          queuebuf_len : Nat, seqno : 0 .. SeqMod - 1,
          best : Routes \cup {NoRoute}, packetbuf : BufferedPacket]

Used(buf) == IF buf = None THEN 0 ELSE 1

Accounted(s) ==
  /\ s.queuebuf_len = Len(s.queue) + Used(s.buf) + s.adv
  /\ s.queuebuf_len <= Pool
  /\ Len(s.queue) <= MaxQueue

\* What relunicast transmits is a packet, and the layer waits for its end.
Busy(s) == s.is_tx = 1 => s.forwarding = 1 /\ s.buf \in Packet

\* It is the packet that leaves the queue next.
HeadSent(s) == s.is_tx = 1 => s.queue # <<>> /\ s.buf = Head(s.queue)

\* What holds of a state in the middle of a handler.
Sound(s) == s \in State /\ Accounted(s) /\ Busy(s)

\* A helper leaves a transmission in progress alone, and one that it starts
\* counts from zero and is of the packet at the head.
KeepsTransmission(s, t) ==
  /\ s.is_tx = 1 => t.is_tx = 1 /\ t.rxmit = s.rxmit /\ t.buf = s.buf
  /\ s.is_tx = 0 /\ t.is_tx = 1 => t.rxmit = 0
  /\ HeadSent(s) => HeadSent(t)

Counted ==
  c.is_tx = 1 => /\ tries = c.rxmit
                 /\ c.buf \in Packet
                 /\ c.rxmit <= c.buf.max + 1

-----------------------------------------------------------------------------
(***************************************************************************)
(* The values the handlers put in packet buffers and routes.               *)
(***************************************************************************)

\* Cleared attributes and own packets are packets, and none of them is taken
\* for a free buffer.
LEMMA PacketValues ==
  /\ Announcement \in Packet
  /\ None \notin Packet
  /\ \A i \in 0 .. SeqMod - 1 : OwnPacket(i) \in Packet
  BY ForeignAssumption DEF Announcement, None, OwnPacket, Packet

\* The cost of whatever neighbor_best() returns is a metric.
LEMMA RouteValues ==
  ASSUME NEW r \in Routes \cup {NoRoute}
  PROVE  r.cost \in Cost \cup {RTMETRIC_MAX}
  BY DEF Routes, NoRoute, Freed

\* What becomes best is what neighbor_best() may return.
LEMMA BestValues ==
  /\ \A b \in NextBest : b \in Routes \cup {NoRoute}
  /\ \A b \in Routes \cup {NoRoute} :
       /\ \A alt \in SecondBest(b) : alt \in Routes \cup {NoRoute}
       /\ \A S : \A alt \in Second(b, S) : alt \in Routes \cup {NoRoute}
  BY DEF NextBest, Usable, Second, SecondBest

\* Sequence facts for the forwarding queue.
LEMMA AppendValues ==
  ASSUME NEW S, NEW q \in Seq(S), NEW p \in S
  PROVE  /\ Append(q, p) \in Seq(S)
         /\ Len(Append(q, p)) = Len(q) + 1
         /\ Append(q, p) # <<>>
         /\ q # <<>> => Head(Append(q, p)) = Head(q)
  BY AppendProperties

LEMMA TailValues ==
  ASSUME NEW S, NEW q \in Seq(S), q # <<>>
  PROVE  /\ Head(q) \in S
         /\ Tail(q) \in Seq(S)
         /\ Len(Tail(q)) = Len(q) - 1
         /\ Len(q) \in Nat \ {0}
  BY HeadTailProperties, EmptySeq

-----------------------------------------------------------------------------
(***************************************************************************)
(* The helpers.                                                            *)
(***************************************************************************)

\* packetqueue_enqueue_packetbuf, when there is room.
LEMMA EnqueueKeeps ==
  ASSUME NEW s, Sound(s), HasRoom(s), s.packetbuf \in Packet
  PROVE  /\ Sound(Enqueue(s))
         /\ KeepsTransmission(s, Enqueue(s))
  <1>1. /\ s \in State
        /\ s.queue \in Seq(Packet)
        /\ Append(s.queue, s.packetbuf) \in Seq(Packet)
        /\ s.queuebuf_len \in Nat /\ s.queuebuf_len + 1 \in Nat
    BY AppendValues DEF Sound, State
  <1>2. /\ Enqueue(s) \in State
        /\ Enqueue(s).queue = Append(s.queue, s.packetbuf)
        /\ Enqueue(s).queuebuf_len = s.queuebuf_len + 1
        /\ Enqueue(s).buf = s.buf /\ Enqueue(s).adv = s.adv
        /\ Enqueue(s).is_tx = s.is_tx /\ Enqueue(s).rxmit = s.rxmit
        /\ Enqueue(s).forwarding = s.forwarding
        /\ Enqueue(s).best = s.best /\ Enqueue(s).rtmetric = s.rtmetric
    BY <1>1 DEF Enqueue, State
  <1>3. Accounted(Enqueue(s))
    <2>1. Len(Append(s.queue, s.packetbuf)) = Len(s.queue) + 1
      BY <1>1, AppendValues
    <2>2. Len(s.queue) \in Nat /\ Used(s.buf) \in Nat /\ s.adv \in Nat
      BY <1>1, LenProperties DEF State, Used, Bit
    <2>3. /\ s.queuebuf_len = Len(s.queue) + Used(s.buf) + s.adv
          /\ s.queuebuf_len < Pool /\ Len(s.queue) < MaxQueue
      BY DEF Sound, Accounted, HasRoom
    <2> DEFINE l == Len(s.queue)
    <2>4. l + 1 <= MaxQueue /\ s.queuebuf_len + 1 <= Pool
      BY <1>1, <2>2, <2>3
    <2>5. s.queuebuf_len + 1 = (l + 1) + Used(s.buf) + s.adv
      BY <2>2, <2>3
    <2> HIDE DEF l
    <2>6. Len(Enqueue(s).queue) = l + 1
      BY <1>2, <2>1 DEF l
    <2> QED
      BY <1>2, <2>4, <2>5, <2>6 DEF Accounted
  <1>4. HeadSent(s) => HeadSent(Enqueue(s))
    BY <1>1, <1>2, AppendValues DEF HeadSent
  <1>5. Busy(Enqueue(s))
    BY <1>2 DEF Sound, Busy
  <1> QED
    BY <1>1, <1>2, <1>3, <1>4, <1>5 DEF Sound, KeepsTransmission, State, Bit

\* packetqueue_dequeue, whatever relunicast transmits.
LEMMA DequeueKeeps ==
  ASSUME NEW s, Sound(s)
  PROVE  /\ Sound(Dequeue(s))
         /\ Dequeue(s).is_tx = s.is_tx /\ Dequeue(s).rxmit = s.rxmit
         /\ Dequeue(s).forwarding = s.forwarding
  <1>1. CASE s.queue = <<>>
    BY <1>1 DEF Dequeue
  <1>2. CASE s.queue # <<>>
    <2>0. /\ s \in State
          /\ s.queue \in Seq(Packet)
          /\ Tail(s.queue) \in Seq(Packet)
          /\ Len(s.queue) \in Nat \ {0}
          /\ Len(Tail(s.queue)) = Len(s.queue) - 1
          /\ Used(s.buf) \in Nat /\ s.adv \in Nat
      BY <1>2, TailValues DEF Sound, State, Used, Bit
    <2>1. s.queuebuf_len - 1 \in Nat
      BY <2>0 DEF Sound, State, Accounted
    <2>2. /\ Dequeue(s) \in State
          /\ Dequeue(s).queue = Tail(s.queue)
          /\ Dequeue(s).queuebuf_len = s.queuebuf_len - 1
          /\ Dequeue(s).buf = s.buf /\ Dequeue(s).adv = s.adv
          /\ Dequeue(s).is_tx = s.is_tx /\ Dequeue(s).rxmit = s.rxmit
          /\ Dequeue(s).forwarding = s.forwarding
      BY <1>2, <2>0, <2>1 DEF Dequeue, State
    <2>3. Accounted(Dequeue(s))
      BY <2>0, <2>2 DEF Sound, Accounted
    <2> QED
      BY <2>2, <2>3 DEF Sound, Busy
  <1> QED
    BY <1>1, <1>2

\* relunicast_send of the packet at the head of the queue, when idle.
LEMMA RelunicastSendKeeps ==
  ASSUME NEW s, s \in State, Accounted(s), s.is_tx = 0, s.forwarding = 1,
         s.queue # <<>>, s.packetbuf = Head(s.queue)
  PROVE  /\ Sound(RelunicastSend(s))
         /\ KeepsTransmission(s, RelunicastSend(s))
         /\ RelunicastSend(s).packetbuf \in Packet
  <1> DEFINE freed == s.queuebuf_len - Used(s.buf)
             r == RelunicastSend(s)
  <1>1. /\ s.queue \in Seq(Packet) /\ s.packetbuf \in Packet
        /\ s.packetbuf # None /\ s.packetbuf \in BufferedPacket
        /\ None \in BufferedPacket
        /\ s.queuebuf_len \in Nat /\ Len(s.queue) \in Nat /\ s.adv \in Nat
    BY TailValues, PacketValues DEF State, Bit, BufferedPacket
  <1>2. /\ freed \in Nat /\ freed = Len(s.queue) + s.adv /\ freed <= Pool
    <2>1. Used(s.buf) \in Nat
      BY DEF Used
    <2>2. s.queuebuf_len = Len(s.queue) + Used(s.buf) + s.adv
      BY DEF Accounted
    <2>3. s.queuebuf_len <= Pool
      BY DEF Accounted
    <2> QED
      BY <1>1, <2>1, <2>2, <2>3
  <1>3. RelunicastSend(s) =
          IF freed >= Pool THEN [s EXCEPT !.buf = None, !.queuebuf_len = freed]
          ELSE [s EXCEPT !.buf = s.packetbuf, !.queuebuf_len = freed + 1,
                         !.rxmit = 0, !.is_tx = 1]
    <2>1. freed = IF s.buf = None THEN s.queuebuf_len ELSE s.queuebuf_len - 1
      BY <1>1 DEF Used
    <2> HIDE DEF freed
    <2> QED
      BY <2>1 DEF RelunicastSend
  <1>4. CASE freed >= Pool
    <2>1. r = [s EXCEPT !.buf = None, !.queuebuf_len = freed]
      BY <1>3, <1>4
    <2> HIDE DEF freed, r
    <2>2. /\ r \in State
          /\ r.queue = s.queue /\ r.buf = None /\ r.queuebuf_len = freed
          /\ r.adv = s.adv /\ r.is_tx = 0 /\ r.packetbuf = s.packetbuf
          /\ r.best = s.best /\ r.rtmetric = s.rtmetric
      BY <1>1, <1>2, <2>1 DEF State
    <2>3. Accounted(r)
      BY <1>1, <1>2, <2>2 DEF Accounted, Used
    <2> QED
      BY <1>1, <2>2, <2>3 DEF Sound, Busy, HeadSent, KeepsTransmission, r
  <1>5. CASE ~(freed >= Pool)
    <2>1. r = [s EXCEPT !.buf = s.packetbuf, !.queuebuf_len = freed + 1,
                        !.rxmit = 0, !.is_tx = 1]
      BY <1>3, <1>5
    <2> HIDE DEF freed, r
    <2>0. /\ freed + 1 \in Nat /\ 0 \in Nat /\ 1 \in Bit
          /\ s.packetbuf \in BufferedPacket
      BY <1>1, <1>2 DEF Bit
    <2>2. /\ r \in State
          /\ r.queue = s.queue /\ r.buf = s.packetbuf
          /\ r.queuebuf_len = freed + 1 /\ r.packetbuf = s.packetbuf
          /\ r.adv = s.adv /\ r.rxmit = 0 /\ r.forwarding = s.forwarding
          /\ r.best = s.best /\ r.rtmetric = s.rtmetric
      BY <2>0, <2>1 DEF State
    <2>3. Accounted(r)
      BY <1>1, <1>2, <1>5, <2>2 DEF Accounted, Used
    <2>4. Busy(r) /\ HeadSent(r)
      BY <1>1, <2>2 DEF Busy, HeadSent
    <2> QED
      BY <1>1, <2>2, <2>3, <2>4 DEF Sound, KeepsTransmission, r
  <1> QED
    BY <1>4, <1>5

\* rel_send_queued_packet.
LEMMA SendQueuedKeeps ==
  ASSUME NEW s, NEW alt \in Routes \cup {NoRoute}, Sound(s)
  PROVE  /\ Sound(SendQueued(s, alt))
         /\ KeepsTransmission(s, SendQueued(s, alt))
         /\ s.packetbuf \in Packet => SendQueued(s, alt).packetbuf \in Packet
  <1>1. CASE s.queue = <<>> \/ s.forwarding = 1
    BY <1>1 DEF SendQueued, KeepsTransmission, Sound, Busy, HeadSent, State, Bit
  <1>2. CASE ~(s.queue = <<>> \/ s.forwarding = 1)
    <2> DEFINE p == Head(s.queue)
               best == AvoidCycle(s.best, p, alt)
               t == [s EXCEPT !.packetbuf = p, !.best = best]
               u == [t EXCEPT !.forwarding = 1]
    <2>1. SendQueued(s, alt) = IF t.best = NoRoute THEN t ELSE RelunicastSend(u)
      BY <1>2, Zenon DEF SendQueued
    <2>2. /\ s \in State /\ s.queue \in Seq(Packet) /\ s.queue # <<>>
          /\ p \in Packet /\ p \in BufferedPacket /\ s.is_tx = 0
      BY <1>2, TailValues DEF Sound, State, Busy, HeadSent, Bit, BufferedPacket
    <2>3. best \in Routes \cup {NoRoute}
      BY <2>2 DEF AvoidCycle, State
    <2> HIDE DEF best
    <2>3a. /\ t \in State /\ t.is_tx = 0 /\ t.packetbuf = p
           /\ t.best = best /\ t.rtmetric = s.rtmetric
           /\ t.queue = s.queue /\ t.buf = s.buf /\ t.adv = s.adv
           /\ t.queuebuf_len = s.queuebuf_len
      BY <2>2, <2>3 DEF State
    <2> HIDE DEF t
    <2>4. /\ u \in State /\ u.is_tx = 0 /\ u.forwarding = 1 /\ u.packetbuf = p
          /\ u.best = best /\ u.rtmetric = s.rtmetric
          /\ u.queue = s.queue /\ u.buf = s.buf /\ u.adv = s.adv
          /\ u.queuebuf_len = s.queuebuf_len
      <3>1. 1 \in Bit
        BY DEF Bit
      <3> QED
        BY <2>3a, <3>1 DEF State
    <2> HIDE DEF u
    <2>5. Sound(t) /\ KeepsTransmission(s, t)
      BY <2>2, <2>3, <2>3a DEF Sound, Accounted, Busy, HeadSent, KeepsTransmission
    <2>6. Accounted(u)
      BY <2>3, <2>4 DEF Sound, Accounted
    <2>7. /\ Sound(RelunicastSend(u))
          /\ KeepsTransmission(u, RelunicastSend(u))
          /\ RelunicastSend(u).packetbuf \in Packet
      BY <2>2, <2>4, <2>6, RelunicastSendKeeps
    <2>8. HeadSent(s) => HeadSent(RelunicastSend(u))
      BY <2>4, <2>7 DEF KeepsTransmission, HeadSent
    <2> QED
      BY <2>1, <2>2, <2>3a, <2>4, <2>5, <2>6, <2>7, <2>8 DEF KeepsTransmission
  <1> QED
    BY <1>1, <1>2

\* announcement_set_value and the advertisement it triggers.
LEMMA AnnounceKeeps ==
  ASSUME NEW s, Sound(s)
  PROVE  /\ Sound(Announce(s))
         /\ KeepsTransmission(s, Announce(s))
         /\ Announce(s).is_tx = s.is_tx
         /\ Announce(s).packetbuf \in Packet
         /\ Announce(s).best = s.best /\ Announce(s).rtmetric = s.rtmetric
  <1> DEFINE freed == s.queuebuf_len - s.adv
             got == IF freed < Pool THEN 1 ELSE 0
             r == [s EXCEPT !.packetbuf = Announcement, !.adv = got,
                            !.queuebuf_len = freed + got]
  <1>1. Announce(s) = r
    BY DEF Announce
  <1>2. /\ s \in State /\ freed \in Nat
        /\ freed = Len(s.queue) + Used(s.buf)
        /\ freed + got <= Pool /\ got \in Bit /\ freed + got \in Nat
    <2>1. /\ s \in State /\ Len(s.queue) \in Nat /\ Used(s.buf) \in Nat
          /\ s.adv \in Nat /\ s.queuebuf_len \in Nat
      BY DEF Sound, State, Used, Bit
    <2>2. s.queuebuf_len = Len(s.queue) + Used(s.buf) + s.adv /\ s.queuebuf_len <= Pool
      BY DEF Sound, Accounted
    <2> DEFINE l == Len(s.queue)
               k == Used(s.buf)
    <2>3. /\ freed \in Nat /\ freed = l + k /\ freed <= Pool
      <3> HIDE DEF l, k
      <3> QED
        BY <2>1, <2>2 DEF l, k
    <2>4. got \in Bit /\ got \in 0 .. 1 /\ (got = 1 => freed < Pool)
      BY DEF Bit
    <2> HIDE DEF freed, got
    <2> QED
      BY <2>1, <2>3, <2>4
  <1> HIDE DEF freed, got
  <1>3. /\ r \in State
        /\ r.queue = s.queue /\ r.buf = s.buf /\ r.adv = got
        /\ r.queuebuf_len = freed + got
        /\ r.forwarding = s.forwarding /\ r.is_tx = s.is_tx
        /\ r.rxmit = s.rxmit /\ r.packetbuf = Announcement
        /\ r.best = s.best /\ r.rtmetric = s.rtmetric
    BY <1>2, PacketValues DEF State, BufferedPacket
  <1> HIDE DEF r
  <1>4. Accounted(r)
    BY <1>2, <1>3 DEF Sound, Accounted
  <1> QED
    BY <1>1, <1>3, <1>4, PacketValues DEF Sound, Busy, HeadSent, KeepsTransmission

\* Helpers in sequence.
LEMMA KeepsTransitive ==
  ASSUME NEW s, NEW t, NEW u, s \in State, t \in State,
         KeepsTransmission(s, t), KeepsTransmission(t, u)
  PROVE  KeepsTransmission(s, u)
  BY DEF KeepsTransmission, State, Bit

\* rel_update_rtmetric.
LEMMA UpdateMetricKeeps ==
  ASSUME NEW s, NEW alt \in Routes \cup {NoRoute}, Sound(s)
  PROVE  /\ Sound(UpdateMetric(s, alt))
         /\ KeepsTransmission(s, UpdateMetric(s, alt))
         /\ s.packetbuf \in Packet => UpdateMetric(s, alt).packetbuf \in Packet
  <1> DEFINE t == [s EXCEPT !.rtmetric = s.best.cost]
             a == Announce(t)
             n == SendQueued(a, alt)
  <1>1. UpdateMetric(s, alt) \in {s, a, n}
    BY DEF UpdateMetric
  <1>2. s \in State /\ s.best.cost \in Cost \cup {RTMETRIC_MAX}
    BY RouteValues DEF Sound, State
  <1>3. Sound(t) /\ KeepsTransmission(s, t)
    <2>1. /\ t \in State /\ t.is_tx = s.is_tx
          /\ t.queue = s.queue /\ t.buf = s.buf /\ t.adv = s.adv
          /\ t.queuebuf_len = s.queuebuf_len /\ t.forwarding = s.forwarding
          /\ t.rxmit = s.rxmit
      BY <1>2 DEF State
    <2> HIDE DEF t
    <2> QED
      BY <1>2, <2>1 DEF Sound, Accounted, Busy, HeadSent, KeepsTransmission
  <1>4. KeepsTransmission(s, s)
    BY <1>2 DEF KeepsTransmission, State, Bit
  <1> HIDE DEF t
  <1>5. Sound(a) /\ KeepsTransmission(t, a) /\ a.packetbuf \in Packet
    BY <1>3, AnnounceKeeps
  <1> HIDE DEF a
  <1>6. Sound(n) /\ KeepsTransmission(a, n) /\ n.packetbuf \in Packet
    BY <1>5, SendQueuedKeeps
  <1> HIDE DEF n
  <1>7. KeepsTransmission(s, a) /\ KeepsTransmission(s, n)
    BY <1>2, <1>3, <1>5, <1>6, KeepsTransitive DEF Sound
  <1> QED
    BY <1>1, <1>4, <1>5, <1>6, <1>7

\* A state at the end of a handler.
LEMMA SettleKeeps ==
  ASSUME NEW s, Sound(s)
  PROVE  /\ Sound(Settle(s)) /\ Settle(s).packetbuf = None
         /\ KeepsTransmission(s, Settle(s))
         /\ Settle(s).is_tx = s.is_tx
  <1>1. s \in State /\ None \in BufferedPacket
    BY DEF Sound, BufferedPacket
  <1> DEFINE t == Settle(s)
  <1>2. /\ t \in State /\ t.packetbuf = None /\ t.is_tx = s.is_tx
        /\ t.queue = s.queue /\ t.buf = s.buf /\ t.adv = s.adv
        /\ t.queuebuf_len = s.queuebuf_len /\ t.forwarding = s.forwarding
        /\ t.rxmit = s.rxmit /\ t.best = s.best /\ t.rtmetric = s.rtmetric
    BY <1>1 DEF Settle, State
  <1> HIDE DEF t
  <1>3. Sound(t) /\ KeepsTransmission(s, t)
    BY <1>1, <1>2 DEF Sound, Accounted, Busy, HeadSent, KeepsTransmission
  <1> QED
    BY <1>2, <1>3 DEF t

\* rel_node_packet_sent and rel_node_packet_timedout.  If the callback starts no
\* transmission before it removes the finished packet, the next one is the head.
LEMMA FinishKeeps ==
  ASSUME NEW s, Sound(s), NEW b \in Routes \cup {NoRoute},
         NEW alt \in Routes \cup {NoRoute}
  PROVE  /\ Sound(Finish(s, b, alt))
         /\ Finish(s, b, alt).packetbuf = None
         /\ Finish(s, b, alt).is_tx = 1 => Finish(s, b, alt).rxmit = 0
         /\ Updated(s, b, alt).is_tx = 0 => HeadSent(Finish(s, b, alt))
         /\ Updated(s, b, alt).is_tx \in {0, 1}
  <1> DEFINE i == [s EXCEPT !.is_tx = 0, !.forwarding = 0, !.best = b]
             t == UpdateMetric(i, alt)
             d == Dequeue(t)
             n == SendQueued(d, alt)
  <1>1. s \in State /\ 0 \in Bit
    BY DEF Sound, Bit
  <1>2. Sound(i) /\ i.is_tx = 0
    <2>1. /\ i \in State /\ i.is_tx = 0 /\ i.best = b
          /\ i.queue = s.queue /\ i.buf = s.buf /\ i.adv = s.adv
          /\ i.queuebuf_len = s.queuebuf_len /\ i.rtmetric = s.rtmetric
      BY <1>1 DEF State
    <2> HIDE DEF i
    <2> QED
      BY <2>1 DEF Sound, Accounted, Busy
  <1>3. Updated(s, b, alt) = t /\ Finish(s, b, alt) = Settle(n)
    BY DEF Updated, Finish
  <1> HIDE DEF i
  <1>4. /\ Sound(t) /\ t.is_tx \in {0, 1}
        /\ t.is_tx = 1 => t.rxmit = 0
    BY <1>2, UpdateMetricKeeps DEF KeepsTransmission, Sound, State, Bit
  <1> HIDE DEF t
  <1>5. Sound(d) /\ d.is_tx = t.is_tx /\ d.rxmit = t.rxmit
    BY <1>4, DequeueKeeps
  <1> HIDE DEF d
  <1>6. Sound(n) /\ KeepsTransmission(d, n)
    BY <1>5, SendQueuedKeeps
  <1> HIDE DEF n
  <1>7. n.is_tx = 1 => n.rxmit = 0
    BY <1>4, <1>5, <1>6 DEF KeepsTransmission
  <1>8. t.is_tx = 0 => HeadSent(n)
    BY <1>5, <1>6 DEF KeepsTransmission, HeadSent
  <1>9. n.is_tx \in {0, 1} /\ Settle(n).rxmit = n.rxmit
    BY <1>6 DEF Sound, State, Bit, Settle
  <1> QED
    BY <1>3, <1>4, <1>6, <1>7, <1>8, <1>9, SettleKeeps DEF KeepsTransmission

-----------------------------------------------------------------------------
\* Whatever the table holds, the actions are given what neighbor_best() may return.
LEMMA Choices ==
  ASSUME c \in State
  PROVE  /\ Application => \E alt \in Routes \cup {NoRoute} : SendOwn(alt)
         /\ SendTimer =>
              \/ TransmitUnacked
              \/ \E b, alt \in Routes \cup {NoRoute} : TransmitAcked(b, alt) \/ TimedOut(b, alt)
         /\ Reception =>
              \E p \in Foreign :
                \/ ReceiveDuplicate(p)
                \/ \E higher \in BOOLEAN, alt \in Routes \cup {NoRoute} : Receive(p, higher, alt)
         /\ Routing =>
              \/ \E b, alt \in Routes \cup {NoRoute} : HearAnnouncement(b, alt)
              \/ \E b \in Routes \cup {NoRoute} : AgeOut(b)
  <1>1. c.best \in Routes \cup {NoRoute}
    BY DEF State
  <1>2. Application => \E alt \in Routes \cup {NoRoute} : SendOwn(alt)
    BY <1>1, BestValues DEF Application
  <1>3. SendTimer =>
          \/ TransmitUnacked
          \/ \E b, alt \in Routes \cup {NoRoute} : TransmitAcked(b, alt) \/ TimedOut(b, alt)
    BY BestValues DEF SendTimer
  <1>4. Reception =>
          \E p \in Foreign :
            \/ ReceiveDuplicate(p)
            \/ \E higher \in BOOLEAN, alt \in Routes \cup {NoRoute} : Receive(p, higher, alt)
    BY <1>1, BestValues DEF Reception
  <1>5. Routing =>
          \/ \E b, alt \in Routes \cup {NoRoute} : HearAnnouncement(b, alt)
          \/ \E b \in Routes \cup {NoRoute} : AgeOut(b)
    BY <1>1, BestValues DEF Routing
  <1> QED
    BY <1>2, <1>3, <1>4, <1>5

-----------------------------------------------------------------------------
(***************************************************************************)
(* The node's part of the inductive invariant.                             *)
(***************************************************************************)
NodeInv ==
  /\ Sound(c) /\ c.packetbuf = None
  /\ Counted
  /\ resent \/ HeadSent(c)
  /\ tries \in Nat /\ resent \in BOOLEAN
  /\ out \in {"none", "acked", "timedout"}

\* A handler that does not finish a packet.
LEMMA HandlerKeeps ==
  ASSUME NodeInv, NEW t, Sound(t), KeepsTransmission(c, t),
         c' = Settle(t), out' = "none", UNCHANGED resent,
         tries' = IF c'.is_tx = c.is_tx THEN tries ELSE 0
  PROVE  NodeInv' /\ KeepsTransmission(c, c')
  <1>1. /\ Sound(c') /\ c'.packetbuf = None
        /\ KeepsTransmission(t, c')
    BY SettleKeeps
  <1>2. c \in State /\ t \in State /\ c' \in State
    BY <1>1 DEF NodeInv, Sound
  <1>3. KeepsTransmission(c, c')
    BY <1>1, <1>2, KeepsTransitive
  <1>4. c.is_tx \in Bit /\ c'.is_tx \in Bit
    BY <1>2 DEF State
  <1>5. c'.is_tx = 1 => c'.buf \in Packet
    BY <1>1 DEF Sound, Busy
  <1>6. Counted'
    <2>1. CASE c.is_tx = 1
      BY <1>3, <2>1 DEF NodeInv, Counted, KeepsTransmission
    <2>2. CASE c.is_tx = 0 /\ c'.is_tx = 1
      <3>1. c'.rxmit = 0 /\ tries' = 0 /\ c'.buf.max \in Nat
        BY <1>3, <1>5, <2>2 DEF KeepsTransmission, Packet
      <3> QED
        BY <1>5, <3>1 DEF Counted
    <2> QED
      BY <1>4, <2>1, <2>2 DEF Bit, Counted
  <1>7. (resent \/ HeadSent(c))'
    BY <1>3 DEF NodeInv, KeepsTransmission
  <1> QED
    BY <1>1, <1>3, <1>6, <1>7 DEF NodeInv

\* relcollect_send.
LEMMA SendOwnKeeps ==
  ASSUME NodeInv, NEW alt \in Routes \cup {NoRoute}, SendOwn(alt)
  PROVE  NodeInv' /\ KeepsTransmission(c, c')
  <1> DEFINE s == [c EXCEPT !.packetbuf = OwnPacket(c.seqno),
                            !.seqno = (@ + 1) % SeqMod]
  <1>1. /\ c \in State /\ alt \in Routes \cup {NoRoute}
        /\ OwnPacket(c.seqno) \in Packet
        /\ (c.seqno + 1) % SeqMod \in 0 .. SeqMod - 1
    <2>1. c \in State /\ c.seqno \in 0 .. SeqMod - 1
      BY DEF NodeInv, Sound, State
    <2>2. (c.seqno + 1) % SeqMod \in 0 .. SeqMod - 1
      BY <2>1
    <2>3. OwnPacket(c.seqno) \in Packet
      BY <2>1, PacketValues
    <2> QED
      BY <2>1, <2>2, <2>3
  <1>2. Sound(s) /\ KeepsTransmission(c, s) /\ s.packetbuf \in Packet
    <2>1. /\ s \in State /\ s.packetbuf \in Packet /\ s.is_tx = c.is_tx
          /\ s.queue = c.queue /\ s.buf = c.buf /\ s.adv = c.adv
          /\ s.queuebuf_len = c.queuebuf_len /\ s.forwarding = c.forwarding
          /\ s.rxmit = c.rxmit /\ s.best = c.best /\ s.rtmetric = c.rtmetric
      BY <1>1 DEF State, BufferedPacket
    <2> HIDE DEF s
    <2>2. Accounted(c) /\ Busy(c)
      BY DEF NodeInv, Sound
    <2>3. Accounted(s) /\ Busy(s)
      BY <2>1, <2>2 DEF Accounted, Busy, HeadSent
    <2>4. KeepsTransmission(c, s)
      BY <1>1, <2>1 DEF KeepsTransmission, HeadSent, State, Bit
    <2> QED
      BY <2>1, <2>3, <2>4 DEF Sound
  <1>3. /\ c' = IF s.rtmetric = SINK_METRIC \/ ~HasRoom(s) THEN Settle(s)
               ELSE IF s.best = NoRoute THEN Settle(Enqueue(s))
               ELSE Settle(SendQueued(Enqueue(s), alt))
        /\ tries' = IF c'.is_tx = c.is_tx THEN tries ELSE 0
        /\ out' = "none" /\ UNCHANGED resent
    BY DEF SendOwn
  <1> HIDE DEF s
  <1>4. CASE s.rtmetric = SINK_METRIC \/ ~HasRoom(s)
    BY <1>2, <1>3, <1>4, HandlerKeeps
  <1>5. CASE ~(s.rtmetric = SINK_METRIC \/ ~HasRoom(s))
    <2> DEFINE e == Enqueue(s)
               n == SendQueued(e, alt)
    <2>1. Sound(e) /\ KeepsTransmission(s, e)
      BY <1>2, <1>5, EnqueueKeeps
    <2>2. KeepsTransmission(c, e)
      BY <1>1, <1>2, <2>1, KeepsTransitive DEF Sound
    <2>3. Sound(n) /\ KeepsTransmission(e, n)
      BY <1>1, <2>1, SendQueuedKeeps
    <2>4. KeepsTransmission(c, n)
      BY <1>1, <2>1, <2>2, <2>3, KeepsTransitive DEF Sound
    <2>5. c' = Settle(e) \/ c' = Settle(n)
      BY <1>3, <1>5
    <2> HIDE DEF e, n
    <2> QED
      BY <1>3, <2>1, <2>2, <2>3, <2>4, <2>5, HandlerKeeps
  <1> QED
    BY <1>4, <1>5

\* rel_node_packet_received.
LEMMA ReceiveKeeps ==
  ASSUME NodeInv, NEW p \in Foreign, NEW higher \in BOOLEAN,
         NEW alt \in Routes \cup {NoRoute}, Receive(p, higher, alt)
  PROVE  NodeInv' /\ KeepsTransmission(c, c')
  <1> DEFINE s == [c EXCEPT !.packetbuf = p]
             t == IF higher THEN s ELSE UpdateMetric(s, alt)
  <1>1. c \in State /\ alt \in Routes \cup {NoRoute} /\ p \in Packet
    BY ForeignAssumption DEF NodeInv, Sound, ForeignAssumption
  <1>2. Sound(s) /\ KeepsTransmission(c, s) /\ s.packetbuf \in Packet
    <2>1. /\ s \in State /\ s.packetbuf \in Packet /\ s.is_tx = c.is_tx
          /\ s.queue = c.queue /\ s.buf = c.buf /\ s.adv = c.adv
          /\ s.queuebuf_len = c.queuebuf_len /\ s.forwarding = c.forwarding
          /\ s.rxmit = c.rxmit /\ s.best = c.best /\ s.rtmetric = c.rtmetric
      BY <1>1 DEF State, BufferedPacket
    <2> HIDE DEF s
    <2>2. Accounted(c) /\ Busy(c)
      BY DEF NodeInv, Sound
    <2>3. Accounted(s) /\ Busy(s)
      BY <2>1, <2>2 DEF Accounted, Busy, HeadSent
    <2>4. KeepsTransmission(c, s)
      BY <1>1, <2>1 DEF KeepsTransmission, HeadSent, State, Bit
    <2> QED
      BY <2>1, <2>3, <2>4 DEF Sound
  <1>3. /\ c' = IF t.rtmetric \notin {SINK_METRIC, RTMETRIC_MAX} /\ HasRoom(t)
               THEN Settle(SendQueued(Enqueue(t), alt)) ELSE Settle(t)
        /\ tries' = IF c'.is_tx = c.is_tx THEN tries ELSE 0
        /\ out' = "none" /\ UNCHANGED resent
    BY DEF Receive
  <1> HIDE DEF s
  <1>4. Sound(t) /\ KeepsTransmission(s, t) /\ t.packetbuf \in Packet
    <2>1. CASE higher
      BY <1>2, <2>1 DEF KeepsTransmission, Sound, State, Bit
    <2>2. CASE ~higher
      BY <1>1, <1>2, <2>2, UpdateMetricKeeps
    <2> QED
      BY <2>1, <2>2
  <1> HIDE DEF t
  <1>5. KeepsTransmission(c, t)
    BY <1>1, <1>2, <1>4, KeepsTransitive DEF Sound
  <1>6. CASE ~(t.rtmetric \notin {SINK_METRIC, RTMETRIC_MAX} /\ HasRoom(t))
    <2>1. c' = Settle(t)
      BY <1>3, <1>6
    <2> QED
      BY <1>3, <1>4, <1>5, <2>1, HandlerKeeps
  <1>7. CASE t.rtmetric \notin {SINK_METRIC, RTMETRIC_MAX} /\ HasRoom(t)
    <2> DEFINE e == Enqueue(t)
               n == SendQueued(e, alt)
    <2>1. Sound(e) /\ KeepsTransmission(t, e)
      BY <1>4, <1>7, EnqueueKeeps
    <2>2. KeepsTransmission(c, e)
      BY <1>1, <1>4, <1>5, <2>1, KeepsTransitive DEF Sound
    <2>3. Sound(n) /\ KeepsTransmission(e, n)
      BY <1>1, <2>1, SendQueuedKeeps
    <2>4. KeepsTransmission(c, n)
      BY <1>1, <2>1, <2>2, <2>3, KeepsTransitive DEF Sound
    <2>5. c' = Settle(n)
      BY <1>3, <1>7
    <2> HIDE DEF e, n
    <2> QED
      BY <1>3, <2>3, <2>4, <2>5, HandlerKeeps
  <1> QED
    BY <1>6, <1>7

\* A packet in transmission is a packet of the queue.
LEMMA InFlightIsPacket ==
  ASSUME NEW s, Sound(s), s.is_tx = 1
  PROVE  s.buf \in Packet /\ s.buf.max \in Nat
  BY DEF Sound, Busy, Packet

\* A finished packet: the counters start again with the next one.
LEMMA FinishedKeeps ==
  ASSUME NodeInv, NEW s, Sound(s),
         NEW b \in Routes \cup {NoRoute}, NEW alt \in Routes \cup {NoRoute},
         c' = Finish(s, b, alt), tries' = 0, out' \in {"acked", "timedout"},
         resent' = (resent \/ Updated(s, b, alt).is_tx = 1)
  PROVE  NodeInv'
  <1>1. /\ Sound(c') /\ c'.packetbuf = None
        /\ c'.is_tx = 1 => c'.rxmit = 0
        /\ Updated(s, b, alt).is_tx = 0 => HeadSent(c')
        /\ Updated(s, b, alt).is_tx \in {0, 1}
    BY FinishKeeps
  <1>2. c'.is_tx = 1 => c'.buf \in Packet /\ c'.buf.max \in Nat
    BY <1>1, InFlightIsPacket
  <1>3. Counted'
    BY <1>1, <1>2 DEF Counted
  <1>4. (resent \/ HeadSent(c))'
    BY <1>1
  <1> QED
    BY <1>1, <1>3, <1>4 DEF NodeInv

\* The steps of relunicast's timer.
LEMMA SendTimerKeeps ==
  ASSUME NodeInv, SendTimer
  PROVE  NodeInv'
  <1>1. c \in State /\ Accounted(c) /\ Busy(c) /\ c.rxmit \in Nat
    BY DEF NodeInv, Sound, State
  <1>2. CASE TransmitUnacked
    <2>1. c.rxmit + 1 \in Nat /\ tries + 1 \in Nat /\ c.is_tx = 1
      <3>1. tries \in Nat
        BY DEF NodeInv
      <3>2. c.is_tx = 1
        BY <1>2 DEF TransmitUnacked
      <3> QED
        BY <1>1, <3>1, <3>2
    <2>2. /\ c' \in State
          /\ c'.queue = c.queue /\ c'.buf = c.buf /\ c'.adv = c.adv
          /\ c'.queuebuf_len = c.queuebuf_len /\ c'.forwarding = c.forwarding
          /\ c'.is_tx = c.is_tx /\ c'.best = c.best /\ c'.rtmetric = c.rtmetric
          /\ c'.rxmit = c.rxmit + 1 /\ c'.packetbuf = c.packetbuf
      BY <1>1, <1>2, <2>1 DEF State, TransmitUnacked
    <2>3. Accounted(c') /\ Busy(c')
      BY <1>1, <2>2 DEF Accounted, Busy, HeadSent
    <2>4. Counted'
      <3>1. c.buf \in Packet /\ tries = c.rxmit /\ c.rxmit <= c.buf.max
        <4>1. c.buf \in Packet /\ tries = c.rxmit
          BY <2>1 DEF NodeInv, Counted
        <4>2. c.buf.max \in Nat
          BY <4>1 DEF Packet
        <4> QED
          BY <1>1, <1>2, <4>1, <4>2 DEF TransmitUnacked, Exhausted
      <3>2. c.buf.max \in Nat
        BY <3>1 DEF Packet
      <3> QED
        BY <1>1, <1>2, <2>2, <3>1, <3>2 DEF Counted, TransmitUnacked
    <2> QED
      BY <1>2, <2>1, <2>2, <2>3, <2>4 DEF NodeInv, Sound, HeadSent, TransmitUnacked
  <1>3. ASSUME NEW b \in Routes \cup {NoRoute}, NEW alt \in Routes \cup {NoRoute},
               TransmitAcked(b, alt)
        PROVE  NodeInv'
    <2>1. /\ c' = Finish(c, b, alt)
          /\ tries' = 0 /\ out' = "acked"
          /\ resent' = (resent \/ Updated(c, b, alt).is_tx = 1)
      BY <1>3 DEF TransmitAcked
    <2> QED
      BY <1>1, <2>1, FinishedKeeps DEF NodeInv
  <1>4. ASSUME NEW b \in Routes \cup {NoRoute}, NEW alt \in Routes \cup {NoRoute},
               TimedOut(b, alt)
        PROVE  NodeInv'
    <2> DEFINE s == [c EXCEPT !.rxmit = @ - 1]
    <2>1. c.buf \in Packet /\ c.rxmit > c.buf.max
      BY <1>4 DEF NodeInv, Counted, TimedOut, Exhausted
    <2>2. c.buf.max \in Nat
      BY <2>1 DEF Packet
    <2>3. c.rxmit - 1 \in Nat
      BY <1>1, <2>1, <2>2
    <2>4. /\ s \in State
          /\ s.queue = c.queue /\ s.buf = c.buf /\ s.adv = c.adv
          /\ s.queuebuf_len = c.queuebuf_len /\ s.forwarding = c.forwarding
          /\ s.is_tx = c.is_tx /\ s.best = c.best /\ s.rtmetric = c.rtmetric
      BY <1>1, <2>3 DEF State
    <2>5. /\ c' = Finish(s, b, alt)
          /\ tries' = 0 /\ out' = "timedout"
          /\ resent' = (resent \/ Updated(s, b, alt).is_tx = 1)
      BY <1>4 DEF TimedOut
    <2> HIDE DEF s
    <2>6. Sound(s)
      BY <1>1, <2>4 DEF Sound, Accounted, Busy, HeadSent
    <2> QED
      BY <2>5, <2>6, FinishedKeeps
  <1> QED
    BY <1>1, <1>2, <1>3, <1>4, Choices

\* Routing events and advertisements.
LEMMA RoutingKeeps ==
  ASSUME NodeInv, Routing
  PROVE  NodeInv' /\ KeepsTransmission(c, c')
  <1>1. c \in State /\ Accounted(c) /\ Busy(c)
    BY DEF NodeInv, Sound
  <1>2. ASSUME NEW b \in Routes \cup {NoRoute}
        PROVE  LET s == [c EXCEPT !.best = b]
               IN  /\ Sound(s) /\ KeepsTransmission(c, s)
                   /\ s.is_tx = c.is_tx /\ s.rtmetric = c.rtmetric /\ s.best = b
                   /\ s.packetbuf = c.packetbuf /\ s.rxmit = c.rxmit
                   /\ s.buf = c.buf
    <2> DEFINE s == [c EXCEPT !.best = b]
    <2>1. /\ s \in State
          /\ s.queue = c.queue /\ s.buf = c.buf /\ s.adv = c.adv
          /\ s.queuebuf_len = c.queuebuf_len /\ s.forwarding = c.forwarding
          /\ s.is_tx = c.is_tx /\ s.best = b /\ s.rtmetric = c.rtmetric
          /\ s.rxmit = c.rxmit /\ s.packetbuf = c.packetbuf
      BY <1>1 DEF State
    <2> HIDE DEF s
    <2>2. Sound(s) /\ KeepsTransmission(c, s)
      BY <1>1, <2>1 DEF Sound, Accounted, Busy, HeadSent, KeepsTransmission
    <2> QED
      BY <2>1, <2>2 DEF s
  <1>3. ASSUME NEW b \in Routes \cup {NoRoute}, NEW alt \in Routes \cup {NoRoute},
               HearAnnouncement(b, alt)
        PROVE  NodeInv' /\ KeepsTransmission(c, c')
    <2> DEFINE s == [c EXCEPT !.best = b]
               t == UpdateMetric(s, alt)
    <2>1. Sound(s) /\ KeepsTransmission(c, s)
      BY <1>2
    <2>2. /\ c' = Settle(t) /\ out' = "none" /\ UNCHANGED resent
          /\ tries' = IF c'.is_tx = c.is_tx THEN tries ELSE 0
      BY <1>3 DEF HearAnnouncement
    <2> HIDE DEF s
    <2>3. Sound(t) /\ KeepsTransmission(s, t)
      BY <2>1, UpdateMetricKeeps
    <2> HIDE DEF t
    <2>4. KeepsTransmission(c, t)
      BY <1>1, <2>1, <2>3, KeepsTransitive DEF Sound
    <2> QED
      BY <2>2, <2>3, <2>4, HandlerKeeps
  <1>4. ASSUME NEW b \in Routes \cup {NoRoute}, AgeOut(b)
        PROVE  NodeInv' /\ KeepsTransmission(c, c')
    <2>1. b \in Routes \cup {NoRoute} /\ c' = [c EXCEPT !.best = b]
      BY <1>4 DEF AgeOut
    <2>2. /\ Sound(c') /\ c'.is_tx = c.is_tx /\ c'.rtmetric = c.rtmetric
          /\ c'.packetbuf = c.packetbuf /\ c'.rxmit = c.rxmit /\ c'.buf = c.buf
      BY <1>2, <2>1
    <2>3. KeepsTransmission(c, c')
      BY <1>2, <2>1
    <2>4. Counted'
      BY <1>4, <2>2 DEF NodeInv, Counted, AgeOut
    <2> QED
      BY <1>4, <2>2, <2>3, <2>4 DEF NodeInv, AgeOut, KeepsTransmission
  <1> QED
    BY <1>1, <1>3, <1>4, Choices

LEMMA AdvertisingKeeps ==
  ASSUME NodeInv, Advertising
  PROVE  NodeInv' /\ KeepsTransmission(c, c')
  <1>1. c \in State /\ Accounted(c) /\ Busy(c) /\ Sound(c)
    BY DEF NodeInv, Sound
  <1>2. CASE Advertise
    <2> DEFINE t == Announce(c)
    <2>1. c' = Settle(t) /\ out' = "none" /\ tries' = tries /\ UNCHANGED resent
      BY <1>2 DEF Advertise
    <2>2. /\ Sound(t) /\ KeepsTransmission(c, t) /\ t.is_tx = c.is_tx
      BY <1>1, AnnounceKeeps
    <2> HIDE DEF t
    <2>3. c'.is_tx = c.is_tx
      BY <2>1, <2>2, SettleKeeps
    <2> QED
      BY <2>1, <2>2, <2>3, HandlerKeeps
  <1>3. CASE AdvertisementLeaves
    <2>1. /\ c.adv = 1 /\ 0 \in Bit /\ c.queuebuf_len \in Nat
          /\ Len(c.queue) \in Nat /\ Used(c.buf) \in Nat
      BY <1>1, <1>3 DEF AdvertisementLeaves, State, Bit, Used
    <2>2. c.queuebuf_len - 1 \in Nat
      BY <1>1, <2>1 DEF Accounted
    <2>3. /\ c' \in State
          /\ c'.queue = c.queue /\ c'.buf = c.buf /\ c'.adv = 0
          /\ c'.queuebuf_len = c.queuebuf_len - 1 /\ c'.forwarding = c.forwarding
          /\ c'.is_tx = c.is_tx /\ c'.best = c.best /\ c'.rtmetric = c.rtmetric
          /\ c'.rxmit = c.rxmit /\ c'.packetbuf = c.packetbuf
      BY <1>1, <1>3, <2>1, <2>2 DEF AdvertisementLeaves, State
    <2>4. Accounted(c')
      BY <1>1, <2>1, <2>3 DEF Accounted
    <2>5. Busy(c')
      BY <1>1, <2>3 DEF Busy
    <2>5a. KeepsTransmission(c, c')
      BY <1>1, <2>3 DEF KeepsTransmission, HeadSent, State, Bit
    <2>6. Counted'
      BY <1>3, <2>3 DEF NodeInv, Counted, AdvertisementLeaves
    <2> QED
      BY <1>1, <1>3, <2>3, <2>4, <2>5, <2>5a, <2>6
      DEF NodeInv, Sound, AdvertisementLeaves, KeepsTransmission
  <1> QED
    BY <1>2, <1>3 DEF Advertising

-----------------------------------------------------------------------------
(***************************************************************************)
(* The ring of recently accepted packets.                                  *)
(***************************************************************************)
Identity == [origin : Origin \cup {Me, Null}, seq : 0 .. SeqMod - 1]

RingInv ==
  /\ recent \in [0 .. NumRecent - 1 -> Identity]
  /\ ptr \in 0 .. NumRecent - 1
  /\ accepted \in Seq(Identity) /\ Len(accepted) = NumRecent
  /\ RingIsRecent

\* A position counted from the write position.
LEMMA RingPosition ==
  ASSUME NEW a \in 0 .. NumRecent - 1, NEW b \in 0 .. NumRecent
  PROVE  (a + b) % NumRecent = IF a + b < NumRecent THEN a + b ELSE a + b - NumRecent
  <1>1. CASE a + b < NumRecent
    BY <1>1
  <1>2. CASE ~(a + b < NumRecent)
    <2>1. a + b - NumRecent \in 0 .. NumRecent - 1
      BY <1>2
    <2>2. a + b = NumRecent * 1 + (a + b - NumRecent)
      OBVIOUS
    <2> QED
      BY <1>2, <2>1, <2>2
  <1> QED
    BY <1>1, <1>2

\* Accepting a packet overwrites the oldest identity.
LEMMA RememberKeeps ==
  ASSUME RingInv, NEW p, Id(p) \in Identity, Remember(p)
  PROVE  RingInv'
  <1> DEFINE N == NumRecent
  <1>1. /\ N \in Nat \ {0} /\ ptr \in 0 .. N - 1
        /\ recent \in [0 .. N - 1 -> Identity]
        /\ accepted \in Seq(Identity) /\ Len(accepted) = N
        /\ accepted # <<>>
    BY DEF RingInv
  <1>2. /\ Tail(accepted) \in Seq(Identity) /\ Len(Tail(accepted)) = N - 1
        /\ \A i \in 1 .. N - 1 : Tail(accepted)[i] = accepted[i + 1]
    BY <1>1, HeadTailProperties
  <1>3. /\ accepted' \in Seq(Identity) /\ Len(accepted') = N
        /\ \A i \in 1 .. N - 1 : accepted'[i] = accepted[i + 1]
        /\ accepted'[N] = Id(p)
    <2>1. accepted' = Append(Tail(accepted), Id(p))
      BY DEF Remember
    <2> QED
      BY <1>1, <1>2, <2>1, AppendProperties
  <1>4. /\ recent' \in [0 .. N - 1 -> Identity]
        /\ recent'[ptr] = Id(p)
        /\ \A j \in 0 .. N - 1 : j # ptr => recent'[j] = recent[j]
    BY <1>1 DEF Remember
  <1>5. ptr' = IF ptr + 1 < N THEN ptr + 1 ELSE 0
    <2>1. ptr' = (ptr + 1) % N /\ 1 \in 0 .. N
      BY <1>1 DEF Remember
    <2>2. (ptr + 1) % N = IF ptr + 1 < N THEN ptr + 1 ELSE ptr + 1 - N
      BY <1>1, <2>1, RingPosition
    <2> QED
      BY <1>1, <2>1, <2>2
  <1>6. ptr' \in 0 .. N - 1
    BY <1>1, <1>5
  <1>7. ASSUME NEW i \in 1 .. N
        PROVE  recent'[(ptr' + i - 1) % N] = accepted'[i]
    <2> DEFINE j == (ptr' + (i - 1)) % N
    <2>1. i - 1 \in 0 .. N /\ ptr' + i - 1 = ptr' + (i - 1)
      BY <1>1, <1>6
    <2>2. j = IF ptr' + (i - 1) < N THEN ptr' + (i - 1) ELSE ptr' + (i - 1) - N
      BY <1>6, <2>1, RingPosition
    <2>3. j \in 0 .. N - 1
      BY <1>1, <1>6, <2>1, <2>2
    <2> HIDE DEF j
    <2>4. CASE i = N
      <3>1. j = ptr
        BY <1>1, <1>5, <2>2, <2>4
      <3> QED
        BY <1>3, <1>4, <2>1, <2>4, <3>1 DEF j
    <2>5. CASE i < N
      <3>1. j # ptr
        BY <1>1, <1>5, <2>2, <2>5
      <3>2. i + 1 \in 1 .. N /\ i \in 0 .. N /\ ptr + (i + 1) - 1 = ptr + i
        BY <1>1, <2>5
      <3>3. (ptr + i) % N = IF ptr + i < N THEN ptr + i ELSE ptr + i - N
        BY <1>1, <3>2, RingPosition
      <3>4. j = (ptr + i) % N
        BY <1>1, <1>5, <2>2, <2>5, <3>3
      <3>5. recent[(ptr + (i + 1) - 1) % N] = accepted[i + 1]
        BY <3>2 DEF RingInv, RingIsRecent
      <3>6. recent'[j] = accepted'[i]
        BY <1>3, <1>4, <2>3, <2>5, <3>1, <3>2, <3>4, <3>5
      <3> QED
        BY <2>1, <3>6 DEF j
    <2> QED
      BY <2>4, <2>5
  <1> QED
    BY <1>3, <1>4, <1>6, <1>7 DEF RingInv, RingIsRecent

-----------------------------------------------------------------------------
(***************************************************************************)
(* The theorems.                                                           *)
(***************************************************************************)
CollectInv == NodeInv /\ RingInv

\* The initial state satisfies the inductive invariant.
LEMMA InitInv == Init => CollectInv
  <1> SUFFICES ASSUME Init PROVE CollectInv
    OBVIOUS
  <1>1. /\ <<>> \in Seq(Packet) /\ Len(<<>>) = 0
        /\ None \in BufferedPacket /\ 0 \in Bit /\ 1 \in Bit
        /\ 1 % SeqMod \in 0 .. SeqMod - 1
    BY DEF BufferedPacket, Bit
  <1>2. /\ c \in State /\ c.queue = <<>> /\ c.buf = None /\ c.adv = 1
        /\ c.queuebuf_len = 1 /\ c.is_tx = 0 /\ c.best = NoRoute
        /\ c.packetbuf = None
    BY <1>1 DEF Init, State
  <1>3. Sound(c) /\ Counted
    BY <1>1, <1>2 DEF Sound, Accounted, Busy, HeadSent, Counted, Used
  <1>4. NodeInv
    <2>1. tries \in Nat /\ resent \in BOOLEAN /\ out = "none"
      BY DEF Init
    <2> QED
      BY <1>2, <1>3, <2>1 DEF NodeInv, HeadSent
  <1>5. Id(Announcement) \in Identity
    BY DEF Id, Announcement, Identity
  <1>6. accepted \in Seq(Identity) /\ Len(accepted) = NumRecent
    <2>1. accepted \in [1 .. NumRecent -> Identity]
      BY <1>5 DEF Init
    <2> QED
      BY <2>1, LenProperties, SeqDef
  <1>7. RingIsRecent
    BY DEF Init, RingIsRecent
  <1>8. RingInv
    BY <1>5, <1>6, <1>7 DEF Init, RingInv
  <1> QED
    BY <1>4, <1>8 DEF CollectInv

\* Every step keeps the inductive invariant.
LEMMA NextInv == CollectInv /\ [Next]_vars => CollectInv'
  <1> SUFFICES ASSUME CollectInv, [Next]_vars PROVE CollectInv'
    OBVIOUS
  <1> USE DEF CollectInv
  <1>1. ASSUME UNCHANGED <<recent, ptr, accepted>> PROVE RingInv'
    BY <1>1 DEF RingInv, RingIsRecent
  <1>2. CASE Application
    <2>1. PICK alt \in Routes \cup {NoRoute} : SendOwn(alt)
      BY <1>2, Choices DEF NodeInv, Sound
    <2> QED
      BY <1>1, <2>1, SendOwnKeeps DEF SendOwn
  <1>3. CASE SendTimer
    BY <1>1, <1>3, SendTimerKeeps DEF SendTimer, TransmitUnacked, TransmitAcked, TimedOut
  <1>4. CASE Reception
    <2>1. PICK p \in Foreign :
            \/ ReceiveDuplicate(p)
            \/ \E higher \in BOOLEAN, alt \in Routes \cup {NoRoute} :
                 Receive(p, higher, alt)
      BY <1>4, Choices DEF NodeInv, Sound
    <2>2. CASE ReceiveDuplicate(p)
      BY <1>1, <2>2 DEF ReceiveDuplicate, NodeInv, Counted, HeadSent
    <2>3. ASSUME NEW higher \in BOOLEAN, NEW alt \in Routes \cup {NoRoute},
                 Receive(p, higher, alt)
          PROVE  CollectInv'
      <3>1. Id(p) \in Identity
        BY ForeignAssumption DEF ForeignAssumption, Packet, Id, Identity
      <3>2. Remember(p)
        BY <2>3 DEF Receive
      <3> QED
        BY <2>3, <3>1, <3>2, ReceiveKeeps, RememberKeeps
    <2> QED
      BY <2>1, <2>2, <2>3
  <1>5. CASE Routing
    BY <1>1, <1>5, RoutingKeeps DEF Routing, HearAnnouncement, AgeOut
  <1>6. CASE Advertising
    BY <1>1, <1>6, AdvertisingKeeps DEF Advertising, Advertise, AdvertisementLeaves
  <1>7. CASE UNCHANGED vars
    BY <1>1, <1>7 DEF vars, NodeInv, Counted, HeadSent
  <1> QED
    BY <1>2, <1>3, <1>4, <1>5, <1>6, <1>7 DEF Next

LEMMA InvAlways == Spec => []CollectInv
  BY InitInv, NextInv, PTL DEF Spec

\* The collection layer's state has its type in every reachable state, for
\* every pool, queue and ring size.
THEOREM TypeCorrect == Spec => []TypeOK
  <1>1. CollectInv => TypeOK
    BY DEF CollectInv, NodeInv, RingInv, Sound, Accounted, State, TypeOK, Identity
  <1> QED
    BY <1>1, InvAlways, PTL

\* No buffer of the pool is lost or freed twice.
THEOREM NoLeakHolds == Spec => []NoLeak
  <1>1. CollectInv => NoLeak
    BY DEF CollectInv, NodeInv, Sound, Accounted, Used, NoLeak
  <1> QED
    BY <1>1, InvAlways, PTL

\* The ring holds the last NumRecent accepted packets.
THEOREM RingIsRecentHolds == Spec => []RingIsRecent
  <1>1. CollectInv => RingIsRecent
    BY DEF CollectInv, RingInv
  <1> QED
    BY <1>1, InvAlways, PTL

\* A packet is given up only after all its transmissions.
THEOREM GivesUpOnlyAfterAllHolds == Spec => GivesUpOnlyAfterAll
  <1>1. CollectInv /\ [Next]_vars => [out' = "timedout" => tries = c.buf.max + 1]_vars
    <2> SUFFICES ASSUME CollectInv, Next, out' = "timedout"
                 PROVE  tries = c.buf.max + 1
      OBVIOUS
    <2>1. c.is_tx = 1 /\ c.rxmit > c.buf.max
      BY DEF Next, Application, SendOwn, SendTimer, TransmitUnacked, TransmitAcked,
             TimedOut, Exhausted, Reception, ReceiveDuplicate, Receive, Routing,
             HearAnnouncement, AgeOut, Advertising, Advertise, AdvertisementLeaves
    <2>2. /\ tries = c.rxmit /\ c.rxmit \in Nat /\ c.buf \in Packet
          /\ c.rxmit <= c.buf.max + 1
      BY <2>1 DEF CollectInv, NodeInv, Counted, Sound, State
    <2>3. c.buf.max \in Nat
      BY <2>2 DEF Packet
    <2> QED
      BY <2>1, <2>2, <2>3
  <1> QED
    BY <1>1, InvAlways, PTL DEF Spec, GivesUpOnlyAfterAll

-----------------------------------------------------------------------------
(***************************************************************************)
(* Forwarding what was received.                                           *)
(***************************************************************************)

\* Neither sending nor announcing changes the queue or the metric.
LEMMA SendQueuedFields ==
  ASSUME NEW s \in State, NEW alt
  PROVE  /\ SendQueued(s, alt).queue = s.queue
         /\ SendQueued(s, alt).rtmetric = s.rtmetric
  <1> DEFINE t == [s EXCEPT !.packetbuf = Head(s.queue),
                            !.best = AvoidCycle(@, Head(s.queue), alt)]
             u == [t EXCEPT !.forwarding = 1]
  <1>1. /\ t.queue = s.queue /\ t.rtmetric = s.rtmetric
        /\ u.queue = s.queue /\ u.rtmetric = s.rtmetric /\ DOMAIN u = DOMAIN s
    BY DEF State
  <1>2. {"queue", "rtmetric"} \subseteq DOMAIN s
    BY DEF State
  <1>3. SendQueued(s, alt) \in {s, t, RelunicastSend(u)}
    BY DEF SendQueued
  <1> HIDE DEF t, u
  <1>4. RelunicastSend(u).queue = u.queue /\ RelunicastSend(u).rtmetric = u.rtmetric
    BY <1>1, <1>2 DEF RelunicastSend
  <1> QED
    BY <1>1, <1>3, <1>4

LEMMA UpdateMetricFields ==
  ASSUME NEW s \in State, Sound(s), NEW alt
  PROVE  /\ UpdateMetric(s, alt).queue = s.queue
         /\ \/ UpdateMetric(s, alt) = s
            \/ UpdateMetric(s, alt).rtmetric = RTMETRIC_MAX
            \/ UpdateMetric(s, alt).rtmetric # s.rtmetric
  <1> DEFINE t == [s EXCEPT !.rtmetric = s.best.cost]
             a == Announce(t)
  <1>1. s.best.cost \in Cost \cup {RTMETRIC_MAX}
    BY RouteValues DEF State
  <1>2. t \in State /\ t.queue = s.queue /\ t.rtmetric = s.best.cost /\ Sound(t)
    BY <1>1 DEF Sound, State, Accounted, Busy
  <1>3. \/ UpdateMetric(s, alt) = s
        \/ /\ UpdateMetric(s, alt) \in {a, SendQueued(a, alt)}
           /\ s.best.cost = RTMETRIC_MAX \/ s.best.cost # s.rtmetric
    BY DEF UpdateMetric, NoRoute
  <1> HIDE DEF t
  <1>4. a \in State /\ a.queue = s.queue /\ a.rtmetric = s.best.cost
    BY <1>2, AnnounceKeeps DEF Sound, Announce, State
  <1> HIDE DEF a
  <1>5. SendQueued(a, alt).queue = a.queue /\ SendQueued(a, alt).rtmetric = a.rtmetric
    BY <1>4, SendQueuedFields
  <1> QED
    BY <1>3, <1>4, <1>5

\* For every pool and queue size, what is put on the queue is what was received,
\* unless the metric has changed with it.
THEOREM ForwardsWhatItReceivesHolds == Spec => ForwardsWhatItReceives
  <1> DEFINE Forwards ==
        (/\ accepted' # accepted
         /\ Len(c'.queue) > Len(c.queue)
         /\ c'.rtmetric = c.rtmetric) =>
          Id(c'.queue[Len(c'.queue)]) = accepted'[NumRecent]
  <1>1. CollectInv /\ [Next]_vars => [Forwards]_vars
    <2> SUFFICES ASSUME CollectInv, Next, accepted' # accepted,
                        Len(c'.queue) > Len(c.queue), c'.rtmetric = c.rtmetric
                 PROVE  Id(c'.queue[Len(c'.queue)]) = accepted'[NumRecent]
      OBVIOUS
    <2>1. PICK p \in Foreign, higher \in BOOLEAN, alt \in Routes \cup {NoRoute} :
            Receive(p, higher, alt)
      <3>1. PICK p \in Foreign : ReceiveDuplicate(p) \/
                \E higher \in BOOLEAN, alt \in Routes \cup {NoRoute} : Receive(p, higher, alt)
        <4>1. c \in State
          BY DEF CollectInv, NodeInv, Sound
        <4>2. Reception
          BY DEF Next, Application, SendOwn, SendTimer, TransmitUnacked, TransmitAcked,
                 TimedOut, Routing, HearAnnouncement, AgeOut, Advertising, Advertise,
                 AdvertisementLeaves
        <4> QED
          BY <4>1, <4>2, Choices
      <3> QED
        BY <3>1 DEF ReceiveDuplicate
    <2> DEFINE s == [c EXCEPT !.packetbuf = p]
               t == IF higher THEN s ELSE UpdateMetric(s, alt)
    <2>2. /\ c \in State /\ Sound(c) /\ c.queue \in Seq(Packet) /\ p \in Packet
          /\ alt \in Routes \cup {NoRoute}
      BY ForeignAssumption DEF CollectInv, NodeInv, Sound, State, ForeignAssumption
    <2>3. /\ s \in State /\ Sound(s) /\ s.queue = c.queue /\ s.rtmetric = c.rtmetric
          /\ s.packetbuf = p
      BY <2>2 DEF State, Sound, Accounted, Busy, HeadSent, BufferedPacket
    <2>4. c' = IF t.rtmetric \notin {SINK_METRIC, RTMETRIC_MAX} /\ HasRoom(t)
               THEN Settle(SendQueued(Enqueue(t), alt)) ELSE Settle(t)
      BY <2>1 DEF Receive
    <2>5. accepted' = Append(Tail(accepted), Id(p))
      BY <2>1 DEF Receive, Remember
    <2> HIDE DEF s
    <2>6. /\ t \in State /\ t.queue = c.queue /\ Sound(t) /\ t.packetbuf \in Packet
          /\ t = s \/ t.rtmetric = RTMETRIC_MAX \/ t.rtmetric # c.rtmetric
      BY <2>2, <2>3, UpdateMetricFields, UpdateMetricKeeps DEF Sound
    <2> HIDE DEF t
    <2>7. t.rtmetric \notin {SINK_METRIC, RTMETRIC_MAX} /\ HasRoom(t)
      BY <2>4, <2>6, LenProperties DEF Settle, State
    <2>8. /\ Enqueue(t) \in State /\ Enqueue(t).queue = Append(t.queue, t.packetbuf)
          /\ Enqueue(t).rtmetric = t.rtmetric
      BY <2>6, <2>7, EnqueueKeeps DEF Sound, Enqueue, State
    <2>9. /\ SendQueued(Enqueue(t), alt).queue = Append(c.queue, t.packetbuf)
          /\ SendQueued(Enqueue(t), alt).rtmetric = t.rtmetric
          /\ SendQueued(Enqueue(t), alt) \in State
      BY <2>6, <2>7, <2>8, <2>2, SendQueuedFields, SendQueuedKeeps, EnqueueKeeps DEF Sound
    <2>10. c'.queue = Append(c.queue, t.packetbuf) /\ c'.rtmetric = t.rtmetric
      BY <2>4, <2>7, <2>9 DEF Settle, State
    <2>11. t.packetbuf = p
      BY <2>3, <2>6, <2>7, <2>10
    <2>12. c'.queue[Len(c'.queue)] = p
      BY <2>2, <2>10, <2>11, AppendProperties
    <2>13. accepted \in Seq(Identity) /\ Len(accepted) = NumRecent /\ accepted # <<>>
      BY EmptySeq DEF CollectInv, RingInv
    <2>14. accepted'[NumRecent] = Id(p)
      <3>1. Id(p) \in Identity
        BY <2>1, ForeignAssumption DEF ForeignAssumption, Packet, Id, Identity
      <3>2. Tail(accepted) \in Seq(Identity) /\ Len(Tail(accepted)) = NumRecent - 1
        BY <2>13, TailValues
      <3> QED
        BY <2>5, <3>1, <3>2, AppendProperties
    <2> QED
      BY <2>12, <2>14
  <1> QED
    BY <1>1, InvAlways, PTL DEF Spec, ForwardsWhatItReceives

-----------------------------------------------------------------------------
(***************************************************************************)
(* The layer is a queue (ForwardQueue).                                    *)
(***************************************************************************)

\* Transmissions are counted only while there is something to transmit.
Rested == c.is_tx = 0 => tries = 0

\* Outside the timer of relunicast the queue stays or grows at its end.
Grows(s, t) ==
  \/ t.queue = s.queue
  \/ /\ Len(s.queue) < MaxQueue
     /\ \E p \in Packet : t.queue = Append(s.queue, p)

LEMMA SettleQueue ==
  ASSUME NEW s \in State
  PROVE  Settle(s).queue = s.queue
  BY DEF Settle, State

\* A packet enters the queue at its end, and what SendQueued starts changes nothing
\* of the queue.
LEMMA EnqueueGrows ==
  ASSUME NEW s, Sound(s), HasRoom(s), s.packetbuf \in Packet,
         NEW alt \in Routes \cup {NoRoute}
  PROVE  /\ Grows(s, Settle(Enqueue(s)))
         /\ Grows(s, Settle(SendQueued(Enqueue(s), alt)))
  <1> DEFINE e == Enqueue(s)
             n == SendQueued(e, alt)
  <1>1. e \in State /\ n \in State /\ Sound(e)
    BY EnqueueKeeps, SendQueuedKeeps DEF Sound
  <1>2. e.queue = Append(s.queue, s.packetbuf) /\ Len(s.queue) < MaxQueue
    BY DEF Sound, State, Enqueue, HasRoom
  <1> HIDE DEF e
  <1>3. n.queue = e.queue
    BY <1>1, SendQueuedFields
  <1> HIDE DEF n
  <1>4. Settle(e).queue = e.queue /\ Settle(n).queue = e.queue
    BY <1>1, <1>3, SettleQueue
  <1> QED
    BY <1>2, <1>4 DEF Grows, e, n

LEMMA QueueGrows ==
  ASSUME NodeInv, Application \/ Reception \/ Routing \/ Advertising
  PROVE  Grows(c, c')
  <1>1. Sound(c) /\ c \in State
    BY DEF NodeInv, Sound
  <1>2. ASSUME NEW alt \in Routes \cup {NoRoute}, SendOwn(alt)
        PROVE  Grows(c, c')
    <2> DEFINE s == [c EXCEPT !.packetbuf = OwnPacket(c.seqno),
                              !.seqno = (@ + 1) % SeqMod]
    <2>1. /\ alt \in Routes \cup {NoRoute} /\ OwnPacket(c.seqno) \in Packet
          /\ (c.seqno + 1) % SeqMod \in 0 .. SeqMod - 1
      BY <1>1, PacketValues DEF State
    <2>2. /\ s \in State /\ Sound(s) /\ s.queue = c.queue /\ s.packetbuf \in Packet
      BY <1>1, <2>1 DEF State, Sound, Accounted, Busy, HeadSent, BufferedPacket
    <2>3. \/ c' = Settle(s)
          \/ HasRoom(s) /\ c' \in {Settle(Enqueue(s)), Settle(SendQueued(Enqueue(s), alt))}
      BY <1>2 DEF SendOwn
    <2> HIDE DEF s
    <2>4. Grows(s, Settle(s))
      BY <2>2, SettleQueue DEF Grows
    <2>5. Grows(s, c')
      BY <2>1, <2>2, <2>3, <2>4, EnqueueGrows
    <2> QED
      BY <2>2, <2>5 DEF Grows
  <1>3. ASSUME NEW p \in Foreign, NEW higher \in BOOLEAN,
               NEW alt \in Routes \cup {NoRoute}, Receive(p, higher, alt)
        PROVE  Grows(c, c')
    <2> DEFINE s == [c EXCEPT !.packetbuf = p]
               t == IF higher THEN s ELSE UpdateMetric(s, alt)
    <2>1. alt \in Routes \cup {NoRoute} /\ p \in Packet
      BY ForeignAssumption DEF ForeignAssumption
    <2>2. /\ s \in State /\ Sound(s) /\ s.queue = c.queue /\ s.packetbuf \in Packet
      BY <1>1, <2>1 DEF State, Sound, Accounted, Busy, HeadSent, BufferedPacket
    <2>3. \/ c' = Settle(t)
          \/ HasRoom(t) /\ c' = Settle(SendQueued(Enqueue(t), alt))
      BY <1>3 DEF Receive
    <2> HIDE DEF s
    <2>4. t \in State /\ Sound(t) /\ t.queue = c.queue /\ t.packetbuf \in Packet
      BY <2>1, <2>2, UpdateMetricFields, UpdateMetricKeeps DEF Sound
    <2> HIDE DEF t
    <2> QED
      BY <2>1, <2>3, <2>4, EnqueueGrows, SettleQueue DEF Grows
  <1>4. ASSUME NEW b \in Routes \cup {NoRoute}, NEW alt \in Routes \cup {NoRoute},
               HearAnnouncement(b, alt)
        PROVE  Grows(c, c')
    <2> DEFINE s == [c EXCEPT !.best = b]
    <2>1. s \in State /\ Sound(s) /\ s.queue = c.queue /\ alt \in Routes \cup {NoRoute}
      BY <1>1 DEF State, Sound, Accounted, Busy, HeadSent
    <2>2. c' = Settle(UpdateMetric(s, alt))
      BY <1>4 DEF HearAnnouncement
    <2> HIDE DEF s
    <2>3. UpdateMetric(s, alt) \in State /\ UpdateMetric(s, alt).queue = s.queue
      BY <2>1, UpdateMetricFields, UpdateMetricKeeps DEF Sound
    <2> QED
      BY <2>1, <2>2, <2>3, SettleQueue DEF Grows
  <1>5. ASSUME Advertise
        PROVE  Grows(c, c')
    <2>1. Announce(c) \in State /\ Announce(c).queue = c.queue
      BY <1>1, AnnounceKeeps DEF Sound, Announce, State
    <2> QED
      BY <1>5, <2>1, SettleQueue DEF Advertise, Grows
  <1>6. ASSUME NEW b \in Routes \cup {NoRoute}, AgeOut(b)
        PROVE  Grows(c, c')
    BY <1>1, <1>6 DEF AgeOut, Grows, State
  <1>7. ASSUME AdvertisementLeaves
        PROVE  Grows(c, c')
    BY <1>1, <1>7 DEF AdvertisementLeaves, Grows, State
  <1>8. ASSUME NEW p, ReceiveDuplicate(p)
        PROVE  Grows(c, c')
    BY <1>8 DEF ReceiveDuplicate, Grows
  <1> QED
    BY <1>1, <1>2, <1>3, <1>4, <1>5, <1>6, <1>7, <1>8, Choices DEF Advertising

\* relunicast goes on with what it transmits, or takes up a packet and counts from zero.
LEMMA QuietStep ==
  ASSUME NodeInv, Application \/ Reception \/ Routing \/ Advertising
  PROVE  /\ KeepsTransmission(c, c')
         /\ tries' = IF c'.is_tx = c.is_tx THEN tries ELSE 0
         /\ out' = "none" /\ UNCHANGED resent
  <1>1. c \in State
    BY DEF NodeInv, Sound
  <1>2. CASE Application
    BY <1>1, <1>2, Choices, SendOwnKeeps DEF SendOwn
  <1>3. CASE Reception
    <2>1. ASSUME NEW p \in Foreign, ReceiveDuplicate(p)
          PROVE  c' = c /\ tries' = tries /\ out' = "none" /\ UNCHANGED resent
      BY <2>1 DEF ReceiveDuplicate
    <2>2. KeepsTransmission(c, c)
      BY <1>1 DEF KeepsTransmission, State, Bit
    <2>3. ASSUME NEW p \in Foreign, NEW higher \in BOOLEAN,
                 NEW alt \in Routes \cup {NoRoute}, Receive(p, higher, alt)
          PROVE  /\ KeepsTransmission(c, c')
                 /\ tries' = IF c'.is_tx = c.is_tx THEN tries ELSE 0
                 /\ out' = "none" /\ UNCHANGED resent
      BY <2>3, ReceiveKeeps DEF Receive
    <2> QED
      BY <1>1, <1>3, <2>1, <2>2, <2>3, Choices
  <1>4. CASE Routing
    <2>1. ASSUME NEW b, AgeOut(b)
          PROVE  c'.is_tx = c.is_tx /\ tries' = tries /\ out' = "none" /\ UNCHANGED resent
      BY <1>1, <2>1 DEF AgeOut, State
    <2> QED
      BY <1>4, <2>1, RoutingKeeps, Choices, <1>1 DEF HearAnnouncement
  <1>5. CASE Advertising
    <2>1. Settle(Announce(c)).is_tx = c.is_tx
      BY AnnounceKeeps, SettleKeeps DEF NodeInv
    <2>2. AdvertisementLeaves => c'.is_tx = c.is_tx
      BY <1>1 DEF AdvertisementLeaves, State
    <2> QED
      BY <1>5, <2>1, <2>2, AdvertisingKeeps DEF Advertising, Advertise, AdvertisementLeaves
  <1> QED
    BY <1>2, <1>3, <1>4, <1>5

\* The packet that is finished is the oldest, and the only one that leaves.
LEMMA FinishQueue ==
  ASSUME NEW s, Sound(s), NEW b \in Routes \cup {NoRoute},
         NEW alt \in Routes \cup {NoRoute}, s.queue # <<>>
  PROVE  Finish(s, b, alt).queue = Tail(s.queue)
  <1> DEFINE i == [s EXCEPT !.is_tx = 0, !.forwarding = 0, !.best = b]
             t == UpdateMetric(i, alt)
             d == Dequeue(t)
             n == SendQueued(d, alt)
  <1>1. s \in State /\ 0 \in Bit
    BY DEF Sound, Bit
  <1>2. i \in State /\ i.queue = s.queue /\ Sound(i)
    <2>1. /\ i \in State /\ i.is_tx = 0
          /\ i.queue = s.queue /\ i.buf = s.buf /\ i.adv = s.adv
          /\ i.queuebuf_len = s.queuebuf_len
      BY <1>1 DEF State
    <2> HIDE DEF i
    <2> QED
      BY <2>1 DEF Sound, Accounted, Busy
  <1>3. Finish(s, b, alt) = Settle(n)
    BY DEF Finish, Updated
  <1> HIDE DEF i
  <1>4. t.queue = s.queue /\ Sound(t) /\ t \in State
    BY <1>2, UpdateMetricKeeps, UpdateMetricFields DEF Sound
  <1> HIDE DEF t
  <1>5. d.queue = Tail(s.queue) /\ d \in State /\ Sound(d)
    BY <1>4, DequeueKeeps DEF Dequeue, State, Sound
  <1> HIDE DEF d
  <1>6. n.queue = Tail(s.queue) /\ n \in State
    BY <1>5, SendQueuedFields, SendQueuedKeeps DEF Sound
  <1> HIDE DEF n
  <1> QED
    BY <1>3, <1>6, SettleQueue

\* What a step of the layer is to the queue.
LEMMA QueueStep ==
  ASSUME CollectInv, Rested, [Next]_vars
  PROVE  [Queue!Next]_(Queue!vars) /\ Rested'
  <1> DEFINE Air(s) == IF s.is_tx = 1 THEN s.buf ELSE None
  <1>1. CollectInv'
    BY NextInv
  <1>2. /\ Sound(c) /\ Sound(c') /\ c.queue \in Seq(Packet) /\ c'.queue \in Seq(Packet)
        /\ c.is_tx \in {0, 1} /\ c'.is_tx \in {0, 1} /\ tries \in Nat
        /\ resent \in BOOLEAN /\ resent' \in BOOLEAN
    BY <1>1 DEF CollectInv, NodeInv, Sound, State, Bit
  <1>0. Rested'
    <2>1. Application \/ Reception \/ Routing \/ Advertising => Rested'
      BY <1>2, QuietStep DEF CollectInv, Rested, KeepsTransmission
    <2>2. TransmitUnacked => Rested'
      BY <1>2 DEF TransmitUnacked, Rested, Sound, State
    <2>3. \A b, alt : TransmitAcked(b, alt) \/ TimedOut(b, alt) => Rested'
      BY DEF TransmitAcked, TimedOut, Rested
    <2>4. UNCHANGED vars => Rested'
      BY DEF vars, Rested
    <2> QED
      BY <2>1, <2>2, <2>3, <2>4 DEF Next, SendTimer
  <1>0a. CASE resent'
    BY <1>0, <1>0a DEF Queue!Next
  <1>0b. SUFFICES ASSUME ~resent', ~UNCHANGED vars
                  PROVE  Queue!Next
    <2>1. UNCHANGED vars => UNCHANGED Queue!vars
      BY DEF vars, Queue!vars
    <2> QED
      BY <1>0, <1>0a, <2>1
  <1>0c. ~resent /\ UNCHANGED resent
    <2>1. Application \/ Reception \/ Routing \/ Advertising => UNCHANGED resent
      BY QuietStep DEF CollectInv
    <2>2. TransmitUnacked => UNCHANGED resent
      BY DEF TransmitUnacked
    <2>3. \A b, alt : TransmitAcked(b, alt) \/ TimedOut(b, alt) => ~resent
      BY <1>0b DEF TransmitAcked, TimedOut
    <2> QED
      BY <1>0b, <1>2, <2>1, <2>2, <2>3 DEF Next, SendTimer
  <1>0d. HeadSent(c) /\ HeadSent(c')
    BY <1>0b, <1>0c, <1>1 DEF CollectInv, NodeInv
  <1>3. c.is_tx = 1 => /\ c.buf = Head(c.queue) /\ c.queue # <<>> /\ c.buf \in Packet
                       /\ tries = c.rxmit /\ tries <= c.buf.max + 1
    BY <1>0d, <1>2 DEF Sound, Busy, HeadSent, CollectInv, NodeInv, Counted
  <1>4. c'.is_tx = 1 => /\ c'.buf = Head(c'.queue) /\ c'.queue # <<>> /\ c'.buf \in Packet
    BY <1>0d, <1>2 DEF Sound, Busy, HeadSent
  <1>5. None \notin Packet
    BY PacketValues
  <1>6. CASE Application \/ Reception \/ Routing \/ Advertising
    <2>1. /\ KeepsTransmission(c, c') /\ Grows(c, c') /\ out' = "none"
          /\ tries' = IF c'.is_tx = c.is_tx THEN tries ELSE 0
      BY <1>6, QuietStep, QueueGrows DEF CollectInv
    <2>2. c.is_tx = 1 => Air(c') = Air(c) /\ tries' = tries /\ c'.is_tx = 1
      BY <2>1 DEF KeepsTransmission
    <2>3. c.is_tx = 0 => /\ Air(c) = None /\ tries' = 0
                         /\ Air(c') = None \/ (c'.queue # <<>> /\ Air(c') = Head(c'.queue))
      BY <1>2, <1>4, <2>1 DEF Rested
    <2>4. CASE c'.queue = c.queue
      <3>1. CASE c.is_tx = 1
        <4>1. Queue!Other
          BY <2>1, <2>2, <2>4, <3>1 DEF Queue!Other
        <4> QED
          BY <1>0c, <4>1 DEF Queue!Next
      <3>2. CASE c.is_tx = 0 /\ Air(c') = None
        <4>1. Queue!Other
          BY <2>1, <2>3, <2>4, <3>2 DEF Queue!Other, Rested
        <4> QED
          BY <1>0c, <4>1 DEF Queue!Next
      <3>3. CASE c.is_tx = 0 /\ Air(c') # None
        <4>1. Queue!Start
          BY <2>1, <2>3, <2>4, <3>3 DEF Queue!Start
        <4> QED
          BY <1>0c, <4>1 DEF Queue!Next
      <3> QED
        BY <1>2, <3>1, <3>2, <3>3
    <2>5. ASSUME NEW p \in Packet, Len(c.queue) < MaxQueue, c'.queue = Append(c.queue, p)
          PROVE  Queue!Next
      <3>1. c'.queue # <<>> /\ Queue!Newest(c'.queue) = p
        BY <1>2, <2>5, AppendProperties DEF Queue!Newest
      <3>2. Queue!Accept(p)
        BY <1>2, <1>3, <1>5, <2>1, <2>2, <2>3, <2>5 DEF Queue!Accept, Queue!TakeUp
      <3> QED
        BY <1>0c, <3>1, <3>2 DEF Queue!Next
    <2> QED
      BY <2>1, <2>4, <2>5 DEF Grows
  <1>7. CASE TransmitUnacked
    <2>1. /\ c.is_tx = 1 /\ c'.is_tx = 1 /\ c'.queue = c.queue /\ c'.buf = c.buf
          /\ tries' = tries + 1 /\ out' = "none" /\ ~Exhausted
      BY <1>2, <1>7 DEF TransmitUnacked, Sound, State
    <2>2. tries <= c.buf.max
      BY <1>2, <1>3, <2>1, InFlightIsPacket DEF Exhausted
    <2>3. Queue!Retry
      BY <1>3, <1>5, <2>1, <2>2 DEF Queue!Retry
    <2> QED
      BY <1>0c, <2>3 DEF Queue!Next
  <1>8. ASSUME NEW how \in {"acked", "timedout"}, NEW s, Sound(s),
               s.queue = c.queue, c.is_tx = 1,
               NEW b \in Routes \cup {NoRoute}, NEW alt \in Routes \cup {NoRoute},
               c' = Finish(s, b, alt), tries' = 0, out' = how,
               IF how = "acked" THEN ~Exhausted ELSE Exhausted
        PROVE  Queue!Next
    <2>1. c'.queue = Tail(c.queue)
      BY <1>3, <1>8, FinishQueue
    <2>2. IF how = "acked" THEN tries <= c.buf.max ELSE tries = c.buf.max + 1
      BY <1>2, <1>3, <1>8, InFlightIsPacket DEF Exhausted
    <2>3. Queue!Leave(how)
      BY <1>2, <1>3, <1>4, <1>8, <2>1, <2>2 DEF Queue!Leave, Queue!TakeUp
    <2> QED
      BY <1>0c, <2>3 DEF Queue!Next
  <1>9. ASSUME NEW b \in Routes \cup {NoRoute}, NEW alt \in Routes \cup {NoRoute},
               TransmitAcked(b, alt)
        PROVE  Queue!Next
    BY <1>2, <1>8, <1>9 DEF TransmitAcked
  <1>10. ASSUME NEW b \in Routes \cup {NoRoute}, NEW alt \in Routes \cup {NoRoute},
                TimedOut(b, alt)
         PROVE  Queue!Next
    <2> DEFINE s == [c EXCEPT !.rxmit = @ - 1]
    <2>1. c.is_tx = 1 /\ Exhausted /\ c.rxmit \in Nat /\ c.buf.max \in Nat
      BY <1>2, <1>10, InFlightIsPacket DEF TimedOut, Sound, State
    <2>2. c.rxmit - 1 \in Nat
      BY <2>1 DEF Exhausted
    <2>3. /\ s \in State
          /\ s.queue = c.queue /\ s.buf = c.buf /\ s.adv = c.adv
          /\ s.queuebuf_len = c.queuebuf_len /\ s.forwarding = c.forwarding
          /\ s.is_tx = c.is_tx
      BY <1>2, <2>2 DEF Sound, State
    <2>4. c' = Finish(s, b, alt) /\ tries' = 0 /\ out' = "timedout"
      BY <1>10 DEF TimedOut
    <2> HIDE DEF s
    <2>5. Sound(s)
      BY <1>2, <2>3 DEF Sound, Accounted, Busy
    <2> QED
      BY <1>8, <2>1, <2>3, <2>4, <2>5
  <1> QED
    BY <1>0b, <1>2, <1>6, <1>7, <1>9, <1>10, Choices DEF Next, Sound

\* The collection layer is a queue: for every pool and queue size, and whatever routes
\* and announcements do, packets are transmitted and leave in the order in which they
\* were accepted, each when it is acknowledged or after all its transmissions.  That
\* ends when the end of a transmission restarts the packet it is about to remove.
THEOREM QueueRefinement == Spec => ImplementsQueue
  <1>1. Init => Queue!Init /\ Rested
    BY DEF Init, Queue!Init, Rested
  <1>2. CollectInv /\ Rested /\ [Next]_vars => [Queue!Next]_(Queue!vars) /\ Rested'
    BY QueueStep
  <1> QED
    BY <1>1, <1>2, InvAlways, PTL DEF Spec, ImplementsQueue, Queue!Spec
=============================================================================
