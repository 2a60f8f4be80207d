----------------------------- MODULE GlossyFlood -----------------------------
(***************************************************************************)
(* One Glossy flood on the level of slots (glossy.c).  The initiator sends *)
(* a packet; who receives it sends it on in the next slot, at the same     *)
(* time as all others that received it with him; so hosts transmit in      *)
(* every other slot, until they have done so tx_max times.  The state      *)
(* machine is driven by interrupts: the two edges of the radio's SFD       *)
(* signal, which rises when a packet starts and falls when it ends, and    *)
(* the initiator's timeout.                                                *)
(*                                                                         *)
(* Hosts transmit within microseconds of each other, so the rising edges   *)
(* of a slot are one step for all hosts, and so are the falling edges; each*)
(* host may miss, abort or fail to decode what is sent.  glossy_stop()     *)
(* comes at each host when its own timer says so.  Two floods in a row     *)
(* have nothing in common but the hosts' data, which the later one finds   *)
(* outdated.  Timing within a slot and bootstrapping are left out.         *)
(***************************************************************************)
EXTENDS Naturals, FiniteSets

CONSTANTS
  Host, Initiator,
  Link,          \* pairs of hosts in radio range
  TxMax,         \* GLOSSY_N
  Timeout,       \* GLOSSY_INITIATOR_TIMEOUT, in slots
  MaxSlots,      \* GLOSSY_DURATION, in slots
  RestartSlot,   \* slot field of a repeated first transmission (200)
  SlotMod,       \* 2^8: the slot field is a byte
  Unknown        \* no reference time yet

ASSUME FloodAssumption ==
  /\ Initiator \in Host
  /\ Link \subseteq Host \X Host
  /\ TxMax \in Nat \ {0}
  /\ Timeout \in Nat \ {0, 1}
  /\ MaxSlots \in Nat /\ RestartSlot \in Nat /\ SlotMod \in Nat
  /\ MaxSlots < RestartSlot /\ RestartSlot + MaxSlots < SlotMod
  /\ Unknown \notin Nat

VARIABLES
  sync,       \* the flood carries a slot field and gives a reference time
  phase,      \* between two slots ("gap") or during one ("air")
  now,        \* the number of the slot
  host,       \* of every host, its state (HostState)
  timer,      \* slots until the initiator's timeout; Off if it is not armed
  stopped,    \* hosts that have called glossy_stop
  sent,       \* history: transmissions of every host
  restarts,   \* history: first transmissions repeated
  cut,        \* history: hosts that stopped between a first reception and its relay
  lossless    \* history: nothing has been lost, and nobody has stopped

vars == <<sync, phase, now, host, timer, stopped, sent, restarts, cut, lossless>>

\* Status; both kinds of GLOSSY_STATUS_OFF are "off".
Status == {"off", "waiting", "receiving", "aborted", "received", "transmitting"}

\* The packet buffer holds the flooded packet or what is left of a bad reception; the
\* data of the application is that of this flood or outdated.
HostState == [status : Status, packet : {"flooded", "junk"}, slot : 0 .. SlotMod - 1,
              data : {"flooded", "outdated"}, rx_cnt : Nat, tx_cnt : 0 .. TxMax,
              ref : Nat \cup {Unknown}]

Off == MaxSlots + Timeout + 1

\* glossy_start.
Started(h) ==
  [status |-> IF h = Initiator THEN "received" ELSE "waiting",
   packet |-> IF h = Initiator THEN "flooded" ELSE "junk",
   slot   |-> 0,
   data   |-> IF h = Initiator THEN "flooded" ELSE "outdated",
   rx_cnt |-> 0, tx_cnt |-> 0, ref |-> Unknown]

Init ==
  /\ sync \in BOOLEAN
  /\ phase = "gap" /\ now = 0
  /\ host = [h \in Host |-> Started(h)]
  /\ timer = Timeout
  /\ stopped = {}
  /\ sent = [h \in Host |-> 0] /\ restarts = 0 /\ cut = {} /\ lossless = TRUE

-----------------------------------------------------------------------------
Near(g, h) == g # h /\ (<<g, h>> \in Link \/ <<h, g>> \in Link)
In(status) == {h \in Host : host[h].status = status}

\* Fault: the data is copied when the second packet is relayed.
BeginTx_CopiesSecond(h) ==
  LET s == host[h]
  IN  [s EXCEPT !.status = "transmitting",
                !.data = IF h # Initiator /\ s.rx_cnt = 2 THEN s.packet ELSE @]

\* glossy_begin_tx.  The reference time is that of slot 0, reckoned from the packet
\* received in the slot before this one; not from one that stems from a restart.
BeginTx(h) ==
  LET s == host[h]
  IN  [s EXCEPT !.status = "transmitting",
                !.data = IF h # Initiator /\ s.rx_cnt = 1 THEN s.packet ELSE @,
                !.ref = IF sync /\ @ = Unknown /\ s.rx_cnt > 0 /\ s.slot < RestartSlot
                        THEN now - s.slot ELSE @]

\* Fault: only relays are counted as transmissions.
EndTx_CountsRelays(h) ==
  LET s == host[h]
      n == s.tx_cnt + (IF s.rx_cnt > 0 THEN 1 ELSE 0)
      last == n = TxMax /\ (~sync \/ TxMax > (IF h = Initiator THEN 1 ELSE 0))
  IN  [s EXCEPT !.status = IF last THEN "off" ELSE "waiting", !.tx_cnt = n]

\* glossy_end_tx.
EndTx(h) ==
  LET s == host[h]
      last == s.tx_cnt + 1 = TxMax /\ (~sync \/ TxMax > (IF h = Initiator THEN 1 ELSE 0))
  IN  [s EXCEPT !.status = IF last THEN "off" ELSE "waiting", !.tx_cnt = @ + 1]

\* Fault: the slot field is incremented only when the packet is received first.
EndRx_IncrementsOnce(h, p) ==
  LET s == host[h]
  IN  [s EXCEPT !.status = IF s.tx_cnt = TxMax THEN "off" ELSE "received",
                !.packet = p.packet,
                !.slot = IF sync /\ s.rx_cnt = 0 THEN (p.slot + 1) % SlotMod ELSE p.slot,
                !.rx_cnt = @ + 1]

\* Fault: the packet is counted but not relayed.
EndRx_NotRelayed(h, p) ==
  [host[h] EXCEPT !.status = "waiting", !.packet = p.packet, !.rx_cnt = @ + 1]

\* glossy_end_rx at h, for a packet p with a good checksum.
EndRx(h, p) ==
  LET s == host[h]
  IN  [s EXCEPT !.status = IF s.tx_cnt = TxMax THEN "off" ELSE "received",
                !.packet = p.packet,
                !.slot = IF sync THEN (p.slot + 1) % SlotMod ELSE p.slot,
                !.rx_cnt = @ + 1]

\* Fault: packets are received in the buffer of the application.
Spoilt_InPlace(h, status) ==
  [host[h] EXCEPT !.status = status, !.packet = "junk", !.data = "outdated"]

\* A reception that is given up, at its beginning (radio_abort_rx: wrong length or
\* header, time out) or at its end (bad checksum, interrupt served too late).
Spoilt(h, status) == [host[h] EXCEPT !.status = status, !.packet = "junk"]

-----------------------------------------------------------------------------
(***************************************************************************)
(* A slot.  Bound: MaxSlots.                                               *)
(***************************************************************************)
\* The rising edges: hosts in R begin to receive, those in A abort at once, others do
\* not notice.
SlotStarts ==
  /\ phase = "gap" /\ now < MaxSlots
  /\ LET senders == In("received")
         reached == {h \in In("waiting") : \E g \in senders : Near(g, h)}
     IN  \E R \in SUBSET reached : \E A \in SUBSET (reached \ R) :
           /\ host' = [h \in Host |->
                         IF h \in senders THEN BeginTx(h)
                         ELSE IF h \in R THEN [host[h] EXCEPT !.status = "receiving"]
                         ELSE IF h \in A THEN Spoilt(h, "aborted")
                         ELSE host[h]]
           /\ sent' = [h \in Host |-> IF h \in senders THEN sent[h] + 1 ELSE sent[h]]
           /\ lossless' = (lossless /\ R = reached)
  /\ phase' = "air"
  /\ UNCHANGED <<sync, now, timer, stopped, restarts, cut>>

\* The falling edges: those in G get the packet of one of the senders in range.
SlotEnds ==
  /\ phase = "air"
  /\ LET senders == In("transmitting")
     IN  \E G \in SUBSET In("receiving") : \E from \in [G -> senders] :
           /\ \A h \in G : Near(from[h], h)
           /\ host' = [h \in Host |->
                         IF h \in senders THEN EndTx(h)
                         ELSE IF h \in G THEN EndRx(h, host[from[h]])
                         ELSE IF h \in In("receiving") THEN Spoilt(h, "waiting")
                         ELSE IF h \in In("aborted") THEN [host[h] EXCEPT !.status = "waiting"]
                         ELSE host[h]]
           /\ timer' = IF Initiator \in G THEN Off
                       ELSE IF timer \in {0, Off} THEN timer ELSE timer - 1
           /\ lossless' = (lossless /\ G = In("receiving"))
  /\ phase' = "gap" /\ now' = now + 1
  /\ UNCHANGED <<sync, stopped, sent, restarts, cut>>

-----------------------------------------------------------------------------
(***************************************************************************)
(* The timers of the hosts.                                                *)
(***************************************************************************)
\* Fault: the repeated packet has the slot field of a first transmission.
Repeated_SlotZero(s) ==
  [s EXCEPT !.status = "received", !.packet = "flooded", !.tx_cnt = 0, !.slot = 0]

\* Fault: the value is added to the slot field.
Repeated_AddsSlot(s) ==
  [s EXCEPT !.status = "received", !.packet = "flooded", !.tx_cnt = 0,
            !.slot = IF sync THEN @ + RestartSlot ELSE @]

\* The initiator has heard nothing and sends the packet once more.
Repeated(s) ==
  [s EXCEPT !.status = "received", !.packet = "flooded", !.tx_cnt = 0,
            !.slot = IF sync THEN RestartSlot ELSE @]

\* TBCCR4 at the initiator.  During a reception the interrupt flushes it and is not
\* repeated: the timer comes round again after the flood.
InitiatorTimeout ==
  LET s == host[Initiator]
      again == s.status = "waiting" /\ s.rx_cnt = 0
  IN  /\ timer = 0 /\ Initiator \notin stopped
      /\ host' = [host EXCEPT ![Initiator] =
                    IF again THEN Repeated(s)
                    ELSE IF s.status = "off" THEN s ELSE Spoilt(Initiator, "waiting")]
      /\ timer' = IF again THEN Timeout ELSE Off
      /\ restarts' = IF again THEN restarts + 1 ELSE restarts
      /\ lossless' = FALSE
      /\ UNCHANGED <<sync, phase, now, stopped, sent, cut>>

\* glossy_stop: the flood's time is up at h.
Stop(h) ==
  /\ h \notin stopped
  /\ stopped' = stopped \cup {h}
  /\ host' = [host EXCEPT ![h].status = "off"]
  /\ cut' = IF host[h].status = "received" /\ host[h].rx_cnt = 1 THEN cut \cup {h} ELSE cut
  /\ timer' = IF h = Initiator THEN Off ELSE timer
  /\ lossless' = FALSE
  /\ UNCHANGED <<sync, phase, now, sent, restarts>>

\* The next flood.
Start ==
  /\ stopped = Host
  /\ sync' \in BOOLEAN
  /\ phase' = "gap" /\ now' = 0
  /\ host' = [h \in Host |-> Started(h)]
  /\ timer' = Timeout /\ stopped' = {}
  /\ sent' = [h \in Host |-> 0] /\ restarts' = 0 /\ cut' = {} /\ lossless' = TRUE

Next == SlotStarts \/ SlotEnds \/ InitiatorTimeout \/ (\E h \in Host : Stop(h)) \/ Start

Spec == Init /\ [][Next]_vars

-----------------------------------------------------------------------------
(***************************************************************************)
(* Properties.                                                             *)
(***************************************************************************)

\* Types of the variables.
TypeOK ==
  /\ sync \in BOOLEAN /\ phase \in {"gap", "air"} /\ now \in 0 .. MaxSlots
  /\ host \in [Host -> HostState]
  /\ timer \in 0 .. Timeout \cup {Off}
  /\ stopped \subseteq Host /\ cut \subseteq stopped
  /\ sent \in [Host -> Nat] /\ restarts \in Nat
  /\ lossless \in BOOLEAN

\* What glossy_stop() returns is the number of receptions, but the data is copied when
\* the relay starts.  A host that has counted a reception has the data of this flood,
\* unless it is between its first reception and the relay, or was stopped there: then
\* the caller takes outdated data for received.
CountedIsCopied ==
  \A h \in Host : host[h].rx_cnt > 0 /\ host[h].data = "outdated" =>
    /\ host[h].rx_cnt = 1
    /\ host[h].status = "received" \/ h \in cut

\* Glossy rests on hosts that transmit at the same time sending the same packet.  They
\* do, junk and aborted receptions notwithstanding, but for repeated first
\* transmissions, which meet the relays of an earlier one.
SamePacketInSlot ==
  \A g, h \in In("transmitting") :
    /\ host[g].packet = "flooded"
    /\ host[g].slot < RestartSlot /\ host[h].slot < RestartSlot => host[g].slot = host[h].slot

\* Every host that computes the reference time finds the start of slot 0, whichever
\* slot it first receives a packet in and whether or not the initiator repeated it.
ReferenceIsStart == \A h \in Host : host[h].ref \in {Unknown, 0}

\* A host transmits at most TxMax times, and the initiator once more for every first
\* transmission that nobody was heard to relay.
TransmitsAtMost ==
  \A h \in Host : sent[h] <= TxMax + (IF h = Initiator THEN restarts ELSE 0)

\* Hosts within k hops of the initiator.
Within[k \in Nat] ==
  IF k = 0 THEN {Initiator}
  ELSE LET W == Within[k - 1]
       IN  W \cup {h \in Host : \E g \in W : Near(g, h)}

\* The flood advances at most one hop per slot, whatever is lost, spoilt or sent
\* again, and exactly one as long as nothing is lost.
OneHopPerSlot ==
  /\ {h \in Host : host[h].rx_cnt > 0} \subseteq Within[now]
  /\ lossless /\ phase = "gap" =>
       \A h \in Within[now] \ {Initiator} : host[h].rx_cnt > 0

\* Interrupts, timeouts and bad receptions notwithstanding, the hosts together
\* implement a broadcast: the packet comes from a host in range that has it, and the
\* application gets nothing but the data of this flood, once it has been received.
Flood == INSTANCE Broadcast WITH
  Source <- Initiator, slot <- now,
  reached <- {h \in Host : h = Initiator \/ host[h].rx_cnt > 0},
  copied <- {h \in Host : host[h].data = "flooded"}

ImplementsBroadcast == Flood!Spec
=============================================================================
