-------------------------- MODULE GlossyFlood_proofs --------------------------
(***************************************************************************)
(* Theorems about GlossyFlood and their proofs.                            *)
(***************************************************************************)
EXTENDS GlossyFlood, TLAPS

Active(h) == host[h].status \in {"received", "transmitting"}

\* Transmitting and receiving happen during slots; what is about to be sent is the
\* flooded packet.
StatusInv(h) ==
  /\ host[h].status \in {"receiving", "transmitting", "aborted"} => phase = "air"
  /\ Active(h) => host[h].packet = "flooded" /\ host[h].tx_cnt < TxMax
  /\ h \in stopped => host[h].status = "off"

\* The slot field counts the slots since slot 0, or since no earlier than a restart.
SlotInv(h) ==
  /\ ~sync => host[h].slot = 0
  /\ \/ host[h].slot <= now
     \/ RestartSlot <= host[h].slot /\ host[h].slot <= RestartSlot + now
  /\ Active(h) /\ sync /\ host[h].slot < RestartSlot =>
       /\ host[h].slot = now
       /\ host[h].status = "received" => phase = "gap"
  /\ host[h].ref \in {Unknown, 0}

\* Nobody but the initiator transmits before it has received, and the first packet
\* received is relayed before the next is.
CopyInv(h) ==
  /\ h = Initiator => host[h].data = "flooded"
  /\ h # Initiator /\ host[h].rx_cnt = 0 => host[h].tx_cnt = 0 /\ ~Active(h)
  /\ host[h].rx_cnt > 0 /\ host[h].data = "outdated" =>
       host[h].rx_cnt = 1 /\ (host[h].status = "received" \/ h \in cut)

\* The initiator's timer outlasts its transmission; unless it has heard a relay it has
\* transmitted at most once since the last restart.
TimerInv ==
  LET s == host[Initiator]
  IN  /\ s.rx_cnt = 0 => s.tx_cnt <= 1 /\ (Active(Initiator) => s.tx_cnt = 0)
      /\ s.status = "received" => timer >= (IF phase = "air" THEN Timeout ELSE Timeout - 1)
      /\ s.status = "transmitting" => timer >= Timeout - 1

Restarts(h) == IF h = Initiator THEN restarts ELSE 0
SentInv(h) ==
  /\ sent[h] <= TxMax + Restarts(h)
  /\ h \notin stopped =>
       sent[h] <= host[h].tx_cnt + Restarts(h)
                    + (IF host[h].status = "transmitting" THEN 1 ELSE 0)

HostInv(h) == StatusInv(h) /\ SlotInv(h) /\ CopyInv(h) /\ SentInv(h)

FloodInv ==
  /\ TypeOK /\ TimerInv
  /\ phase = "air" => now < MaxSlots
  /\ \A h \in Host : HostInv(h)

USE FloodAssumption DEF FloodAssumption

\* What the invariant says of one host, type and all.
LEMMA OfHost ==
  ASSUME FloodInv, NEW h \in Host
  PROVE  host[h] \in HostState /\ sent[h] \in Nat /\ restarts \in Nat /\ HostInv(h)
BY DEF FloodInv, TypeOK, HostInv

LEMMA InitiallyInv == Init => FloodInv
<1> SUFFICES ASSUME Init PROVE FloodInv
  OBVIOUS
<1>1. \A h \in Host : Started(h) \in HostState
  BY DEF Started, HostState, Status
<1>2. TypeOK
  BY <1>1 DEF Init, TypeOK, Off
<1>3. TimerInv
  BY DEF Init, TimerInv, Started, Active
<1>4. ASSUME NEW h \in Host PROVE HostInv(h)
  BY DEF Init, Started, HostInv, StatusInv, SlotInv, CopyInv, SentInv, Restarts, Active
<1>5. QED
  BY <1>2, <1>3, <1>4 DEF FloodInv, Init

\* The rising edges of a slot, at one host.
LEMMA SlotStartsAt ==
  ASSUME FloodInv, SlotStarts, NEW h \in Host
  PROVE  host'[h] \in HostState /\ HostInv(h)'
<1>1. /\ host[h] \in HostState /\ sent[h] \in Nat /\ restarts \in Nat /\ HostInv(h)
      /\ now \in Nat /\ sync \in BOOLEAN /\ phase = "gap"
  BY OfHost DEF FloodInv, TypeOK, SlotStarts
<1>2. /\ sync' = sync /\ now' = now /\ phase' = "air" /\ stopped' = stopped /\ cut' = cut
      /\ restarts' = restarts
      /\ sent'[h] = IF host[h].status = "received" THEN sent[h] + 1 ELSE sent[h]
  BY DEF SlotStarts, In
<1>3. CASE host'[h] = BeginTx(h) /\ host[h].status = "received"
  <2>1. host[h].slot < RestartSlot /\ sync => host[h].slot = now
    BY <1>1, <1>3 DEF HostInv, SlotInv, Active
  <2>2. host'[h] \in HostState
    <3>1. host[h].packet = "flooded"
      BY <1>1, <1>3 DEF HostInv, StatusInv, Active
    <3> DEFINE data == IF h # Initiator /\ host[h].rx_cnt = 1 THEN host[h].packet
                       ELSE host[h].data
               ref == IF sync /\ host[h].ref = Unknown /\ host[h].rx_cnt > 0
                         /\ host[h].slot < RestartSlot
                      THEN now - host[h].slot ELSE host[h].ref
    <3>2. data \in {"flooded", "outdated"}
      BY <1>1, <3>1 DEF HostState
    <3>3. ref \in Nat \cup {Unknown}
      BY <1>1, <2>1 DEF HostState
    <3>4. host'[h] = [host[h] EXCEPT !.status = "transmitting", !.data = data, !.ref = ref]
      BY <1>3 DEF BeginTx
    <3> HIDE DEF data, ref
    <3>5. QED
      BY <1>1, <3>2, <3>3, <3>4 DEF HostState, Status
  <2>3. StatusInv(h)'
    BY <1>1, <1>2, <1>3 DEF HostInv, StatusInv, Active, BeginTx, HostState
  <2>4. SlotInv(h)'
    BY <1>1, <1>2, <1>3, <2>1 DEF HostInv, SlotInv, Active, BeginTx, HostState
  <2>5. CopyInv(h)'
    BY <1>1, <1>2, <1>3 DEF HostInv, CopyInv, StatusInv, Active, BeginTx, HostState
  <2>6. SentInv(h)'
    BY <1>1, <1>2, <1>3 DEF HostInv, SentInv, StatusInv, Active, BeginTx, HostState, Restarts
  <2>7. QED
    BY <2>2, <2>3, <2>4, <2>5, <2>6 DEF HostInv
<1>4. CASE /\ host[h].status = "waiting"
           /\ host'[h] \in {[host[h] EXCEPT !.status = "receiving"], Spoilt(h, "aborted")}
  BY <1>1, <1>2, <1>4
  DEF HostInv, StatusInv, SlotInv, CopyInv, SentInv, Active, Restarts, Spoilt, HostState, Status
<1>5. CASE host'[h] = host[h] /\ host[h].status # "received"
  BY <1>1, <1>2, <1>5
  DEF HostInv, StatusInv, SlotInv, CopyInv, SentInv, Active, Restarts, HostState, Status
<1>6. QED
  BY <1>3, <1>4, <1>5 DEF SlotStarts, In

LEMMA SlotStartsKeeps == FloodInv /\ SlotStarts => FloodInv'
<1> SUFFICES ASSUME FloodInv, SlotStarts PROVE FloodInv'
  OBVIOUS
<1>1. /\ sync' = sync /\ now' = now /\ phase' = "air" /\ timer' = timer
      /\ stopped' = stopped /\ restarts' = restarts /\ cut' = cut
      /\ phase = "gap"
  BY DEF SlotStarts
<1>2. TypeOK'
  <2>1. host' \in [Host -> HostState]
    BY SlotStartsAt DEF SlotStarts
  <2>2. sent' \in [Host -> Nat]
    BY DEF FloodInv, TypeOK, SlotStarts
  <2>3. lossless' \in BOOLEAN
    BY DEF FloodInv, TypeOK, SlotStarts
  <2>4. QED
    BY <1>1, <2>1, <2>2, <2>3 DEF FloodInv, TypeOK
<1>3. TimerInv'
  <2>1. host[Initiator] \in HostState /\ HostInv(Initiator)
    BY OfHost
  <2>2. \/ host'[Initiator] = BeginTx(Initiator) /\ host[Initiator].status = "received"
        \/ /\ host'[Initiator].status \notin {"received", "transmitting"}
           /\ host'[Initiator].rx_cnt = host[Initiator].rx_cnt
           /\ host'[Initiator].tx_cnt = host[Initiator].tx_cnt
    <3>1. \/ host'[Initiator] = BeginTx(Initiator) /\ host[Initiator].status = "received"
          \/ host'[Initiator] = [host[Initiator] EXCEPT !.status = "receiving"]
          \/ host'[Initiator] = Spoilt(Initiator, "aborted")
          \/ host'[Initiator] = host[Initiator] /\ host[Initiator].status # "received"
      BY DEF SlotStarts, In
    <3>2. host[Initiator].status # "transmitting"
      BY <2>1, <1>1 DEF HostInv, StatusInv
    <3>3. QED
      BY <2>1, <3>1, <3>2 DEF Spoilt, HostState
  <2>3. QED
    BY <1>1, <2>1, <2>2 DEF FloodInv, TimerInv, Active, BeginTx, HostState, TypeOK
<1>4. now' < MaxSlots
  BY <1>1 DEF SlotStarts
<1>5. QED
  BY <1>2, <1>3, <1>4, SlotStartsAt DEF FloodInv

\* The slot field on the air, incremented by who receives it.
LEMMA SlotFieldNext ==
  ASSUME FloodInv, SlotEnds, sync, NEW g \in Host, host[g].status = "transmitting"
  PROVE  LET slot == (host[g].slot + 1) % SlotMod
         IN  /\ slot \in 0 .. SlotMod - 1
             /\ \/ slot = now + 1 /\ slot < RestartSlot
                \/ RestartSlot <= slot /\ slot <= RestartSlot + now + 1
<1>1. /\ host[g] \in HostState /\ SlotInv(g) /\ now \in Nat /\ now < MaxSlots
      /\ Active(g)
  BY OfHost DEF FloodInv, TypeOK, SlotEnds, HostInv, Active
<1>2. host[g].slot \in Nat
  BY <1>1 DEF HostState
<1>3. \/ host[g].slot = now
      \/ RestartSlot <= host[g].slot /\ host[g].slot <= RestartSlot + now
  BY <1>1, <1>2 DEF SlotInv
<1>4. host[g].slot + 1 < SlotMod
  BY <1>1, <1>2, <1>3
<1>5. (host[g].slot + 1) % SlotMod = host[g].slot + 1
  BY <1>2, <1>4
<1>6. QED
  BY <1>1, <1>2, <1>3, <1>4, <1>5

\* The falling edges, at one host.
LEMMA SlotEndsAt ==
  ASSUME FloodInv, SlotEnds, NEW h \in Host
  PROVE  host'[h] \in HostState /\ HostInv(h)'
<1>1. /\ host[h] \in HostState /\ sent[h] \in Nat /\ restarts \in Nat /\ HostInv(h)
      /\ now \in Nat /\ now < MaxSlots /\ sync \in BOOLEAN /\ phase = "air"
      /\ cut \subseteq stopped
  BY OfHost DEF FloodInv, TypeOK, SlotEnds
<1>2. /\ sync' = sync /\ now' = now + 1 /\ phase' = "gap" /\ stopped' = stopped /\ cut' = cut
      /\ restarts' = restarts /\ sent' = sent
  BY DEF SlotEnds
<1>3. CASE host'[h] = EndTx(h) /\ host[h].status = "transmitting"
  <2>1. host'[h] \in HostState
    <3>1. host[h].tx_cnt + 1 \in 0 .. TxMax
      BY <1>1, <1>3 DEF HostState, HostInv, StatusInv, Active
    <3>2. PICK status \in Status :
            host'[h] = [host[h] EXCEPT !.status = status, !.tx_cnt = host[h].tx_cnt + 1]
      BY <1>3 DEF EndTx, Status
    <3>3. QED
      BY <1>1, <3>1, <3>2 DEF HostState
  <2>2. HostInv(h)'
    BY <1>1, <1>2, <1>3
    DEF HostInv, StatusInv, SlotInv, CopyInv, SentInv, Active, Restarts, EndTx, HostState
  <2>3. QED
    BY <2>1, <2>2
<1>4. ASSUME NEW g \in Host, host[g].status = "transmitting",
             host[h].status = "receiving", host'[h] = EndRx(h, host[g])
      PROVE  host'[h] \in HostState /\ HostInv(h)'
  <2>1. /\ host[g] \in HostState /\ host[g].packet = "flooded"
        /\ ~sync => host[g].slot = 0
    BY <1>4, OfHost DEF HostInv, StatusInv, SlotInv, Active
  <2>2. /\ host'[h].slot \in 0 .. SlotMod - 1
        /\ ~sync => host'[h].slot = 0
        /\ sync => \/ host'[h].slot = now + 1 /\ host'[h].slot < RestartSlot
                   \/ RestartSlot <= host'[h].slot /\ host'[h].slot <= RestartSlot + now + 1
    <3>1. CASE sync
      BY <1>1, <1>4, <3>1, SlotFieldNext DEF EndRx, HostState
    <3>2. CASE ~sync
      BY <1>1, <1>4, <2>1, <3>2 DEF EndRx, HostState
    <3>3. QED
      BY <3>1, <3>2
  <2>3. h \notin stopped /\ h \notin cut
    BY <1>1, <1>4 DEF HostInv, StatusInv
  <2>4. /\ host'[h].status = IF host[h].tx_cnt = TxMax THEN "off" ELSE "received"
        /\ host'[h].packet = "flooded" /\ host'[h].rx_cnt = host[h].rx_cnt + 1
        /\ host'[h].tx_cnt = host[h].tx_cnt /\ host'[h].data = host[h].data
        /\ host'[h].ref = host[h].ref
    BY <1>1, <1>4, <2>1 DEF EndRx, HostState
  <2>5. host'[h] \in HostState
    <3>1. PICK status \in Status, slot \in 0 .. SlotMod - 1 :
            host'[h] = [host[h] EXCEPT !.status = status, !.packet = "flooded",
                                       !.slot = slot, !.rx_cnt = host[h].rx_cnt + 1]
      <4>1. host'[h].status \in Status
        BY <2>4 DEF Status
      <4>2. host'[h] = [host[h] EXCEPT !.status = host'[h].status, !.packet = "flooded",
                             !.slot = host'[h].slot, !.rx_cnt = host[h].rx_cnt + 1]
        BY <1>1, <1>4, <2>1 DEF EndRx, HostState
      <4>3. QED
        BY <2>2, <4>1, <4>2
    <3>2. host[h].rx_cnt + 1 \in Nat
      BY <1>1 DEF HostState
    <3>3. QED
      BY <1>1, <3>1, <3>2 DEF HostState
  <2>6. StatusInv(h)'
    BY <1>1, <1>2, <2>3, <2>4 DEF StatusInv, Active, HostState
  <2>7. SlotInv(h)'
    BY <1>1, <1>2, <2>2, <2>4 DEF HostInv, SlotInv, Active, HostState
  <2>8. CopyInv(h)'
    BY <1>1, <1>2, <1>4, <2>3, <2>4 DEF HostInv, CopyInv, Active, HostState
  <2>9. SentInv(h)'
    BY <1>1, <1>2, <1>4, <2>3, <2>4 DEF HostInv, SentInv, Restarts, HostState
  <2>10. QED
    BY <2>5, <2>6, <2>7, <2>8, <2>9 DEF HostInv
<1>5. CASE /\ host'[h] \in {Spoilt(h, "waiting"), [host[h] EXCEPT !.status = "waiting"]}
           /\ host[h].status \in {"receiving", "aborted"}
  <2>1. /\ host'[h].status = "waiting"
        /\ host'[h].slot = host[h].slot /\ host'[h].data = host[h].data
        /\ host'[h].rx_cnt = host[h].rx_cnt /\ host'[h].tx_cnt = host[h].tx_cnt
        /\ host'[h].ref = host[h].ref
        /\ host'[h] \in HostState
    BY <1>1, <1>5 DEF Spoilt, HostState, Status
  <2>2. h \notin stopped
    BY <1>1, <1>5 DEF HostInv, StatusInv
  <2>4. StatusInv(h)' /\ SlotInv(h)'
    BY <1>1, <1>2, <2>1, <2>2 DEF HostInv, StatusInv, SlotInv, Active, HostState
  <2>5. CopyInv(h)' /\ SentInv(h)'
    BY <1>1, <1>2, <1>5, <2>1
    DEF HostInv, CopyInv, SentInv, Active, Restarts, HostState
  <2>6. QED
    BY <2>1, <2>4, <2>5 DEF HostInv
<1>6. CASE host'[h] = host[h] /\ host[h].status \notin {"receiving", "transmitting", "aborted"}
  BY <1>1, <1>2, <1>6
  DEF HostInv, StatusInv, SlotInv, CopyInv, SentInv, Active, Restarts, HostState, Status
<1>7. QED
  BY <1>3, <1>4, <1>5, <1>6 DEF SlotEnds, In

LEMMA SlotEndsKeeps == FloodInv /\ SlotEnds => FloodInv'
<1> SUFFICES ASSUME FloodInv, SlotEnds PROVE FloodInv'
  OBVIOUS
<1>1. /\ sync' = sync /\ now' = now + 1 /\ phase' = "gap"
      /\ stopped' = stopped /\ restarts' = restarts /\ cut' = cut /\ sent' = sent
      /\ phase = "air" /\ now < MaxSlots /\ now \in Nat /\ timer \in 0 .. Timeout \cup {Off}
  BY DEF SlotEnds, FloodInv, TypeOK
<1>2. timer' \in 0 .. Timeout \cup {Off}
  BY <1>1 DEF SlotEnds, Off
<1>3. TypeOK'
  <2>1. host' \in [Host -> HostState]
    BY SlotEndsAt DEF SlotEnds
  <2>2. lossless' \in BOOLEAN
    BY DEF FloodInv, TypeOK, SlotEnds
  <2>3. now' \in 0 .. MaxSlots
    BY <1>1
  <2>4. QED
    BY <1>1, <1>2, <2>1, <2>2, <2>3 DEF FloodInv, TypeOK
<1>4. TimerInv'
  <2>1. host[Initiator] \in HostState /\ TimerInv
    BY OfHost DEF FloodInv
  <2>2. \/ host'[Initiator] = EndTx(Initiator) /\ host[Initiator].status = "transmitting"
        \/ /\ \E g \in Host : host'[Initiator] = EndRx(Initiator, host[g])
           /\ timer' = Off
        \/ /\ host'[Initiator] \in {Spoilt(Initiator, "waiting"),
                                   [host[Initiator] EXCEPT !.status = "waiting"]}
        \/ /\ host'[Initiator] = host[Initiator]
           /\ host[Initiator].status # "transmitting"
           /\ timer' = IF timer \in {0, Off} THEN timer ELSE timer - 1
    BY DEF SlotEnds, In
  <2>3. CASE host'[Initiator] = EndTx(Initiator) /\ host[Initiator].status = "transmitting"
    BY <1>1, <2>1, <2>3 DEF TimerInv, Active, EndTx, HostState
  <2>4. CASE timer' = Off /\ \E g \in Host : host'[Initiator] = EndRx(Initiator, host[g])
    BY <1>1, <2>1, <2>4 DEF TimerInv, Active, EndRx, HostState, Off
  <2>5. CASE host'[Initiator] \in {Spoilt(Initiator, "waiting"),
                                  [host[Initiator] EXCEPT !.status = "waiting"]}
    BY <1>1, <2>1, <2>5 DEF TimerInv, Active, Spoilt, HostState
  <2>6. CASE /\ host'[Initiator] = host[Initiator]
             /\ host[Initiator].status # "transmitting"
             /\ timer' = IF timer \in {0, Off} THEN timer ELSE timer - 1
    BY <1>1, <2>1, <2>6 DEF TimerInv, Active, HostState, Off
  <2>7. QED
    BY <2>2, <2>3, <2>4, <2>5, <2>6
<1>5. QED
  BY <1>1, <1>3, <1>4, SlotEndsAt DEF FloodInv

\* The initiator repeats its packet or gives up what it was doing.
LEMMA InitiatorTimeoutKeeps == FloodInv /\ InitiatorTimeout => FloodInv'
<1> SUFFICES ASSUME FloodInv, InitiatorTimeout PROVE FloodInv'
  OBVIOUS
<1>1. /\ sync' = sync /\ now' = now /\ phase' = phase /\ stopped' = stopped
      /\ cut' = cut /\ sent' = sent /\ lossless' = FALSE
      /\ timer = 0 /\ Initiator \notin stopped /\ now \in Nat /\ sync \in BOOLEAN
      /\ TimerInv
  BY DEF InitiatorTimeout, FloodInv, TypeOK
<1>2. /\ host[Initiator] \in HostState /\ sent[Initiator] \in Nat /\ restarts \in Nat
      /\ HostInv(Initiator)
  BY OfHost
<1>3. \A h \in Host \ {Initiator} : host'[h] = host[h] /\ HostInv(h)'
  <2> SUFFICES ASSUME NEW h \in Host \ {Initiator} PROVE host'[h] = host[h] /\ HostInv(h)'
    OBVIOUS
  <2>1. host'[h] = host[h]
    BY DEF InitiatorTimeout, FloodInv, TypeOK
  <2>2. QED
    BY <1>1, <2>1, OfHost
    DEF HostInv, StatusInv, SlotInv, CopyInv, SentInv, Active, Restarts
<1>4. host[Initiator].status \notin {"received", "transmitting"}
  BY <1>1 DEF TimerInv
<1>5. /\ host'[Initiator] \in HostState /\ HostInv(Initiator)' /\ TimerInv'
      /\ restarts' \in Nat /\ timer' \in 0 .. Timeout \cup {Off}
  <2>1. CASE host[Initiator].status = "waiting" /\ host[Initiator].rx_cnt = 0
    <3>1. /\ host'[Initiator] = Repeated(host[Initiator])
          /\ timer' = Timeout /\ restarts' = restarts + 1
      BY <2>1 DEF InitiatorTimeout, FloodInv, TypeOK
    <3>2. host'[Initiator] \in HostState
      <4> DEFINE slot == IF sync THEN RestartSlot ELSE host[Initiator].slot
      <4>1. slot \in 0 .. SlotMod - 1
        BY <1>1, <1>2 DEF HostState
      <4>2. host'[Initiator] = [host[Initiator] EXCEPT
              !.status = "received", !.packet = "flooded", !.tx_cnt = 0, !.slot = slot]
        BY <3>1 DEF Repeated
      <4> HIDE DEF slot
      <4>3. "received" \in Status /\ 0 \in 0 .. TxMax
        BY DEF Status
      <4>4. ASSUME NEW s \in HostState
            PROVE  [s EXCEPT !.status = "received", !.packet = "flooded",
                             !.tx_cnt = 0, !.slot = slot] \in HostState
        BY <4>1, <4>3 DEF HostState
      <4>5. QED
        BY <1>2, <4>2, <4>4
    <3>3. StatusInv(Initiator)' /\ SlotInv(Initiator)'
      BY <1>1, <1>2, <3>1
      DEF HostInv, StatusInv, SlotInv, Active, Repeated, HostState
    <3>4. CopyInv(Initiator)' /\ SentInv(Initiator)'
      <4>1. /\ host'[Initiator].data = host[Initiator].data
            /\ host'[Initiator].rx_cnt = 0 /\ host'[Initiator].tx_cnt = 0
            /\ host'[Initiator].status = "received"
        BY <1>2, <2>1, <3>1 DEF Repeated, HostState
      <4>2. CopyInv(Initiator)'
        BY <1>1, <1>2, <4>1 DEF HostInv, CopyInv
      <4>3. host[Initiator].tx_cnt \in {0, 1}
        BY <1>1, <1>2, <2>1 DEF TimerInv, HostState
      <4>4. sent[Initiator] <= host[Initiator].tx_cnt + restarts
        BY <1>1, <1>2, <2>1 DEF HostInv, SentInv, Restarts, HostState
      <4>5. SentInv(Initiator)'
        BY <1>1, <1>2, <3>1, <4>1, <4>3, <4>4 DEF SentInv, Restarts
      <4>6. QED
        BY <4>2, <4>5
    <3>5. TimerInv'
      BY <1>1, <1>2, <3>1 DEF TimerInv, Active, Repeated, HostState
    <3>6. QED
      BY <1>2, <3>1, <3>2, <3>3, <3>4, <3>5 DEF HostInv
  <2>2. CASE ~(host[Initiator].status = "waiting" /\ host[Initiator].rx_cnt = 0)
    <3>1. /\ host'[Initiator] = IF host[Initiator].status = "off" THEN host[Initiator]
                                ELSE Spoilt(Initiator, "waiting")
          /\ timer' = Off /\ restarts' = restarts
      BY <2>2 DEF InitiatorTimeout, FloodInv, TypeOK
    <3>2. /\ host'[Initiator].status \in {"off", "waiting"}
          /\ host[Initiator].status = "off" => host'[Initiator].status = "off"
          /\ host'[Initiator].slot = host[Initiator].slot
          /\ host'[Initiator].data = host[Initiator].data
          /\ host'[Initiator].rx_cnt = host[Initiator].rx_cnt
          /\ host'[Initiator].tx_cnt = host[Initiator].tx_cnt
          /\ host'[Initiator].ref = host[Initiator].ref
          /\ host'[Initiator] \in HostState
      BY <1>2, <3>1 DEF Spoilt, HostState, Status
    <3>3. StatusInv(Initiator)' /\ SlotInv(Initiator)' /\ TimerInv'
      BY <1>1, <1>2, <3>1, <3>2
      DEF HostInv, StatusInv, SlotInv, TimerInv, Active, HostState
    <3>4. CopyInv(Initiator)' /\ SentInv(Initiator)'
      BY <1>1, <1>2, <1>4, <3>1, <3>2
      DEF HostInv, CopyInv, SentInv, Active, Restarts, HostState
    <3>5. QED
      BY <1>2, <3>1, <3>2, <3>3, <3>4 DEF HostInv
  <2>3. QED
    BY <2>1, <2>2
<1>6. TypeOK'
  <2>1. host' \in [Host -> HostState]
    BY <1>5 DEF InitiatorTimeout, FloodInv, TypeOK
  <2>2. QED
    BY <1>1, <1>5, <2>1 DEF FloodInv, TypeOK
<1>7. QED
  BY <1>1, <1>3, <1>5, <1>6 DEF FloodInv

\* glossy_stop, possibly in the middle of anything.
LEMMA StopKeeps ==
  ASSUME FloodInv, NEW k \in Host, Stop(k)
  PROVE  FloodInv'
<1>1. /\ sync' = sync /\ now' = now /\ phase' = phase /\ sent' = sent /\ lossless' = FALSE
      /\ restarts' = restarts /\ stopped' = stopped \cup {k} /\ k \notin stopped
      /\ cut' = IF host[k].status = "received" /\ host[k].rx_cnt = 1 THEN cut \cup {k}
                ELSE cut
      /\ timer' = IF k = Initiator THEN Off ELSE timer
      /\ TimerInv
  BY DEF Stop, FloodInv
<1>2. host' = [host EXCEPT ![k] = [host[k] EXCEPT !.status = "off"]]
  BY DEF Stop, FloodInv, TypeOK
<1>3. \A h \in Host \ {k} : host'[h] = host[h] /\ HostInv(h)'
  <2> SUFFICES ASSUME NEW h \in Host \ {k} PROVE host'[h] = host[h] /\ HostInv(h)'
    OBVIOUS
  <2>1. host'[h] = host[h]
    BY <1>2 DEF FloodInv, TypeOK
  <2>2. (h \in stopped)' = (h \in stopped) /\ (h \in cut)' = (h \in cut)
    BY <1>1
  <2>3. QED
    BY <1>1, <2>1, <2>2, OfHost
    DEF HostInv, StatusInv, SlotInv, CopyInv, SentInv, Active, Restarts
<1>4. host[k] \in HostState /\ sent[k] \in Nat /\ restarts \in Nat /\ HostInv(k)
  BY OfHost
<1>5. /\ host'[k].status = "off" /\ host'[k] \in HostState
      /\ host'[k].slot = host[k].slot /\ host'[k].data = host[k].data
      /\ host'[k].rx_cnt = host[k].rx_cnt /\ host'[k].tx_cnt = host[k].tx_cnt
      /\ host'[k].ref = host[k].ref
  <2>1. host'[k] = [host[k] EXCEPT !.status = "off"]
    BY <1>2 DEF FloodInv, TypeOK
  <2>2. QED
    BY <1>4, <2>1 DEF HostState, Status
<1>6. HostInv(k)'
  <2>1. StatusInv(k)' /\ SlotInv(k)' /\ SentInv(k)'
    BY <1>1, <1>4, <1>5 DEF HostInv, StatusInv, SlotInv, SentInv, Active, Restarts
  <2>2. CopyInv(k)'
    BY <1>1, <1>4, <1>5 DEF HostInv, CopyInv, Active
  <2>3. QED
    BY <2>1, <2>2 DEF HostInv
<1>7. TypeOK'
  <2>1. host' \in [Host -> HostState]
    BY <1>2, <1>5 DEF FloodInv, TypeOK
  <2>2. QED
    BY <1>1, <2>1 DEF FloodInv, TypeOK
<1>8. TimerInv'
  <2>1. CASE k = Initiator
    BY <1>1, <1>5, <2>1 DEF TimerInv, Active
  <2>2. CASE k # Initiator
    BY <1>1, <1>3, <2>2 DEF TimerInv, Active
  <2>3. QED
    BY <2>1, <2>2
<1>9. QED
  BY <1>1, <1>3, <1>6, <1>7, <1>8 DEF FloodInv

LEMMA StartKeeps == Start => FloodInv'
<1> SUFFICES ASSUME Start PROVE FloodInv'
  OBVIOUS
<1>1. \A h \in Host : Started(h) \in HostState /\ host'[h] = Started(h)
  BY DEF Start, Started, HostState, Status
<1>2. TypeOK'
  BY <1>1 DEF Start, TypeOK, Off
<1>3. TimerInv'
  BY DEF Start, TimerInv, Started, Active
<1>4. ASSUME NEW h \in Host PROVE HostInv(h)'
  BY DEF Start, Started, HostInv, StatusInv, SlotInv, CopyInv, SentInv, Restarts, Active
<1>5. QED
  BY <1>2, <1>3, <1>4 DEF FloodInv, Start

LEMMA StutterKeeps == FloodInv /\ UNCHANGED vars => FloodInv'
BY DEF FloodInv, vars, TypeOK, TimerInv, HostInv, StatusInv, SlotInv, CopyInv, SentInv,
       Active, Restarts

THEOREM Invariant == Spec => []FloodInv
<1>1. FloodInv /\ [Next]_vars => FloodInv'
  BY SlotStartsKeeps, SlotEndsKeeps, InitiatorTimeoutKeeps, StopKeeps, StartKeeps,
     StutterKeeps DEF Next
<1>2. QED
  BY InitiallyInv, <1>1, PTL DEF Spec

\* The state of every host keeps its type; counters stay below their limits and the slot
\* field never wraps, for any network and any number of slots.
THEOREM TypeCorrect == Spec => []TypeOK
<1>1. FloodInv => TypeOK
  BY DEF FloodInv
<1>2. QED
  BY <1>1, Invariant, PTL

\* A host that has counted a reception has copied the data, but between the first
\* reception and its relay.
THEOREM CountedIsCopiedHolds == Spec => []CountedIsCopied
<1>1. FloodInv => CountedIsCopied
  BY DEF FloodInv, HostInv, CopyInv, CountedIsCopied
<1>2. QED
  BY <1>1, Invariant, PTL

\* Hosts that transmit at the same time send the same packet, restarts set aside.
THEOREM SamePacketInSlotHolds == Spec => []SamePacketInSlot
<1>1. FloodInv => SamePacketInSlot
  <2> SUFFICES ASSUME FloodInv, NEW g \in In("transmitting"), NEW h \in In("transmitting")
               PROVE  /\ host[g].packet = "flooded"
                      /\ host[g].slot < RestartSlot /\ host[h].slot < RestartSlot =>
                           host[g].slot = host[h].slot
    BY DEF SamePacketInSlot
  <2>1. /\ g \in Host /\ h \in Host /\ Active(g) /\ Active(h) /\ HostInv(g) /\ HostInv(h)
        /\ sync \in BOOLEAN
    BY DEF In, Active, FloodInv, TypeOK
  <2>2. QED
    BY <2>1 DEF HostInv, StatusInv, SlotInv
<1>2. QED
  BY <1>1, Invariant, PTL

\* Whoever computes the reference time finds the start of slot 0.
THEOREM ReferenceIsStartHolds == Spec => []ReferenceIsStart
<1>1. FloodInv => ReferenceIsStart
  BY DEF FloodInv, HostInv, SlotInv, ReferenceIsStart
<1>2. QED
  BY <1>1, Invariant, PTL

\* No host transmits more than TxMax times, repeated first transmissions aside.
THEOREM TransmitsAtMostHolds == Spec => []TransmitsAtMost
<1>1. FloodInv => TransmitsAtMost
  BY DEF FloodInv, HostInv, SentInv, Restarts, TransmitsAtMost
<1>2. QED
  BY <1>1, Invariant, PTL
-----------------------------------------------------------------------------
(***************************************************************************)
(* One hop per slot.                                                       *)
(***************************************************************************)
\* Within, as the least relation of hosts and distances that satisfies its equation.
Step(h, k, X) ==
  IF k = 0 THEN h = Initiator
  ELSE \/ <<h, k - 1>> \in X
       \/ \E g \in Host : <<g, k - 1>> \in X /\ Near(g, h)
Closed(X) == \A h \in Host, k \in Nat : Step(h, k, X) => <<h, k>> \in X
Least == {w \in Host \X Nat : \A X \in SUBSET (Host \X Nat) : Closed(X) => w \in X}

LEMMA LeastIsFixpoint ==
  \A h \in Host, k \in Nat : <<h, k>> \in Least <=> Step(h, k, Least)
<1>1. ASSUME NEW X, NEW Y, X \subseteq Y, NEW h \in Host, NEW k \in Nat, Step(h, k, X)
      PROVE  Step(h, k, Y)
  BY <1>1 DEF Step
<1>2. \A X \in SUBSET (Host \X Nat) : Closed(X) => Least \subseteq X
  BY DEF Least
<1>3. ASSUME NEW h \in Host, NEW k \in Nat, Step(h, k, Least)
      PROVE  <<h, k>> \in Least
  <2>1. ASSUME NEW X \in SUBSET (Host \X Nat), Closed(X)
        PROVE  <<h, k>> \in X
    <3>1. Step(h, k, X)
      BY <1>1, <1>2, <1>3, <2>1
    <3>2. QED
      BY <2>1, <3>1 DEF Closed
  <2>2. QED
    BY <2>1 DEF Least
<1> DEFINE S == {w \in Least : Step(w[1], w[2], Least)}
<1>4. Closed(S)
  <2> SUFFICES ASSUME NEW h \in Host, NEW k \in Nat, Step(h, k, S)
               PROVE  <<h, k>> \in Least /\ Step(h, k, Least)
    BY DEF Closed
  <2>1. Step(h, k, Least)
    <3>1. S \subseteq Least
      OBVIOUS
    <3> HIDE DEF S
    <3>2. QED
      BY <1>1, <3>1
  <2>2. QED
    BY <1>3, <2>1
<1>5. S \in SUBSET (Host \X Nat)
  BY DEF Least
<1>6. Least \subseteq S
  <2> HIDE DEF S
  <2>1. QED
    BY <1>2, <1>4, <1>5
<1>7. QED
  BY <1>3, <1>6

\* TLA+ says no more of a recursive function than that it is one if there is one.
LEMMA WithinUnfolds ==
  \A k \in Nat :
    Within[k] = IF k = 0 THEN {Initiator}
                ELSE LET W == Within[k - 1]
                     IN  W \cup {h \in Host : \E g \in W : Near(g, h)}
<1> DEFINE Body(W, k) == IF k = 0 THEN {Initiator}
                         ELSE LET V == W[k - 1]
                              IN  V \cup {h \in Host : \E g \in V : Near(g, h)}
           P(W) == W = [k \in Nat |-> Body(W, k)]
           V == [k \in Nat |-> {h \in Host : <<h, k>> \in Least}]
<1>1. ASSUME NEW k \in Nat PROVE V[k] = Body(V, k)
  <2>1. \A h \in Host : h \in V[k] <=> Step(h, k, Least)
    BY LeastIsFixpoint
  <2>2. V[k] \subseteq Host
    OBVIOUS
  <2>3. CASE k = 0
    BY <2>1, <2>2, <2>3 DEF Step
  <2>4. CASE k # 0
    <3>1. k - 1 \in Nat /\ V[k - 1] = {h \in Host : <<h, k - 1>> \in Least}
      BY <2>4
    <3> HIDE DEF V
    <3>2. \A h \in Host : h \in Body(V, k) <=> Step(h, k, Least)
      BY <2>4, <3>1 DEF Step
    <3>3. Body(V, k) \subseteq Host
      BY <2>4, <3>1
    <3> HIDE DEF Body
    <3>4. QED
      BY <2>1, <2>2, <3>2, <3>3
  <2>5. QED
    BY <2>3, <2>4
<1>2. P(V)
  <2>1. V = [k \in Nat |-> V[k]]
    OBVIOUS
  <2> HIDE DEF V, Body
  <2>2. QED
    BY <1>1, <2>1
<1>3. Within = CHOOSE W : P(W)
  BY DEF Within
<1>4. P(Within)
  <2>1. \E W : P(W)
    BY <1>2
  <2> HIDE DEF P, V
  <2>2. P(CHOOSE W : P(W))
    BY <2>1, Zenon
  <2>3. QED
    BY <1>3, <2>2, Zenon
<1>5. QED
  BY <1>4
Sourced(h) == h = Initiator \/ host[h].rx_cnt > 0

\* Who has the packet sends it in the next slot or has sent it to all in range; who does
\* not have it listens.
HopInv ==
  lossless =>
    /\ \A h \in Host : ~Sourced(h) => host[h].status \in {"waiting", "receiving"}
    /\ \A h, k \in Host :
         /\ Sourced(h) /\ ~Sourced(k) /\ Near(h, k)
         => IF phase = "gap" THEN host[h].status = "received"
            ELSE host[k].status = "receiving"
    /\ \A h \in Within[now] : h \in Host /\ Sourced(h)

LEMMA HopFresh ==
  ASSUME host = [h \in Host |-> Started(h)], now = 0, phase = "gap"
  PROVE  HopInv
<1>1. Within[now] = {Initiator}
  BY WithinUnfolds
<1>2. QED
  BY <1>1 DEF HopInv, Sourced, Started

LEMMA HopSlotStarts == FloodInv /\ HopInv /\ SlotStarts => HopInv'
<1> SUFFICES ASSUME FloodInv, HopInv, SlotStarts, lossless'
             PROVE  HopInv'
  BY DEF HopInv
<1>1. lossless /\ phase = "gap" /\ phase' = "air" /\ now' = now
  BY DEF SlotStarts, FloodInv, TypeOK
<1> DEFINE senders == In("received")
           reached == {h \in In("waiting") : \E g \in senders : Near(g, h)}
<1>2. \A h \in Host :
        host'[h] = IF h \in senders THEN BeginTx(h)
                   ELSE IF h \in reached THEN [host[h] EXCEPT !.status = "receiving"]
                   ELSE host[h]
  <2>1. PICK R \in SUBSET reached : \E A \in SUBSET (reached \ R) :
           /\ host' = [h \in Host |->
                         IF h \in senders THEN BeginTx(h)
                         ELSE IF h \in R THEN [host[h] EXCEPT !.status = "receiving"]
                         ELSE IF h \in A THEN Spoilt(h, "aborted")
                         ELSE host[h]]
           /\ lossless' = (lossless /\ R = reached)
    BY DEF SlotStarts
  <2>2. R = reached
    BY <1>1, <2>1
  <2>3. QED
    BY <2>1, <2>2
<1>3. \A h \in Host : host[h] \in HostState
  BY OfHost
<1>4. \A h \in Host : host'[h].rx_cnt = host[h].rx_cnt
  BY <1>2, <1>3 DEF BeginTx, HostState
<1>5. \A h \in Host : Sourced(h)' <=> Sourced(h)
  BY <1>4 DEF Sourced
<1>6. ASSUME NEW h \in Host, ~Sourced(h) PROVE host[h].status = "waiting"
  BY <1>1, <1>6, OfHost DEF HopInv, HostInv, StatusInv
<1>7. ASSUME NEW h \in Host, ~Sourced(h)
      PROVE  host'[h].status \in {"waiting", "receiving"}
  BY <1>2, <1>3, <1>6, <1>7 DEF In, HostState
<1>8. ASSUME NEW h \in Host, NEW k \in Host, Sourced(h), ~Sourced(k), Near(h, k)
      PROVE  host'[k].status = "receiving"
  <2>1. h \in senders /\ k \in reached /\ k \notin senders
    BY <1>1, <1>6, <1>8 DEF HopInv, In
  <2> HIDE DEF senders, reached
  <2>2. QED
    BY <1>2, <1>3, <2>1 DEF HostState
<1>9. QED
  BY <1>1, <1>5, <1>7, <1>8 DEF HopInv

LEMMA HopSlotEnds == FloodInv /\ HopInv /\ SlotEnds => HopInv'
<1> SUFFICES ASSUME FloodInv, HopInv, SlotEnds, lossless'
             PROVE  HopInv'
  BY DEF HopInv
<1>1. lossless /\ phase = "air" /\ phase' = "gap" /\ now' = now + 1 /\ now \in Nat
  BY DEF SlotEnds, FloodInv, TypeOK
<1>2. ASSUME NEW h \in Host
      PROVE  \/ host[h].status = "transmitting" /\ host'[h] = EndTx(h)
             \/ host[h].status = "receiving" /\ \E g \in Host : host'[h] = EndRx(h, host[g])
             \/ /\ host[h].status \notin {"transmitting", "receiving"}
                /\ host'[h] \in {host[h], [host[h] EXCEPT !.status = "waiting"]}
  <2> DEFINE senders == In("transmitting")
  <2>1. PICK G \in SUBSET In("receiving") : \E from \in [G -> senders] :
           /\ host' = [k \in Host |->
                         IF k \in senders THEN EndTx(k)
                         ELSE IF k \in G THEN EndRx(k, host[from[k]])
                         ELSE IF k \in In("receiving") THEN Spoilt(k, "waiting")
                         ELSE IF k \in In("aborted") THEN [host[k] EXCEPT !.status = "waiting"]
                         ELSE host[k]]
           /\ lossless' = (lossless /\ G = In("receiving"))
    BY DEF SlotEnds
  <2>2. G = In("receiving")
    BY <1>1, <2>1
  <2>3. QED
    BY <2>1, <2>2 DEF In
<1>3. \A h \in Host : host[h] \in HostState
  BY OfHost
<1>4. ASSUME NEW h \in Host
      PROVE  /\ host[h].status = "receiving" => host'[h].rx_cnt > 0
             /\ host[h].status # "receiving" => host'[h].rx_cnt = host[h].rx_cnt
  <2>1. host[h].rx_cnt \in Nat
    BY <1>3 DEF HostState
  <2>2. CASE host'[h] = EndTx(h) \/ \E g \in Host : host'[h] = EndRx(h, host[g])
    <3>1. /\ EndTx(h).rx_cnt = host[h].rx_cnt
          /\ \A g \in Host : EndRx(h, host[g]).rx_cnt = host[h].rx_cnt + 1
      BY <1>3 DEF EndTx, EndRx, HostState
    <3> HIDE DEF EndTx, EndRx
    <3>2. QED
      BY <1>2, <1>3, <2>1, <3>1 DEF HostState
  <2>3. CASE /\ host[h].status # "receiving"
             /\ host'[h] \in {host[h], [host[h] EXCEPT !.status = "waiting"]}
    BY <1>3, <2>3 DEF HostState
  <2>4. QED
    BY <1>2, <2>2, <2>3
<1>5. ASSUME NEW h \in Host
      PROVE  Sourced(h)' <=> Sourced(h) \/ host[h].status = "receiving"
  <2>1. CASE host[h].status = "receiving"
    BY <1>4, <2>1 DEF Sourced
  <2>2. CASE host[h].status # "receiving"
    BY <1>4, <2>2 DEF Sourced
  <2>3. QED
    BY <2>1, <2>2
<1>6. ASSUME NEW h \in Host, ~Sourced(h)'
      PROVE  host'[h].status = "waiting"
  <2>1. ~Sourced(h) /\ host[h].status = "waiting"
    BY <1>1, <1>5, <1>6 DEF HopInv
  <2>2. QED
    BY <1>2, <1>3, <2>1 DEF HostState
<1>7. ASSUME NEW h \in Host, NEW k \in Host, Sourced(h)', ~Sourced(k)', Near(h, k)
      PROVE  host'[h].status = "received"
  <2>1. ~Sourced(k) /\ host[k].status # "receiving"
    BY <1>5, <1>7
  <2>2. ~Sourced(h)
    BY <1>1, <1>7, <2>1 DEF HopInv
  <2>3. host[h].status = "receiving" /\ host[h].tx_cnt = 0
    BY <1>5, <1>7, <2>2, OfHost, <1>3 DEF Sourced, HostInv, CopyInv, HostState
  <2>4. QED
    BY <1>2, <1>3, <2>3 DEF EndRx, HostState
<1>8. ASSUME NEW h \in Within[now'] PROVE h \in Host /\ Sourced(h)'
  <2>1. Within[now'] = Within[now] \cup {k \in Host : \E g \in Within[now] : Near(g, k)}
    <3>1. now' \in Nat /\ now' # 0 /\ now' - 1 = now
      BY <1>1
    <3>2. QED
      BY <3>1, WithinUnfolds
  <2>2. CASE h \in Within[now]
    BY <1>1, <1>5, <2>2 DEF HopInv
  <2>3. ASSUME h \in Host, NEW g \in Within[now], Near(g, h)
        PROVE  Sourced(h)'
    <3>1. g \in Host /\ Sourced(g)
      BY <1>1 DEF HopInv
    <3>2. QED
      BY <1>1, <1>5, <2>3, <3>1 DEF HopInv
  <2>4. QED
    BY <1>8, <2>1, <2>2, <2>3
<1>9. QED
  BY <1>1, <1>6, <1>7, <1>8 DEF HopInv

\* No host has the packet that is more hops away than slots have passed.
SpeedInv == \A h \in Host : Sourced(h) => h \in Within[now]

\* At the end of a slot who newly has the packet has it from a host in range that had it.
LEMMA SlotEndsSpreads ==
  ASSUME FloodInv, SlotEnds, NEW h \in Host
  PROVE  /\ host'[h].data = host[h].data
         /\ Sourced(h) => Sourced(h)'
         /\ ~Sourced(h) /\ Sourced(h)' => \E g \in Host : Sourced(g) /\ Near(g, h)
<1> DEFINE senders == In("transmitting")
<1>1. PICK G \in SUBSET In("receiving") : \E f \in [G -> senders] :
         /\ \A k \in G : Near(f[k], k)
         /\ host' = [k \in Host |->
                       IF k \in senders THEN EndTx(k)
                       ELSE IF k \in G THEN EndRx(k, host[f[k]])
                       ELSE IF k \in In("receiving") THEN Spoilt(k, "waiting")
                       ELSE IF k \in In("aborted") THEN [host[k] EXCEPT !.status = "waiting"]
                       ELSE host[k]]
  BY DEF SlotEnds
<1>2. PICK from \in [G -> senders] :
         /\ \A k \in G : Near(from[k], k)
         /\ host' = [k \in Host |->
                       IF k \in senders THEN EndTx(k)
                       ELSE IF k \in G THEN EndRx(k, host[from[k]])
                       ELSE IF k \in In("receiving") THEN Spoilt(k, "waiting")
                       ELSE IF k \in In("aborted") THEN [host[k] EXCEPT !.status = "waiting"]
                       ELSE host[k]]
  BY <1>1
<1>3. host[h] \in HostState /\ host[h].rx_cnt \in Nat
  BY OfHost DEF HostState
<1>4. ASSUME h \in G
      PROVE  \E g \in Host : Sourced(g) /\ Near(g, h)
  <2>1. from[h] \in Host /\ host[from[h]].status = "transmitting" /\ Near(from[h], h)
    BY <1>2, <1>4 DEF In
  <2>2. Sourced(from[h])
    BY <2>1, OfHost DEF HostInv, CopyInv, Active, Sourced, HostState
  <2>3. QED
    BY <2>1, <2>2
<1>5. /\ host'[h].data = host[h].data
      /\ host'[h].rx_cnt = IF h \in G THEN host[h].rx_cnt + 1 ELSE host[h].rx_cnt
  BY <1>2, <1>3 DEF In, EndTx, EndRx, Spoilt, HostState
<1>6. QED
  BY <1>3, <1>4, <1>5 DEF Sourced

\* When a slot starts data is only copied, of the flooded packet and where it has been
\* received.
LEMMA SlotStartsCopies ==
  ASSUME FloodInv, SlotStarts, NEW h \in Host
  PROVE  /\ host'[h].rx_cnt = host[h].rx_cnt
         /\ host'[h].data # host[h].data => host'[h].data = "flooded" /\ Sourced(h)
<1>1. host[h] \in HostState /\ HostInv(h)
  BY OfHost
<1>2. \/ host[h].status = "received" /\ host'[h] = BeginTx(h)
      \/ host'[h] = [host[h] EXCEPT !.status = "receiving"]
      \/ host'[h] = Spoilt(h, "aborted")
      \/ host'[h] = host[h]
  BY DEF SlotStarts, In
<1>3. host[h].status = "received" =>
        /\ BeginTx(h).rx_cnt = host[h].rx_cnt
        /\ BeginTx(h).data = IF h # Initiator /\ host[h].rx_cnt = 1 THEN "flooded"
                             ELSE host[h].data
  BY <1>1 DEF BeginTx, HostState, HostInv, StatusInv, Active
<1>4. CASE host'[h].rx_cnt = host[h].rx_cnt /\ host'[h].data = host[h].data
  BY <1>4
<1>5. CASE host[h].status = "received" /\ host'[h] = BeginTx(h)
  <2> HIDE DEF BeginTx
  <2>1. host[h].rx_cnt = 1 => Sourced(h)
    BY DEF Sourced
  <2>2. QED
    BY <1>3, <1>5, <2>1
<1>6. QED
  BY <1>1, <1>2, <1>4, <1>5 DEF Spoilt, HostState

\* The initiator's timeout and the end of the flood change neither.
LEMMA TimersKeepData ==
  ASSUME FloodInv, InitiatorTimeout \/ \E k \in Host : Stop(k), NEW h \in Host
  PROVE  now' = now /\ host'[h].rx_cnt = host[h].rx_cnt /\ host'[h].data = host[h].data
<1>1. host \in [Host -> HostState]
  BY DEF FloodInv, TypeOK
<1>2. CASE InitiatorTimeout
  BY <1>1, <1>2 DEF InitiatorTimeout, Repeated, Spoilt, HostState
<1>3. ASSUME NEW k \in Host, Stop(k)
      PROVE  now' = now /\ host'[h].rx_cnt = host[h].rx_cnt /\ host'[h].data = host[h].data
  BY <1>1, <1>3 DEF Stop, HostState
<1>4. QED
  BY <1>2, <1>3

LEMMA SpeedStep == FloodInv /\ SpeedInv /\ [Next]_vars => SpeedInv'
<1> SUFFICES ASSUME FloodInv, SpeedInv, [Next]_vars, NEW h \in Host, Sourced(h)'
             PROVE  h \in Within[now']
  BY DEF SpeedInv
<1>1. CASE SlotStarts
  BY <1>1, SlotStartsCopies DEF SpeedInv, SlotStarts, Sourced
<1>2. CASE SlotEnds
  <2>1. now' \in Nat /\ now' # 0 /\ now' - 1 = now
    BY <1>2 DEF SlotEnds, FloodInv, TypeOK
  <2>2. Within[now'] = Within[now] \cup {k \in Host : \E g \in Within[now] : Near(g, k)}
    BY <2>1, WithinUnfolds
  <2>3. QED
    BY <1>2, <2>2, SlotEndsSpreads DEF SpeedInv
<1>3. CASE InitiatorTimeout \/ \E k \in Host : Stop(k)
  BY <1>3, TimersKeepData DEF SpeedInv, Sourced
<1>4. CASE Start
  <2>1. Within[0] = {Initiator}
    BY WithinUnfolds
  <2>2. now' = 0 /\ host'[h].rx_cnt = 0
    BY <1>4 DEF Start, Started
  <2>3. QED
    BY <2>1, <2>2 DEF Sourced
<1>5. CASE UNCHANGED vars
  BY <1>5 DEF vars, SpeedInv, Sourced
<1>6. QED
  BY <1>1, <1>2, <1>3, <1>4, <1>5 DEF Next

\* In a network of any shape and size no flood reaches a host before as many slots have
\* passed as it is hops away, and one without losses does so exactly then.
THEOREM OneHopPerSlotHolds == Spec => []OneHopPerSlot
<1>1. Init => HopInv
  BY HopFresh DEF Init
<1>2. FloodInv /\ HopInv /\ [Next]_vars => HopInv'
  <2> SUFFICES ASSUME FloodInv, HopInv, [Next]_vars PROVE HopInv'
    OBVIOUS
  <2>1. CASE SlotStarts
    BY <2>1, HopSlotStarts
  <2>2. CASE SlotEnds
    BY <2>2, HopSlotEnds
  <2>3. CASE InitiatorTimeout \/ \E h \in Host : Stop(h)
    BY <2>3 DEF InitiatorTimeout, Stop, HopInv
  <2>4. CASE Start
    <3>1. host' = [h \in Host |-> Started(h)] /\ now' = 0 /\ phase' = "gap"
      BY <2>4 DEF Start
    <3>2. Within[now'] = {Initiator}
      BY <3>1, WithinUnfolds
    <3>3. QED
      BY <3>1, <3>2 DEF HopInv, Sourced, Started
  <2>5. CASE UNCHANGED vars
    BY <2>5 DEF vars, HopInv, Sourced
  <2>6. QED
    BY <2>1, <2>2, <2>3, <2>4, <2>5 DEF Next
<1>3. Init => SpeedInv
  <2>1. Within[0] = {Initiator}
    BY WithinUnfolds
  <2>2. QED
    BY <2>1 DEF Init, Started, SpeedInv, Sourced
<1>4. HopInv /\ SpeedInv => OneHopPerSlot
  BY DEF HopInv, SpeedInv, Sourced, OneHopPerSlot
<1>5. QED
  BY <1>1, <1>2, <1>3, <1>4, SpeedStep, Invariant, PTL DEF Spec

-----------------------------------------------------------------------------
(***************************************************************************)
(* The hosts implement a broadcast.                                        *)
(***************************************************************************)
Reached == {h \in Host : h = Initiator \/ host[h].rx_cnt > 0}
Copied == {h \in Host : host[h].data = "flooded"}

LEMMA BroadcastStep == FloodInv /\ [Next]_vars => [Flood!Next]_(Flood!vars)
<1> SUFFICES ASSUME FloodInv, [Next]_vars PROVE [Flood!Next]_(Flood!vars)
  OBVIOUS
<1>1. \A h \in Host : h \in Reached <=> Sourced(h)
  BY DEF Reached, Sourced
<1>2. \A h \in Host : h \in Reached' <=> Sourced(h)'
  BY DEF Reached, Sourced
<1>3. CASE SlotStarts
  <2>1. Reached' = Reached /\ now' = now
    BY <1>3, SlotStartsCopies DEF Reached, SlotStarts
  <2>2. Copied \subseteq Copied' /\ Copied' \subseteq Copied \cup Reached
    BY <1>1, <1>3, SlotStartsCopies DEF Copied
  <2>3. Flood!Copy
    BY <2>1, <2>2 DEF Flood!Copy, Reached, Copied
  <2>4. QED
    BY <2>3 DEF Flood!Next
<1>4. CASE SlotEnds
  <2>1. now' = now + 1
    BY <1>4 DEF SlotEnds
  <2>2. Copied' = Copied
    BY <1>4, SlotEndsSpreads DEF Copied
  <2>3. Reached \subseteq Reached'
    BY <1>1, <1>2, <1>4, SlotEndsSpreads DEF Reached
  <2>4. Reached' \subseteq Reached \cup Flood!InRange(Reached)
    <3> SUFFICES ASSUME NEW h \in Host, ~Sourced(h), Sourced(h)'
                 PROVE  h \in Flood!InRange(Reached)
      BY <1>1, <1>2 DEF Reached
    <3>1. PICK g \in Host : Sourced(g) /\ Near(g, h)
      BY <1>4, SlotEndsSpreads
    <3>2. QED
      BY <1>1, <3>1 DEF Flood!InRange, Near
  <2>5. Flood!Spread
    BY <2>1, <2>2, <2>3, <2>4 DEF Flood!Spread, Reached, Copied
  <2>6. QED
    BY <2>5 DEF Flood!Next
<1>5. CASE InitiatorTimeout \/ \E k \in Host : Stop(k)
  <2>1. Reached' = Reached /\ Copied' = Copied
    BY <1>5, TimersKeepData DEF Reached, Copied
  <2>2. now' = now
    BY <1>5 DEF InitiatorTimeout, Stop
  <2>3. QED
    BY <2>1, <2>2 DEF Flood!vars, Reached, Copied
<1>6. CASE Start
  <2>1. now' = 0 /\ Reached' = {Initiator} /\ Copied' = {Initiator}
    BY <1>6 DEF Start, Started, Reached, Copied
  <2>2. Flood!Again
    BY <2>1 DEF Flood!Again, Reached, Copied
  <2>3. QED
    BY <2>2 DEF Flood!Next
<1>7. CASE UNCHANGED vars
  BY <1>7 DEF vars, Flood!vars
<1>8. QED
  BY <1>3, <1>4, <1>5, <1>6, <1>7 DEF Next

\* Seen from outside a flood is a broadcast, for any network, number of transmissions and
\* timeout: data comes from hosts in range that have it and reaches an application only
\* once it has been received.
THEOREM BroadcastRefinement == Spec => ImplementsBroadcast
<1>1. Init => Flood!Init
  <2> SUFFICES ASSUME Init PROVE Flood!Init
    OBVIOUS
  <2>1. now = 0 /\ Reached = {Initiator} /\ Copied = {Initiator}
    BY DEF Init, Started, Reached, Copied
  <2>2. QED
    BY <2>1 DEF Flood!Init, Reached, Copied
<1>2. QED
  BY <1>1, BroadcastStep, Invariant, PTL DEF Spec, ImplementsBroadcast, Flood!Spec
=============================================================================
