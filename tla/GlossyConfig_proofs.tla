------------------------ MODULE GlossyConfig_proofs -------------------------
(***************************************************************************)
(* Theorems about GlossyConfig, for every number of nodes, configurations, *)
(* report slots and restarts, and every range of the sequence number.      *)
(***************************************************************************)
EXTENDS GlossyConfig, TLAPS

\* A line is handled after all earlier ones, and each is counted once.
LineInv ==
  /\ line # 0 => parsing < line
  /\ glossy_config_data[Sink].gen <= parsing
  /\ pc \notin {"wait", "copy_tl", "copy_ts", "copy_n"}
       => glossy_config_data[Sink].gen < parsing

SlotInv ==
  /\ phase \in {"idle", "flood"} => slot = 0
  /\ phase = "gap" => slot < Slots

TypeInv == TypeOK /\ LineInv /\ SlotInv

USE ConfigAssumption DEF ConfigAssumption, Host, Version, Config, Whole, GlossyData, DefaultData,
                         Yielded, Copying, Pc, Raw, Odd

\* The next sequence number is within the range of the type.
LEMMA SeqNoRange == \A s \in Nat : (s + 1) % SeqMod \in 0..(SeqMod - 1)
OBVIOUS

\* What a host takes over at the end of a phase has the type of its variables.
LEMMA TakeOverType ==
  ASSUME TypeOK, NEW h \in Host, TakeOver(h)
  PROVE  /\ config_seq_no' \in [Host -> 0..(SeqMod - 1)]
         /\ gen' \in [Host -> Version]
         /\ new_cfg' \in [Host -> Config]
         /\ polled' \subseteq Host
<1>1. CASE IsNew(h)
  <2>1. ReceivedCfg(h) \in Config
    BY DEF TypeOK, ReceivedCfg
  <2>2. config_seq_no' \in [Host -> 0..(SeqMod - 1)] /\ gen' \in [Host -> Version]
    <3>1. /\ glossy_config_data[h].seq_no \in 0..(SeqMod - 1)
          /\ glossy_config_data[h].gen \in Version
      BY DEF TypeOK
    <3>2. /\ config_seq_no \in [Host -> 0..(SeqMod - 1)]
          /\ gen \in [Host -> Version]
      BY DEF TypeOK
    <3>3. /\ config_seq_no' = [config_seq_no EXCEPT ![h] = glossy_config_data[h].seq_no]
          /\ gen' = [gen EXCEPT ![h] = glossy_config_data[h].gen]
      BY <1>1 DEF TakeOver
    <3> HIDE DEF Host, Version
    <3>4. QED
      BY <3>1, <3>2, <3>3
  <2>3. new_cfg' \in [Host -> Config]
    <3>1. new_cfg \in [Host -> Config]
      BY DEF TypeOK
    <3>2. new_cfg' = [new_cfg EXCEPT ![h] = ReceivedCfg(h)]
      BY <1>1 DEF TakeOver
    <3> HIDE DEF Host, Config
    <3>3. QED
      BY <2>1, <3>1, <3>2
  <2>4. polled' \subseteq Host
    BY <1>1 DEF TypeOK, TakeOver
  <2>5. QED
    BY <2>2, <2>3, <2>4
<1>2. CASE ~IsNew(h)
  BY <1>2 DEF TypeOK, TakeOver, adaption
<1>3. QED
  BY <1>1, <1>2

\* TakeOver(h), for h and for the others.
LEMMA TakeOverEffect ==
  ASSUME TypeOK, NEW h \in Host, TakeOver(h)
  PROVE  /\ \A k \in Host \ {h} : /\ config_seq_no'[k] = config_seq_no[k]
                                  /\ gen'[k] = gen[k]
                                  /\ new_cfg'[k] = new_cfg[k]
                                  /\ k \in polled' <=> k \in polled
         /\ config_seq_no'[h] = glossy_config_data[h].seq_no
         /\ \/ /\ gen'[h] = glossy_config_data[h].gen
               /\ new_cfg'[h] = glossy_config_data[h].cfg
               /\ h \in polled'
            \/ /\ gen'[h] = gen[h]
               /\ new_cfg'[h] = new_cfg[h]
               /\ h \in polled' <=> h \in polled
               /\ glossy_config_data[h].seq_no = config_seq_no[h]
<1>1. CASE IsNew(h)
  BY <1>1 DEF TypeOK, TakeOver, ReceivedCfg
<1>2. CASE ~IsNew(h)
  BY <1>2 DEF TypeOK, TakeOver, IsNew, adaption
<1>3. QED
  BY <1>1, <1>2

LEMMA TypeInit == Init => TypeInv
<1> SUFFICES ASSUME Init PROVE TypeInv
  OBVIOUS
<1> USE DEF Init
<1>0. Whole(0) \in Config /\ DefaultData \in GlossyData
  OBVIOUS
<1>1. TypeOK
  <2>1. /\ new_cfg \in [Host -> Config] /\ current_cfg \in [Host -> Config]
        /\ glossy_config_data \in [Host -> GlossyData]
        /\ packet \in GlossyData /\ flooded \subseteq Config
    <3> HIDE DEF Config, GlossyData, DefaultData, Whole
    <3>1. QED
      BY <1>0
  <2>2. /\ sent \in Version /\ line \in 0..sent /\ parsing \in 0..sent
        /\ hits \in 0..1 /\ reboots \in 0..MaxReboots /\ slot \in 0..Slots
    OBVIOUS
  <2>3. pc \in Pc /\ disturbed \in BOOLEAN
    OBVIOUS
  <2>4. /\ config_seq_no \in [Host -> 0..(SeqMod - 1)]
        /\ gen \in [Host -> Version]
    OBVIOUS
  <2> HIDE DEF Config, GlossyData
  <2>5. QED
    BY <2>1, <2>2, <2>3, <2>4 DEF TypeOK
<1>2. LineInv
  BY DEF LineInv
<1>3. SlotInv
  BY DEF SlotInv
<1>4. QED
  BY <1>1, <1>2, <1>3 DEF TypeInv

LEMMA TypeStep == TypeInv /\ [Next]_vars => TypeInv'
<1> SUFFICES ASSUME TypeInv, [Next]_vars PROVE TypeInv'
  OBVIOUS
<1> USE DEF TypeInv, TypeOK, LineInv, SlotInv, process, preempted, adaption, scheduler, air
<1>1. CASE SendLine
  BY <1>1 DEF SendLine
<1>2. CASE TakeLine
  <2>1. TypeOK'
    BY <1>2 DEF TakeLine, CanDispatchEvent, KernelFree
  <2>2. LineInv'
    BY <1>2 DEF TakeLine, CanDispatchEvent, KernelFree
  <2>3. SlotInv'
    BY <1>2 DEF TakeLine, CanDispatchEvent, KernelFree
  <2>4. QED
    BY <2>1, <2>2, <2>3
<1>3. CASE Parse
  BY <1>3 DEF Parse, ParseField, Rounded
<1>4. CASE CheckGlossy
  BY <1>4 DEF CheckGlossy
<1>5. CASE Resume
  <2>1. TypeOK'
    BY <1>5 DEF Resume, CanDispatchEvent, KernelFree
  <2>2. LineInv'
    BY <1>5 DEF Resume, CanDispatchEvent, KernelFree
  <2>3. SlotInv'
    BY <1>5 DEF Resume, CanDispatchEvent, KernelFree
  <2>4. QED
    BY <2>1, <2>2, <2>3
<1>6. CASE IncrementSeqNo
  BY <1>6, SeqNoRange DEF IncrementSeqNo
<1>7. CASE Copy
  BY <1>7 DEF Copy, CopyField
<1>8. ASSUME NEW h \in Host, Adapt(h) PROVE TypeInv'
  BY <1>8 DEF Adapt
<1>9. CASE StartFlood
  BY <1>9 DEF StartFlood, Interrupt
<1>10. CASE InitiatorTimeout
  BY <1>10 DEF InitiatorTimeout, Interrupt
<1>11. CASE LastTransmission
  BY <1>11 DEF LastTransmission, Interrupt
<1>12. CASE StopGlossy
  <2>1. TypeOK'
    BY <1>12 DEF StopGlossy, Interrupt
  <2>2. LineInv'
    BY <1>12 DEF StopGlossy, Interrupt
  <2>3. SlotInv'
    BY <1>12 DEF StopGlossy, Interrupt
  <2>4. QED
    BY <2>1, <2>2, <2>3
<1>13. CASE StartSlot
  BY <1>13 DEF StartSlot, Interrupt
<1>14. CASE EndPhase
  <2>1. TypeOK'
    <3>1. TakeOver(Sink)
      BY <1>14 DEF EndPhase
    <3>2. QED
      BY <1>14, <3>1, TakeOverType DEF EndPhase, Interrupt
  <2>2. LineInv'
    BY <1>14, TakeOverType DEF EndPhase, Interrupt
  <2>3. SlotInv'
    BY <1>14, TakeOverType DEF EndPhase, Interrupt
  <2>4. QED
    BY <2>1, <2>2, <2>3
<1>15. ASSUME NEW n \in Node, Receive(n) PROVE TypeInv'
  BY <1>15 DEF Receive
<1>16. ASSUME NEW n \in Node, EndNodePhase(n) PROVE TypeInv'
  BY <1>16, TakeOverType DEF EndNodePhase
<1>17. ASSUME NEW n \in Node, Reboot(n) PROVE TypeInv'
  BY <1>17 DEF Reboot
<1>18. CASE UNCHANGED vars
  BY <1>18 DEF vars
<1>19. QED
  BY <1>1, <1>2, <1>3, <1>4, <1>5, <1>6, <1>7, <1>8, <1>9, <1>10, <1>11,
     <1>12, <1>13, <1>14, <1>15, <1>16, <1>17, <1>18
     DEF Next, Dissemination, SinkScheduler

\* Every variable keeps its type, and the sink's phase its shape.
THEOREM TypeCorrect == Spec => []TypeOK
<1>1. TypeInv => TypeOK
  BY DEF TypeInv
<1>2. QED
  BY <1>1, TypeInit, TypeStep, PTL DEF Spec
-----------------------------------------------------------------------------
(***************************************************************************)
(* Sequence numbers follow generations, and generations travel one way:    *)
(* sink, packet, node's copy, node's configuration.                        *)
(***************************************************************************)
SeqInv ==
  /\ \A h \in Host : glossy_config_data[h].seq_no = glossy_config_data[h].gen % SeqMod
  /\ \A h \in Host : config_seq_no[h] = gen[h] % SeqMod
  /\ packet.seq_no = packet.gen % SeqMod
  /\ \A h \in Host : gen[h] <= glossy_config_data[h].gen
  /\ \A n \in Node : glossy_config_data[n].gen <= packet.gen
  /\ packet.gen <= glossy_config_data[Sink].gen
  /\ OnlyWrapHides

\* A number has one remainder.
LEMMA Remainder ==
  ASSUME NEW S \in Nat \ {0}, NEW q \in Nat, NEW r \in 0..(S - 1)
  PROVE  (S * q + r) % S = r
<1> DEFINE a == S * q + r
           Q == a \div S
           R == a % S
<1>1. S * q \in Nat /\ a \in Nat
  OBVIOUS
<1>2. Q \in Nat /\ R \in 0..(S - 1) /\ a = S * Q + R
  <2> HIDE DEF a
  <2>1. QED
    BY <1>1
<1> HIDE DEF Q, R
<1>3. S * Q \in Nat
  BY <1>2
<1>4. ~(q > Q)
  <2> SUFFICES ASSUME q > Q PROVE FALSE
    OBVIOUS
  <2>1. PICK d \in Nat : q = Q + 1 + d
    <3>1. q - Q - 1 \in Nat /\ q = Q + 1 + (q - Q - 1)
      BY <1>2
    <3>2. QED
      BY <3>1
  <2>2. S * q = S * Q + S + S * d
    BY <1>2, <2>1
  <2>3. S * d \in Nat
    BY <2>1
  <2>4. QED
    BY <1>1, <1>2, <1>3, <2>2, <2>3
<1>5. ~(q < Q)
  <2> SUFFICES ASSUME q < Q PROVE FALSE
    OBVIOUS
  <2>1. PICK d \in Nat : Q = q + 1 + d
    <3>1. Q - q - 1 \in Nat /\ Q = q + 1 + (Q - q - 1)
      BY <1>2
    <3>2. QED
      BY <3>1
  <2>2. S * Q = S * q + S + S * d
    BY <1>2, <2>1
  <2>3. S * d \in Nat
    BY <2>1
  <2>4. QED
    BY <1>1, <1>2, <1>3, <2>2, <2>3
<1>6. q = Q
  BY <1>2, <1>4, <1>5
<1>7. R = r
  BY <1>1, <1>2, <1>6
<1>8. QED
  BY <1>7 DEF R

\* Incrementing the wrapped number is wrapping the incremented one.
LEMMA WrappedIncrement ==
  \A g \in Nat : ((g % SeqMod) + 1) % SeqMod = (g + 1) % SeqMod
<1> SUFFICES ASSUME NEW g \in Nat
             PROVE  ((g % SeqMod) + 1) % SeqMod = (g + 1) % SeqMod
  OBVIOUS
<1> DEFINE q == g \div SeqMod
           r == g % SeqMod
<1>1. q \in Nat /\ r \in 0..(SeqMod - 1) /\ g = SeqMod * q + r
  OBVIOUS
<1> HIDE DEF q, r
<1>2. CASE r + 1 < SeqMod
  <2>1. r + 1 \in 0..(SeqMod - 1) /\ g + 1 = SeqMod * q + (r + 1)
    BY <1>1, <1>2
  <2>2. (g + 1) % SeqMod = r + 1
    BY <1>1, <2>1, Remainder
  <2>3. (r + 1) % SeqMod = r + 1
    BY <1>1, <1>2
  <2>4. QED
    BY <2>2, <2>3 DEF r
<1>3. CASE r + 1 = SeqMod
  <2>1. g + 1 = SeqMod * (q + 1) + 0
    BY <1>1, <1>3
  <2>2. 0 \in 0..(SeqMod - 1) /\ q + 1 \in Nat
    BY <1>1
  <2>3. (g + 1) % SeqMod = 0
    BY <2>1, <2>2, Remainder
  <2>4. SeqMod % SeqMod = 0
    OBVIOUS
  <2>5. QED
    BY <1>3, <2>3, <2>4 DEF r
<1>4. QED
  BY <1>1, <1>2, <1>3

LEMMA SeqInit == Init => SeqInv
<1> SUFFICES ASSUME Init PROVE SeqInv
  OBVIOUS
<1>1. 0 % SeqMod = 0
  OBVIOUS
<1>2. QED
  BY <1>1 DEF Init, SeqInv, OnlyWrapHides

\* The end of a phase at any host.
LEMMA SeqTakeOver ==
  ASSUME TypeInv, SeqInv, NEW h \in Host, TakeOver(h),
         UNCHANGED <<glossy_config_data, packet>>,
         waiting' \in {waiting, waiting \ {h}}
  PROVE  SeqInv'
<1> USE DEF TypeInv, TypeOK, SeqInv, OnlyWrapHides
<1>1. \A k \in Host : config_seq_no'[k] = gen'[k] % SeqMod
  BY TakeOverEffect
<1>2. \A k \in Host : gen'[k] <= glossy_config_data[k].gen
  BY TakeOverEffect
<1>3. config_seq_no'[h] = glossy_config_data[h].seq_no
  BY TakeOverEffect
<1>4. \A k \in Host \ {h} : gen'[k] = gen[k]
  BY TakeOverEffect
<1>5. OnlyWrapHides'
  BY <1>1, <1>2, <1>3, <1>4
<1>6. QED
  BY <1>1, <1>2, <1>5

LEMMA SeqStep == TypeInv /\ SeqInv /\ [Next]_vars => SeqInv'
<1> SUFFICES ASSUME TypeInv, SeqInv, [Next]_vars PROVE SeqInv'
  OBVIOUS
<1> USE DEF TypeInv, TypeOK, SeqInv, OnlyWrapHides, process, preempted, adaption, scheduler, air
<1>1. CASE SendLine \/ TakeLine \/ Parse \/ CheckGlossy \/ Resume
  BY <1>1 DEF SendLine, TakeLine, Parse, ParseField, CheckGlossy, Resume
<1>2. CASE IncrementSeqNo
  <2>1. glossy_config_data'[Sink].seq_no = glossy_config_data'[Sink].gen % SeqMod
    BY <1>2, WrappedIncrement DEF IncrementSeqNo
  <2>2. /\ glossy_config_data'[Sink].gen = glossy_config_data[Sink].gen + 1
        /\ \A n \in Node : glossy_config_data'[n] = glossy_config_data[n]
    BY <1>2 DEF IncrementSeqNo
  <2>3. UNCHANGED <<config_seq_no, gen, waiting, packet>>
    BY <1>2 DEF IncrementSeqNo
  <2>4. \A h \in Host : glossy_config_data'[h].seq_no = glossy_config_data'[h].gen % SeqMod
    BY <2>1, <2>2
  <2>5. \A h \in Host : gen'[h] <= glossy_config_data'[h].gen
    BY <2>2, <2>3
  <2>6. /\ packet'.gen <= glossy_config_data'[Sink].gen
        /\ \A n \in Node : glossy_config_data'[n].gen <= packet'.gen
    BY <2>2, <2>3
  <2>7. OnlyWrapHides'
    BY <2>2, <2>3
  <2>8. (packet.seq_no = packet.gen % SeqMod)' /\ (\A h \in Host : config_seq_no[h] = gen[h] % SeqMod)'
    BY <2>3
  <2>9. QED
    BY <2>4, <2>5, <2>6, <2>7, <2>8 DEF SeqInv
<1>3. CASE Copy
  <2>1. \A h \in Host : /\ glossy_config_data'[h].seq_no = glossy_config_data[h].seq_no
                        /\ glossy_config_data'[h].gen = glossy_config_data[h].gen
    BY <1>3 DEF Copy, CopyField
  <2>2. UNCHANGED <<config_seq_no, gen, waiting, packet>>
    BY <1>3 DEF Copy, CopyField
  <2>3. QED
    BY <2>1, <2>2
<1>4. ASSUME NEW h \in Host, Adapt(h) PROVE SeqInv'
  BY <1>4 DEF Adapt
<1>5. CASE StartFlood
  BY <1>5 DEF StartFlood
<1>6. CASE InitiatorTimeout
  BY <1>6 DEF InitiatorTimeout
<1>7. CASE LastTransmission \/ StopGlossy \/ StartSlot
  BY <1>7 DEF LastTransmission, StopGlossy, StartSlot
<1>8. CASE EndPhase
  <2>1. TakeOver(Sink)
    BY <1>8 DEF EndPhase
  <2>2. UNCHANGED <<glossy_config_data, packet, waiting>>
    BY <1>8 DEF EndPhase
  <2>3. QED
    BY <2>1, <2>2, SeqTakeOver
<1>9. ASSUME NEW n \in Node, Receive(n) PROVE SeqInv'
  BY <1>9 DEF Receive
<1>10. ASSUME NEW n \in Node, EndNodePhase(n) PROVE SeqInv'
  BY <1>10, SeqTakeOver DEF EndNodePhase
<1>11. ASSUME NEW n \in Node, Reboot(n) PROVE SeqInv'
  <2>1. 0 % SeqMod = 0
    OBVIOUS
  <2>2. QED
    BY <1>11, <2>1 DEF Reboot
<1>12. CASE UNCHANGED vars
  BY <1>12 DEF vars
<1>13. QED
  BY <1>1, <1>2, <1>3, <1>4, <1>5, <1>6, <1>7, <1>8, <1>9, <1>10, <1>11, <1>12
     DEF Next, Dissemination, SinkScheduler

\* A finished node that does not run what it last received was deceived by the
\* wrap of seq_no: however glossy_scheduler interrupts the sink's process,
\* whichever floods are lost and whoever restarts.
THEOREM OnlyWrapHidesHolds == Spec => []OnlyWrapHides
<1>1. SeqInv => OnlyWrapHides
  BY DEF SeqInv
<1>2. QED
  BY <1>1, TypeInit, TypeStep, SeqInit, SeqStep, PTL DEF Spec

\* What ForwardOnly says of one step.
LEMMA ForwardStep ==
  ASSUME TypeInv, SeqInv, [Next]_vars, NEW n \in Node
  PROVE  gen'[n] >= gen[n] \/ reboots' # reboots
<1> USE DEF TypeInv, TypeOK, SeqInv, process, preempted, adaption, scheduler, air
<1>1. gen[n] >= gen[n]
  OBVIOUS
<1>2. CASE EndPhase
  BY <1>1, <1>2, TakeOverEffect DEF EndPhase
<1>3. ASSUME NEW m \in Node, EndNodePhase(m)
      PROVE  gen'[n] >= gen[n]
  BY <1>1, <1>3, TakeOverEffect DEF EndNodePhase
<1>4. ASSUME NEW m \in Node, Reboot(m)
      PROVE  reboots' # reboots
  BY <1>4 DEF Reboot
<1>5. ASSUME ~EndPhase, ~\E m \in Node : EndNodePhase(m) \/ Reboot(m)
      PROVE  UNCHANGED gen
  BY <1>5 DEF Next, Dissemination, SinkScheduler, SendLine, TakeLine, Parse,
     ParseField, CheckGlossy, Resume, IncrementSeqNo, Copy, CopyField, Adapt,
     StartFlood, InitiatorTimeout, LastTransmission, StopGlossy, StartSlot,
     Receive, vars
<1>6. QED
  BY <1>1, <1>2, <1>3, <1>4, <1>5

\* No lost or repeated flood, torn payload or wrapped number takes a node back
\* to a configuration older than the one it runs.
THEOREM ForwardOnlyHolds == Spec => ForwardOnly
<1>1. TypeInv /\ SeqInv /\ [Next]_vars
        => [\A n \in Node : gen'[n] >= gen[n] \/ reboots' # reboots]_vars
  BY ForwardStep
<1>2. QED
  BY <1>1, TypeInit, TypeStep, SeqInit, SeqStep, PTL DEF Spec, ForwardOnly
-----------------------------------------------------------------------------
(***************************************************************************)
(* What a node holds was in a flood.                                       *)
(***************************************************************************)
FloodInv ==
  /\ Whole(0) \in flooded
  /\ packet.cfg \in flooded
  /\ \A n \in Node : glossy_config_data[n].cfg \in flooded
  /\ \A n \in Node : new_cfg[n] \in flooded
  /\ FromOneFlood

LEMMA FloodInit == Init => FloodInv
BY DEF Init, FloodInv, FromOneFlood

LEMMA FloodStep == TypeInv /\ FloodInv /\ [Next]_vars => FloodInv'
<1> SUFFICES ASSUME TypeInv, FloodInv, [Next]_vars PROVE FloodInv'
  OBVIOUS
<1> USE DEF TypeInv, TypeOK, FloodInv, FromOneFlood, process, preempted, adaption, scheduler, air
<1>1. CASE SendLine \/ TakeLine \/ CheckGlossy \/ Resume
  BY <1>1 DEF SendLine, TakeLine, CheckGlossy, Resume
<1>2. CASE Parse
  BY <1>2 DEF Parse, ParseField
<1>3. CASE IncrementSeqNo \/ Copy
  BY <1>3 DEF IncrementSeqNo, Copy, CopyField
<1>4. ASSUME NEW h \in Host, Adapt(h) PROVE FloodInv'
  BY <1>4 DEF Adapt
<1>5. CASE StartFlood \/ InitiatorTimeout
  BY <1>5 DEF StartFlood, InitiatorTimeout
<1>6. CASE LastTransmission \/ StopGlossy \/ StartSlot
  BY <1>6 DEF LastTransmission, StopGlossy, StartSlot
<1>7. CASE EndPhase
  BY <1>7, TakeOverEffect DEF EndPhase
<1>8. ASSUME NEW n \in Node, Receive(n) PROVE FloodInv'
  BY <1>8 DEF Receive
<1>9. ASSUME NEW n \in Node, EndNodePhase(n) PROVE FloodInv'
  BY <1>9, TakeOverEffect DEF EndNodePhase
<1>10. ASSUME NEW n \in Node, Reboot(n) PROVE FloodInv'
  BY <1>10 DEF Reboot
<1>11. CASE UNCHANGED vars
  BY <1>11 DEF vars
<1>12. QED
  BY <1>1, <1>2, <1>3, <1>4, <1>5, <1>6, <1>7, <1>8, <1>9, <1>10, <1>11
     DEF Next, Dissemination, SinkScheduler

\* Copying from the packet to the MAC layer, over an interrupt and a polled
\* process, never mixes two floods at a node.
THEOREM FromOneFloodHolds == Spec => []FromOneFlood
<1>1. FloodInv => FromOneFlood
  BY DEF FloodInv
<1>2. QED
  BY <1>1, TypeInit, TypeStep, FloodInit, FloodStep, PTL DEF Spec
-----------------------------------------------------------------------------
(***************************************************************************)
(* Until an interrupt meets a configuration half done, whatever anybody    *)
(* reads is whole: `AtomicInv` holds unless `disturbed`.                   *)
(***************************************************************************)
Rounding == {"round_tl", "round_ts"}
Parsing == {"parse_n", "parse_tl", "parse_ts", "check", "pause", "seq"} \cup Rounding

\* Every line is the next one, and is counted when it is published.
RunInv ==
  /\ IF line = 0 THEN sent = parsing ELSE line = sent /\ sent = parsing + 1
  /\ parsing = glossy_config_data[Sink].gen + (IF pc \in Parsing THEN 1 ELSE 0)

\* What the run has parsed and copied so far.
CopyInv ==
  LET new == new_cfg[Sink]
      cfg == glossy_config_data[Sink].cfg
  IN  /\ pc \in {"parse_tl", "parse_ts"} \cup Rounding => new.n = parsing
      /\ pc \in {"parse_ts", "round_tl"} => new.t_l \in {parsing, Raw}
      /\ pc = "round_ts" => new.t_l = parsing
      /\ pc \in Rounding => new.t_s \in {parsing, Raw}
      /\ pc \in {"wait", "check", "pause", "seq"} \cup Copying => new = Whole(parsing)
      /\ pc \notin Copying => cfg = Whole(glossy_config_data[Sink].gen)
      /\ pc \in {"copy_ts", "copy_n"} => cfg.t_l = parsing
      /\ pc = "copy_n" => cfg.t_s = parsing

\* The sink takes over what it has published, before it parses another line.
SinkInv ==
  Sink \in polled => pc = "wait" /\ gen[Sink] = glossy_config_data[Sink].gen

\* Whatever travels is a whole configuration under its own number.
NodeInv ==
  /\ packet.cfg = Whole(packet.gen)
  /\ \A n \in Node : /\ glossy_config_data[n].cfg = Whole(glossy_config_data[n].gen)
                     /\ new_cfg[n] = Whole(gen[n])

\* Who has adapted runs the line that its generation counts.
AdaptedInv == \A h \in Host \ polled : current_cfg[h] = Whole(gen[h])

AtomicInv == RunInv /\ CopyInv /\ SinkInv /\ NodeInv /\ AdaptedInv

LEMMA AtomicInit == Init => AtomicInv
<1> SUFFICES ASSUME Init PROVE AtomicInv
  OBVIOUS
<1> USE DEF Init
<1>1. RunInv
  BY DEF RunInv, Parsing, Rounding
<1>2. CopyInv
  BY DEF CopyInv, Rounding
<1>3. SinkInv /\ NodeInv /\ AdaptedInv
  BY DEF SinkInv, NodeInv, AdaptedInv
<1>4. QED
  BY <1>1, <1>2, <1>3 DEF AtomicInv

\* What the end of a phase leaves at a host.
LEMMA AtomicTakeOver ==
  ASSUME TypeInv, AtomicInv, NEW h \in Host, TakeOver(h), h = Sink => pc = "wait",
         UNCHANGED <<glossy_config_data, packet, current_cfg, pc, parsing, line, sent>>
  PROVE  AtomicInv'
<1> USE DEF TypeInv, TypeOK, AtomicInv
<1>1. RunInv'
  BY DEF RunInv
<1>2. CopyInv' /\ SinkInv'
  <2>1. CASE h = Sink
    BY <2>1, TakeOverEffect DEF CopyInv, SinkInv, RunInv, Parsing, Rounding
  <2>2. CASE h # Sink
    <3>1. UNCHANGED new_cfg[Sink] /\ gen'[Sink] = gen[Sink] /\ (Sink \in polled' <=> Sink \in polled)
      BY <2>2, TakeOverEffect
    <3>2. QED
      BY <3>1 DEF CopyInv, SinkInv, Rounding
  <2>3. QED
    BY <2>1, <2>2
<1>3. NodeInv'
  BY TakeOverEffect DEF NodeInv
<1>4. AdaptedInv'
  <2> SUFFICES ASSUME NEW k \in Host \ polled'
               PROVE  current_cfg[k] = Whole(gen'[k])
    BY DEF AdaptedInv
  <2>1. k \notin polled /\ gen'[k] = gen[k]
    BY TakeOverEffect
  <2>2. QED
    BY <2>1 DEF AdaptedInv
<1>5. QED
  BY <1>1, <1>2, <1>3, <1>4

\* Steps that touch neither process nor configurations.
LEMMA AtomicElsewhere ==
  ASSUME AtomicInv,
         UNCHANGED <<pc, parsing, line, sent, new_cfg, glossy_config_data, adaption, current_cfg>>,
         packet' = packet \/ (packet' = glossy_config_data[Sink] /\ pc \notin Copying)
  PROVE  AtomicInv'
<1> USE DEF AtomicInv, adaption
<1>1. RunInv' /\ CopyInv' /\ SinkInv' /\ AdaptedInv'
  BY DEF RunInv, CopyInv, SinkInv, AdaptedInv
<1>2. NodeInv'
  BY DEF NodeInv, CopyInv
<1>3. QED
  BY <1>1, <1>2

\* The runs of the dissemination process.
LEMMA AtomicDissemination ==
  ASSUME TypeInv, AtomicInv, Dissemination, ~disturbed'
  PROVE  AtomicInv'
<1> USE DEF AtomicInv, TypeInv, TypeOK, process, preempted, adaption, scheduler, air
<1>0. ASSUME UNCHANGED <<current_cfg, gen, polled>>
      PROVE  AdaptedInv'
  BY <1>0 DEF AdaptedInv
<1>1. CASE TakeLine
  <2>1. RunInv'
    BY <1>1 DEF TakeLine, CanDispatchEvent, KernelFree, RunInv, Parsing, Rounding
  <2>2. CopyInv' /\ SinkInv' /\ NodeInv'
    BY <1>1 DEF TakeLine, CanDispatchEvent, KernelFree, CopyInv, SinkInv, NodeInv, Rounding
  <2>3. QED
    BY <1>0, <1>1, <2>1, <2>2 DEF TakeLine
<1>2. CASE Parse
  <2>1. RunInv' /\ SinkInv'
    BY <1>2 DEF Parse, ParseField, RunInv, SinkInv, Parsing, Rounding
  <2>2. CopyInv'
    BY <1>2 DEF Parse, ParseField, Rounded, CopyInv, Rounding
  <2>3. NodeInv'
    BY <1>2 DEF Parse, ParseField, NodeInv
  <2>4. QED
    BY <1>0, <1>2, <2>1, <2>2, <2>3 DEF Parse, ParseField
<1>3. CASE CheckGlossy
  <2>1. RunInv' /\ SinkInv'
    BY <1>3 DEF CheckGlossy, RunInv, SinkInv, Parsing, Rounding
  <2>2. CopyInv' /\ NodeInv'
    BY <1>3 DEF CheckGlossy, RunInv, CopyInv, NodeInv, Rounding
  <2>3. QED
    BY <1>0, <1>3, <2>1, <2>2 DEF CheckGlossy
<1>4. CASE Resume
  <2>1. RunInv' /\ SinkInv'
    BY <1>4 DEF Resume, RunInv, SinkInv, Parsing, Rounding
  <2>2. CopyInv' /\ NodeInv'
    BY <1>4 DEF Resume, CopyInv, NodeInv, Rounding
  <2>3. QED
    BY <1>0, <1>4, <2>1, <2>2 DEF Resume
<1>5. CASE IncrementSeqNo
  <2>1. /\ glossy_config_data'[Sink].gen = glossy_config_data[Sink].gen + 1
        /\ glossy_config_data'[Sink].cfg = glossy_config_data[Sink].cfg
        /\ \A n \in Node : glossy_config_data'[n] = glossy_config_data[n]
    BY <1>5 DEF IncrementSeqNo
  <2>2. RunInv' /\ SinkInv'
    BY <1>5, <2>1 DEF IncrementSeqNo, RunInv, SinkInv, Parsing, Rounding
  <2>3. CopyInv' /\ NodeInv'
    BY <1>5, <2>1 DEF IncrementSeqNo, CopyInv, NodeInv, Rounding
  <2>4. QED
    BY <1>0, <1>5, <2>2, <2>3 DEF IncrementSeqNo
<1>6. CASE Copy
  <2>1. /\ glossy_config_data'[Sink].gen = glossy_config_data[Sink].gen
        /\ \A n \in Node : glossy_config_data'[n] = glossy_config_data[n]
    BY <1>6 DEF Copy, CopyField
  <2>2. RunInv' /\ SinkInv'
    BY <1>6, <2>1 DEF Copy, CopyField, RunInv, SinkInv, Parsing, Rounding
  <2>3. CopyInv'
    BY <1>6 DEF Copy, CopyField, CopyInv, RunInv, Rounding, Parsing, Rounding
  <2>4. NodeInv'
    BY <1>6, <2>1 DEF Copy, CopyField, NodeInv
  <2>5. QED
    BY <1>0, <1>6, <2>2, <2>3, <2>4 DEF Copy, CopyField
<1>7. QED
  BY <1>1, <1>2, <1>3, <1>4, <1>5, <1>6 DEF Dissemination

\* An adaption runs the host's generation.
LEMMA AdaptEffect ==
  ASSUME TypeInv, AtomicInv, NEW h \in Host, Adapt(h)
  PROVE  current_cfg' = [current_cfg EXCEPT ![h] = Whole(gen[h])]
<1>1. new_cfg[h] = Whole(gen[h])
  <2>1. CASE h = Sink
    BY <2>1 DEF Adapt, AtomicInv, SinkInv, CopyInv, RunInv, Parsing, Rounding, TypeInv, TypeOK
  <2>2. CASE h # Sink
    BY <2>2 DEF AtomicInv, NodeInv
  <2>3. QED
    BY <2>1, <2>2
<1>2. QED
  BY <1>1 DEF Adapt

LEMMA AtomicStep ==
  ASSUME TypeInv, AtomicInv, [Next]_vars, ~disturbed'
  PROVE  AtomicInv'
<1>2. CASE SendLine
  <2>1. RunInv'
    BY <1>2 DEF SendLine, process, scheduler, TypeInv, TypeOK, AtomicInv, RunInv
  <2>2. CopyInv' /\ SinkInv' /\ NodeInv' /\ AdaptedInv'
    BY <1>2 DEF SendLine, process, adaption, air, AtomicInv, CopyInv, SinkInv,
                NodeInv, AdaptedInv
  <2>3. QED
    BY <2>1, <2>2 DEF AtomicInv
<1>3. CASE Dissemination
  BY <1>3, AtomicDissemination
<1>4. ASSUME NEW h \in Host, Adapt(h) PROVE AtomicInv'
  <2>1. RunInv' /\ CopyInv' /\ NodeInv' /\ SinkInv'
    BY <1>4 DEF Adapt, process, scheduler, air, AtomicInv, RunInv, CopyInv,
                NodeInv, SinkInv
  <2>2. current_cfg' = [current_cfg EXCEPT ![h] = Whole(gen[h])]
    BY <1>4, AdaptEffect
  <2>3. AdaptedInv'
    BY <1>4, <2>2 DEF Adapt, AtomicInv, AdaptedInv, TypeInv, TypeOK
  <2>4. QED
    BY <2>1, <2>3 DEF AtomicInv
<1>5. CASE StartFlood \/ InitiatorTimeout \/ LastTransmission \/ StopGlossy \/ StartSlot
  <2>1. packet' = packet \/ (packet' = glossy_config_data[Sink] /\ pc \notin Copying)
    BY <1>5 DEF StartFlood, InitiatorTimeout, LastTransmission, StopGlossy, StartSlot,
                Interrupt, air
  <2>2. UNCHANGED <<pc, parsing, line, sent, new_cfg, glossy_config_data, adaption, current_cfg>>
    BY <1>5 DEF StartFlood, InitiatorTimeout, LastTransmission, StopGlossy, StartSlot, process
  <2>3. QED
    BY <2>1, <2>2, AtomicElsewhere
<1>6. CASE EndPhase
  <2>1. UNCHANGED <<glossy_config_data, packet, current_cfg, pc, parsing, line, sent>>
    BY <1>6 DEF EndPhase, process, air
  <2>2. CASE pc = "wait"
    BY <1>6, <2>1, <2>2, AtomicTakeOver DEF EndPhase
  <2>3. CASE pc # "wait"
    <3>1. ~IsNew(Sink)
      BY <1>6, <2>3 DEF EndPhase, Interrupt
    <3>2. UNCHANGED <<adaption, new_cfg>>
      BY <1>6, <3>1 DEF EndPhase, TakeOver
    <3>3. QED
      BY <2>1, <3>2, AtomicElsewhere
  <2>4. QED
    BY <2>2, <2>3
<1>7. ASSUME NEW n \in Node, EndNodePhase(n) PROVE AtomicInv'
  <2>1. TakeOver(n) /\ n # Sink
    BY <1>7 DEF EndNodePhase
  <2>2. UNCHANGED <<glossy_config_data, packet, current_cfg, pc, parsing, line, sent>>
    BY <1>7 DEF EndNodePhase, process
  <2>3. QED
    BY <2>1, <2>2, AtomicTakeOver
<1>8. ASSUME NEW n \in Node, Receive(n) PROVE AtomicInv'
  <2>1. /\ glossy_config_data'[Sink] = glossy_config_data[Sink]
        /\ \A m \in Node : glossy_config_data'[m] \in {glossy_config_data[m], packet}
    BY <1>8 DEF Receive, TypeInv, TypeOK
  <2>2. RunInv' /\ CopyInv' /\ SinkInv' /\ AdaptedInv'
    BY <1>8, <2>1 DEF Receive, process, adaption, scheduler, AtomicInv, RunInv,
                      CopyInv, SinkInv, AdaptedInv
  <2>3. NodeInv'
    BY <1>8, <2>1 DEF Receive, adaption, AtomicInv, NodeInv
  <2>4. QED
    BY <2>2, <2>3 DEF AtomicInv
<1>9. ASSUME NEW n \in Node, Reboot(n) PROVE AtomicInv'
  <2>1. /\ glossy_config_data'[Sink] = glossy_config_data[Sink]
        /\ new_cfg'[Sink] = new_cfg[Sink] /\ gen'[Sink] = gen[Sink]
        /\ Sink \in polled' <=> Sink \in polled
    BY <1>9 DEF Reboot, TypeInv, TypeOK
  <2>2. RunInv' /\ CopyInv' /\ SinkInv'
    BY <1>9, <2>1 DEF Reboot, process, scheduler, AtomicInv, RunInv, CopyInv, SinkInv
  <2>3. NodeInv'
    BY <1>9 DEF Reboot, TypeInv, TypeOK, AtomicInv, NodeInv
  <2>4. AdaptedInv'
    BY <1>9 DEF Reboot, TypeInv, TypeOK, AtomicInv, AdaptedInv
  <2>5. QED
    BY <2>2, <2>3, <2>4 DEF AtomicInv
<1>10. CASE UNCHANGED vars
  <2>1. UNCHANGED <<pc, parsing, line, sent, new_cfg, glossy_config_data, adaption, current_cfg, packet>>
    BY <1>10 DEF vars, process, air
  <2>2. QED
    BY <2>1, AtomicElsewhere
<1>11. QED
  BY <1>2, <1>3, <1>4, <1>5, <1>6, <1>7, <1>8, <1>9, <1>10 DEF Next, SinkScheduler

\* What was disturbed stays so.
LEMMA DisturbedStays ==
  ASSUME [Next]_vars, disturbed
  PROVE  disturbed'
BY DEF Next, Dissemination, SinkScheduler, SendLine, TakeLine, Parse, ParseField, CheckGlossy,
   Resume, IncrementSeqNo, Copy, CopyField, Adapt, StartFlood, InitiatorTimeout,
   LastTransmission, StopGlossy, StartSlot, EndPhase, Interrupt, Receive, EndNodePhase, Reboot,
   vars, preempted

\* Wherever the interrupts fall, a host that adapted runs the whole of the line its
\* generation counts, until one of them meets a configuration half parsed or half copied.
THEOREM RunsItsGenerationHolds == Spec => []RunsItsGeneration
<1>1. TypeInv /\ (disturbed \/ AtomicInv) /\ [Next]_vars => (disturbed \/ AtomicInv)'
  BY AtomicStep, DisturbedStays
<1>2. disturbed \/ AtomicInv => RunsItsGeneration
  BY DEF AtomicInv, AdaptedInv, RunsItsGeneration
<1>3. QED
  BY <1>1, <1>2, TypeInit, TypeStep, AtomicInit, PTL DEF Spec
-----------------------------------------------------------------------------
(***************************************************************************)
(* Until they are disturbed the details implement the register.            *)
(***************************************************************************)
\* What a host runs is no later than its generation, which the controller has sent.
HeldInv == \A h \in Host : \E u \in 0..gen[h] : current_cfg[h] = Whole(u)

LEMMA HeldInit == Init => HeldInv
BY DEF Init, HeldInv

LEMMA NoneFromTheFuture ==
  ASSUME TypeInv, SeqInv
  PROVE  \A h \in Host : gen[h] \in 0..sent
BY DEF TypeInv, TypeOK, LineInv, SeqInv

LEMMA HeldStep ==
  ASSUME TypeInv, SeqInv, AtomicInv, HeldInv, [Next]_vars
  PROVE  HeldInv'
<1> USE DEF TypeInv, TypeOK, HeldInv, process, preempted, adaption, scheduler, air
<1>1. ASSUME NEW h \in Host, TakeOver(h), UNCHANGED current_cfg PROVE HeldInv'
  <2>1. \A k \in Host : gen[k] \in Nat /\ gen'[k] \in Nat /\ gen[k] <= gen'[k]
    BY <1>1, TakeOverEffect DEF SeqInv
  <2>2. SUFFICES ASSUME NEW k \in Host
                 PROVE  \E u \in 0..gen'[k] : current_cfg[k] = Whole(u)
    BY <1>1
  <2>3. PICK u \in 0..gen[k] : current_cfg[k] = Whole(u)
    OBVIOUS
  <2>4. u \in 0..gen'[k]
    BY <2>1
  <2>5. QED
    BY <2>3, <2>4
<1>2. CASE EndPhase
  BY <1>1, <1>2 DEF EndPhase
<1>3. ASSUME NEW n \in Node, EndNodePhase(n) PROVE HeldInv'
  BY <1>1, <1>3 DEF EndNodePhase
<1>4. ASSUME NEW h \in Host, Adapt(h) PROVE HeldInv'
  <2>1. current_cfg' = [current_cfg EXCEPT ![h] = Whole(gen[h])] /\ UNCHANGED gen
    BY <1>4, AdaptEffect DEF Adapt
  <2>2. current_cfg'[h] = Whole(gen[h]) /\ gen[h] \in 0..gen[h]
    BY <2>1
  <2>3. \A k \in Host \ {h} : current_cfg'[k] = current_cfg[k]
    BY <2>1
  <2>4. QED
    BY <2>1, <2>2, <2>3
<1>5. ASSUME NEW n \in Node, Reboot(n) PROVE HeldInv'
  BY <1>5 DEF Reboot
<1>6. ASSUME ~EndPhase, ~(\E n \in Node : EndNodePhase(n) \/ Reboot(n)),
             ~\E h \in Host : Adapt(h)
      PROVE  UNCHANGED <<gen, current_cfg>>
  BY <1>6 DEF Next, Dissemination, SinkScheduler, SendLine, TakeLine, Parse,
     ParseField, CheckGlossy, Resume, IncrementSeqNo, Copy, CopyField,
     StartFlood, InitiatorTimeout, LastTransmission, StopGlossy, StartSlot,
     Receive, vars
<1>7. QED
  BY <1>2, <1>3, <1>4, <1>5, <1>6

LEMMA RegisterStep ==
  ASSUME TypeInv, SeqInv, disturbed \/ (AtomicInv /\ HeldInv), [Next]_vars
  PROVE  [Register!Next]_<<sent, current_cfg, disturbed>>
<1>a. CASE disturbed'
  BY <1>a DEF Register!Next
<1>b. SUFFICES ASSUME ~disturbed'
               PROVE  [Register!Next]_<<sent, current_cfg, disturbed>>
  BY <1>a
<1>c. ~disturbed /\ AtomicInv /\ HeldInv /\ UNCHANGED disturbed
  <2>1. ~disturbed
    BY <1>b, DisturbedStays
  <2>2. disturbed \in BOOLEAN /\ disturbed' \in BOOLEAN
    BY TypeStep DEF TypeInv, TypeOK
  <2>3. QED
    BY <1>b, <2>1, <2>2
<1> DEFINE Value == [v \in Version |-> Whole(v)]
<1>0. sent \in 0..MaxConfig
  BY DEF TypeInv, TypeOK
<1>1. CASE SendLine
  BY <1>1, <1>c DEF SendLine, air, Register!Next, Register!Publish
<1>2. ASSUME NEW h \in Host, Adapt(h)
      PROVE  [Register!Next]_<<sent, current_cfg, disturbed>>
  <2>1. current_cfg' = [current_cfg EXCEPT ![h] = Whole(gen[h])] /\ UNCHANGED sent
    BY <1>2, <1>c, AdaptEffect DEF Adapt
  <2>2. gen[h] \in 0..sent
    BY NoneFromTheFuture
  <2>3. PICK u \in 0..gen[h] : current_cfg[h] = Whole(u)
    BY <1>c DEF HeldInv
  <2>4. CASE u = gen[h]
    BY <1>c, <2>1, <2>3, <2>4 DEF TypeInv, TypeOK
  <2>5. CASE u # gen[h]
    <3>1. u \in 0..sent /\ gen[h] \in (u + 1)..sent /\ {u, gen[h]} \subseteq Version
      BY <1>0, <2>2, <2>5
    <3>2. Value[u] = Whole(u) /\ Value[gen[h]] = Whole(gen[h])
      BY <3>1
    <3>3. Register!Adopt(h)
      <4>1. /\ current_cfg[h] = Value[u]
            /\ current_cfg' = [current_cfg EXCEPT ![h] = Value[gen[h]]]
            /\ UNCHANGED sent
        BY <2>1, <2>3, <3>2
      <4> HIDE DEF Version, Whole
      <4>2. QED
        BY <3>1, <4>1, Zenon DEF Register!Adopt
    <3>4. QED
      BY <1>c, <3>3 DEF Register!Next
  <2>6. QED
    BY <2>4, <2>5
<1>3. ASSUME NEW n \in Node, Reboot(n)
      PROVE  [Register!Next]_<<sent, current_cfg, disturbed>>
  <2>1. current_cfg' = [current_cfg EXCEPT ![n] = Whole(0)] /\ UNCHANGED sent
    BY <1>3 DEF Reboot
  <2>2. Value[0] = Whole(0)
    OBVIOUS
  <2>3. Register!Restart(n)
    BY <2>1, <2>2 DEF Register!Restart
  <2>4. QED
    BY <1>c, <2>3 DEF Register!Next
<1>4. ASSUME ~SendLine, ~(\E h \in Host : Adapt(h)), ~\E n \in Node : Reboot(n)
      PROVE  UNCHANGED <<sent, current_cfg>>
  BY <1>4 DEF Next, Dissemination, SinkScheduler, TakeLine, Parse,
     ParseField, CheckGlossy, Resume, IncrementSeqNo, Copy, CopyField,
     StartFlood, InitiatorTimeout, LastTransmission, StopGlossy, StartSlot, EndPhase,
     Receive, EndNodePhase, vars, process, preempted, adaption, scheduler, air
<1>5. QED
  BY <1>c, <1>1, <1>2, <1>3, <1>4

\* Wherever the interrupts fall, hosts read the controller's configurations whole, and
\* forward unless they restart, until an interrupt meets a configuration half done.
THEOREM Refinement == Spec => ImplementsRegister
<1> DEFINE Inv == disturbed \/ (AtomicInv /\ HeldInv)
<1>1. Init => Register!Init
  BY DEF Init, Register!Init
<1>2. Init => Inv
  BY AtomicInit, HeldInit
<1>3. TypeInv /\ SeqInv /\ Inv /\ [Next]_vars => Inv'
  BY AtomicStep, HeldStep, DisturbedStays
<1>4. TypeInv /\ SeqInv /\ Inv /\ [Next]_vars
        => [Register!Next]_<<sent, current_cfg, disturbed>>
  BY RegisterStep
<1>5. QED
  BY <1>1, <1>2, <1>3, <1>4, TypeInit, TypeStep, SeqInit, SeqStep,
     PTL DEF Spec, ImplementsRegister, Register!Spec
=============================================================================
