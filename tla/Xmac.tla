-------------------------------- MODULE Xmac --------------------------------
(***************************************************************************)
(* The duty cycle of one node (xmac.c) and the radio driver below it       *)
(* (cc2420.c).  Two contexts use the radio and the same flags: the         *)
(* process that reads, sends or adapts, and the timer interrupts, which    *)
(* turn the radio on and off (powercycle), end the wait for a packet       *)
(* (timeout) and take the radio away for a Glossy phase.  An interrupt     *)
(* falls between any two assignments of the process.                       *)
(*                                                                         *)
(* What the process still has to do is a sequence of operations, each of   *)
(* them one access of what the interrupts change; a call of the driver's   *)
(* on() or off() takes two, the assignment of receive_on and the strobe.   *)
(* Time is left out but for its order of magnitude: a timer is armed or    *)
(* not, what the process does takes less than a phase of the cycle unless  *)
(* it is sending, and it sends strobes as long as it likes.  Of a frame    *)
(* only what read_packet does with it matters.                             *)
(***************************************************************************)
EXTENDS Naturals, Sequences

CONSTANT Turns   \* runs of powercycle there are at least between two Glossy phases

\* Three let the node hear again between two Glossy phases, whose first on phase
\* may be a deaf one.
ASSUME TurnsAssumption == Turns \in Nat

VARIABLES
  mac,       \* the flags of xmac.c: xmac_is_on, radio_is_on, was_timeout, we_are_sending
  pt,        \* where powercycle has yielded: in the "off" or the "on" phase
  armed,     \* timer interrupts that are enabled: "TBCCR2" (timeout), "TBCCR3" (powercycle)
  radio,     \* the flags of cc2420.c: receive_on, locked, lock_on, lock_off; and
             \* switching: what the process, which has set receive_on, is about to strobe
  listening, \* the radio itself
  fifo,      \* the frame in the radio's buffer
  glossy,    \* a Glossy phase is going on
  adapt,     \* the adaptation process has been polled
  todo,      \* operations of the process that are left
  hit,       \* timers that do not expire again before the process is done
  turns,     \* runs of powercycle since the last Glossy phase, up to Turns
  settled    \* history: an off phase has begun with the flags of both in agreement and the
             \* radio not on behind the driver's back, and since then only the duty cycle
             \* and strobes have switched the radio

vars == <<mac, pt, armed, radio, listening, fifo, glossy, adapt, todo, hit, turns, settled>>

\* xmac_init: powercycle starts with its off phase.
Init ==
  /\ mac = [xmac_is_on |-> TRUE, radio_is_on |-> FALSE, was_timeout |-> FALSE,
            we_are_sending |-> FALSE]
  /\ pt = "on" /\ armed = {"TBCCR3"}
  /\ radio = [receive_on |-> FALSE, locked |-> FALSE, lock_on |-> FALSE, lock_off |-> FALSE,
              switching |-> "none"]
  /\ listening = FALSE /\ fifo = "none"
  /\ glossy = FALSE /\ adapt = TRUE
  /\ todo = <<>> /\ hit = {}
  /\ turns = 0 /\ settled = FALSE

-----------------------------------------------------------------------------
(***************************************************************************)
(* The radio driver.                                                       *)
(***************************************************************************)
\* on() and off() where no interrupt falls in between.
SwitchOn  == radio' = [radio EXCEPT !.receive_on = TRUE] /\ listening' = TRUE /\ fifo' = "none"
SwitchOff == radio' = [radio EXCEPT !.receive_on = FALSE] /\ listening' = FALSE /\ UNCHANGED fifo
NoSwitch  == UNCHANGED <<radio, listening, fifo>>

\* cc2420_on and cc2420_off.  While the driver is locked the request is left for the end.
RadioOn ==
  IF radio.receive_on THEN NoSwitch
  ELSE IF radio.locked
       THEN radio' = [radio EXCEPT !.lock_on = TRUE] /\ UNCHANGED <<listening, fifo>>
       ELSE SwitchOn

RadioOff ==
  IF ~radio.receive_on THEN NoSwitch
  ELSE IF radio.locked
       THEN radio' = [radio EXCEPT !.lock_off = TRUE] /\ UNCHANGED <<listening, fifo>>
       ELSE SwitchOff

\* on() and off() of xmac.c as interrupts call them; on() comes after the flags m.
On(m) ==
  IF m.xmac_is_on /\ ~m.radio_is_on
  THEN mac' = [m EXCEPT !.radio_is_on = TRUE] /\ RadioOn
  ELSE mac' = m /\ NoSwitch

Off ==
  IF mac.xmac_is_on /\ mac.radio_is_on
  THEN mac' = [mac EXCEPT !.radio_is_on = FALSE] /\ RadioOff
  ELSE mac' = mac /\ NoSwitch

-----------------------------------------------------------------------------
(***************************************************************************)
(* What the process does, as sequences of operations.                      *)
(***************************************************************************)
OnOps  == <<"test_on", "set_on", "call_on">>
OffOps == <<"test_off", "set_off", "call_off">>
\* Fault: an early return leaves the driver locked.
Access_NoRelease == <<"lock">>

\* cc2420_read and cc2420_send, between GET_LOCK and the end of RELEASE_LOCK.
Access == <<"lock", "release_on", "release_off", "unlock">>
Send == <<"lock", "transmit", "release_on", "release_off", "unlock">>
EndOps == OffOps \o <<"end_sending">>

\* read_packet, by the frame that has been read.
ReadOps ==
  [strobe    |-> Access \o <<"test_timeout", "disable_TBCCR3", "enable_TBCCR2", "set_timeout">>
                   \o OnOps \o Send,
   data      |-> Access \o OffOps \o Send,
   broadcast |-> Access \o OffOps,
   other     |-> Access, ack |-> Access]

\* A packet is read, or sent, or a new configuration is set.
ReadPacket ==
  /\ todo = <<>> /\ fifo # "none"
  /\ hit' = {} /\ todo' = ReadOps[fifo] /\ fifo' = "none"
  /\ settled' = (settled /\ fifo \notin {"data", "broadcast"})
  /\ UNCHANGED <<mac, pt, armed, radio, listening, glossy, adapt, turns>>

SendPacket ==
  /\ todo = <<>> /\ mac.xmac_is_on
  /\ hit' = {}
  /\ todo' \in {<<"set_sending">> \o OffOps \o Send \o <<"broadcast">>,
                <<"set_sending">> \o OffOps \o OnOps \o Send \o <<"strobe">>}
  /\ UNCHANGED <<mac, pt, armed, radio, listening, fifo, glossy, adapt, turns, settled>>

SetXmacConfig ==
  /\ todo = <<>> /\ adapt /\ ~glossy
  /\ hit' = {}
  /\ todo' = <<"mac_off", "call_off", "mac_on", "enable_TBCCR3">>
  /\ adapt' = FALSE /\ settled' = FALSE /\ turns' = 0
  /\ UNCHANGED <<mac, pt, armed, radio, listening, fifo, glossy>>

\* The next operation.
Do(op) == todo # <<>> /\ Head(todo) = op
Goes == todo' = Tail(todo) /\ UNCHANGED <<pt, glossy, adapt, turns>>

TestOnOff ==
  /\ \/ Do("test_on") /\ todo' = IF mac.xmac_is_on /\ ~mac.radio_is_on THEN Tail(todo)
                                 ELSE SubSeq(todo, 4, Len(todo))
     \/ Do("test_off") /\ todo' = IF mac.xmac_is_on /\ mac.radio_is_on THEN Tail(todo)
                                  ELSE SubSeq(todo, 4, Len(todo))
  /\ UNCHANGED <<mac, pt, armed, radio, listening, fifo, glossy, adapt, hit, turns, settled>>

SetFlag ==
  /\ \/ Do("set_on") /\ mac' = [mac EXCEPT !.radio_is_on = TRUE] /\ UNCHANGED settled
     \/ Do("set_off") /\ mac' = [mac EXCEPT !.radio_is_on = FALSE] /\ UNCHANGED settled
     \/ Do("set_timeout") /\ mac' = [mac EXCEPT !.was_timeout = TRUE] /\ UNCHANGED settled
     \/ Do("set_sending") /\ mac' = [mac EXCEPT !.we_are_sending = TRUE] /\ settled' = FALSE
     \/ Do("end_sending") /\ mac' = [mac EXCEPT !.we_are_sending = FALSE] /\ UNCHANGED settled
     \/ Do("mac_off") /\ mac' = [mac EXCEPT !.xmac_is_on = FALSE] /\ UNCHANGED settled
     \/ Do("mac_on") /\ mac' = [mac EXCEPT !.xmac_is_on = TRUE] /\ UNCHANGED settled
  /\ Goes /\ NoSwitch /\ UNCHANGED <<armed, hit>>

\* cc2420_on and cc2420_off as the process calls them.  Between the assignment of
\* receive_on and the strobe that follows it an interrupt may switch the radio itself.
CallReturns ==
  /\ radio.switching = "none"
  /\ \/ Do("call_on") /\ (radio.receive_on \/ radio.locked) /\ RadioOn
     \/ Do("call_off") /\ (~radio.receive_on \/ radio.locked) /\ RadioOff
  /\ Goes /\ UNCHANGED <<mac, armed, settled, hit>>

SetReceiveOn ==
  /\ radio.switching = "none" /\ ~radio.locked
  /\ \/ /\ Do("call_on") /\ ~radio.receive_on
        /\ radio' = [radio EXCEPT !.receive_on = TRUE, !.switching = "on"]
     \/ /\ Do("call_off") /\ radio.receive_on
        /\ radio' = [radio EXCEPT !.receive_on = FALSE, !.switching = "off"]
  /\ UNCHANGED <<mac, pt, armed, listening, fifo, glossy, adapt, todo, hit, turns, settled>>

StrobeRadio ==
  /\ \/ Do("call_on") /\ radio.switching = "on" /\ listening' = TRUE /\ fifo' = "none"
     \/ Do("call_off") /\ radio.switching = "off" /\ listening' = FALSE /\ UNCHANGED fifo
  /\ radio' = [radio EXCEPT !.switching = "none"]
  /\ Goes /\ UNCHANGED <<mac, armed, settled, hit>>

Call == CallReturns \/ SetReceiveOn \/ StrobeRadio

SetTimer ==
  /\ \/ /\ Do("disable_TBCCR3")
        /\ armed' = armed \ {"TBCCR3"} /\ UNCHANGED <<hit, settled>>
     \/ /\ Do("enable_TBCCR3")
        /\ armed' = armed \cup {"TBCCR3"} /\ hit' = hit \cup {"TBCCR3"} /\ UNCHANGED settled
     \/ /\ Do("enable_TBCCR2")
        /\ armed' = armed \cup {"TBCCR2"} /\ hit' = hit \cup {"TBCCR2"}
        /\ settled' = (settled /\ armed = {})
  /\ Goes /\ NoSwitch /\ UNCHANGED mac

TestTimeout ==
  /\ Do("test_timeout")
  /\ todo' = IF mac.was_timeout THEN <<>> ELSE Tail(todo)
  /\ UNCHANGED <<mac, pt, armed, radio, listening, fifo, glossy, adapt, hit, turns, settled>>

Lock ==
  /\ \/ Do("lock") /\ radio' = [radio EXCEPT !.locked = TRUE]
     \/ Do("unlock") /\ radio' = [radio EXCEPT !.locked = FALSE]
  /\ Goes /\ UNCHANGED <<mac, armed, listening, fifo, settled, hit>>

\* The radio turns to listening after the frame.  If the driver has it off it is turned
\* off again, but not when the frame leaves after the driver has given up waiting.
Transmit ==
  /\ Do("transmit")
  /\ \/ listening' = radio.receive_on /\ UNCHANGED settled
     \/ UNCHANGED <<listening, settled>>   \* nothing is sent
     \/ ~radio.receive_on /\ listening' = TRUE /\ settled' = FALSE
  /\ Goes /\ UNCHANGED <<mac, armed, radio, fifo, hit>>

\* RELEASE_LOCK: on() and off(), if they were asked for.  While the driver is locked the
\* on() and off() of interrupts do not come in between.
ReleaseLock ==
  /\ \/ /\ Do("release_on")
        /\ IF radio.lock_on
           THEN /\ radio' = [radio EXCEPT !.receive_on = TRUE, !.lock_on = FALSE]
                /\ listening' = TRUE /\ fifo' = "none" /\ settled' = FALSE
           ELSE NoSwitch /\ UNCHANGED settled
     \/ /\ Do("release_off")
        /\ IF radio.lock_off
           THEN /\ radio' = [radio EXCEPT !.receive_on = FALSE, !.lock_off = FALSE]
                /\ listening' = FALSE /\ settled' = FALSE /\ UNCHANGED fifo
           ELSE NoSwitch /\ UNCHANGED settled
  /\ Goes /\ UNCHANGED <<mac, armed, hit>>

\* The loop of send_packet: one more strobe (or broadcast), a frame is read, or
\* strobe_time is over; then the wait for the DATA_ACK.
Strobe ==
  /\ Do("strobe") \/ Do("broadcast")
  /\ todo' \in {Send \o todo, EndOps}
  /\ UNCHANGED <<mac, pt, armed, radio, listening, fifo, glossy, adapt, hit, turns, settled>>

ReadAck ==
  /\ fifo # "none" /\ fifo' = "none"
  /\ \/ Do("strobe") /\ todo' = Access \o (IF fifo = "ack" THEN OnOps \o Send \o <<"await">>
                                           ELSE todo)
     \/ Do("await") /\ todo' = Access \o (IF fifo = "ack" THEN EndOps ELSE todo)
  /\ UNCHANGED <<mac, pt, armed, radio, listening, glossy, adapt, hit, turns, settled>>

GiveUp ==
  /\ Do("await") /\ todo' = EndOps
  /\ UNCHANGED <<mac, pt, armed, radio, listening, fifo, glossy, adapt, hit, turns, settled>>

Process ==
  \/ TestOnOff \/ SetFlag \/ Call \/ SetTimer \/ TestTimeout \/ Lock
  \/ Transmit \/ ReleaseLock \/ Strobe \/ ReadAck \/ GiveUp
Handler == ReadPacket \/ SendPacket \/ SetXmacConfig

-----------------------------------------------------------------------------
(***************************************************************************)
(* The interrupts.                                                         *)
(***************************************************************************)
\* All but sending takes less than an on or an off phase.
Short == todo # <<>> /\ ~mac.we_are_sending

Expires(timer) ==
  /\ timer \in armed
  /\ Short => timer \notin hit
  /\ hit' = IF Short THEN hit \cup {timer} ELSE {}

\* No request is left for the end of an access.
Free == ~radio.locked /\ ~radio.lock_on /\ ~radio.lock_off

\* powercycle comes to its off phase, unless a strobe has been answered in the on phase.
OffPhase ==
  /\ pt' = "off"
  /\ IF mac.we_are_sending THEN mac' = mac /\ NoSwitch ELSE Off
  /\ settled' = (/\ ~mac.we_are_sending /\ mac.xmac_is_on /\ armed = {"TBCCR3"}
                 /\ Free
                 /\ (mac.radio_is_on <=> radio.receive_on)
                 /\ (listening => radio.receive_on))

\* Fault: the mark of the answered strobe is kept.
Cleared_Keeps(m) == m

Cleared(m) == [m EXCEPT !.was_timeout = FALSE]

OnPhase ==
  /\ pt' = "on"
  /\ IF mac.we_are_sending THEN mac' = Cleared(mac) /\ NoSwitch
     ELSE On(Cleared(mac))
  /\ settled' = (settled /\ Free)

Powercycle ==
  /\ Expires("TBCCR3")
  /\ IF pt = "on" /\ ~mac.was_timeout THEN OffPhase ELSE OnPhase
  /\ turns' = IF turns < Turns THEN turns + 1 ELSE turns
  /\ UNCHANGED <<armed, glossy, adapt, todo>>

\* Fault: the cycle is not started again.
Restarted_Forgets == armed \ {"TBCCR2"}

\* TBCCR2 is disabled in timerb1_interrupt, TBCCR3 enabled in timeout.
Restarted == (armed \ {"TBCCR2"}) \cup {"TBCCR3"}

\* Fault: the radio is left on.
Timeout_StaysOn ==
  /\ Expires("TBCCR2")
  /\ armed' = Restarted
  /\ mac' = mac /\ NoSwitch
  /\ settled' = (settled /\ Free)
  /\ UNCHANGED <<pt, glossy, adapt, todo, turns>>

\* timeout: no packet has followed the strobe.
Timeout ==
  /\ Expires("TBCCR2")
  /\ armed' = Restarted
  /\ IF mac.we_are_sending THEN mac' = mac /\ NoSwitch ELSE Off
  /\ settled' = (settled /\ Free)
  /\ UNCHANGED <<pt, glossy, adapt, todo, turns>>

\* glossy_scheduler: rime_mac->off(0) and the disabling of the other interrupts.
GlossyStarts ==
  /\ ~glossy /\ ~adapt /\ turns = Turns
  /\ glossy' = TRUE
  /\ mac' = [mac EXCEPT !.xmac_is_on = FALSE]
  /\ RadioOff
  /\ armed' = {} /\ settled' = FALSE
  /\ UNCHANGED <<pt, adapt, todo, hit, turns>>

\* The end of the phase: glossy_stop has turned the radio off and emptied its buffer.
\* Only sending takes longer than a phase.
GlossyEnds ==
  /\ glossy /\ ~Short
  /\ glossy' = FALSE
  /\ mac' = [mac EXCEPT !.xmac_is_on = TRUE]
  /\ listening' = FALSE /\ fifo' = "none"
  /\ armed' = {"TBCCR3"} /\ adapt' \in BOOLEAN /\ turns' = 0 /\ settled' = FALSE
  /\ UNCHANGED <<pt, radio, todo, hit>>

Interrupt == Powercycle \/ Timeout \/ GlossyStarts \/ GlossyEnds

\* A frame arrives.  Bound: one at a time.
Arrive ==
  /\ listening /\ ~glossy /\ fifo = "none"
  /\ fifo' \in DOMAIN ReadOps
  /\ UNCHANGED <<mac, pt, armed, radio, listening, glossy, adapt, todo, hit, turns, settled>>

Next == Process \/ Handler \/ Interrupt \/ Arrive

Spec == Init /\ [][Next]_vars

FairSpec ==
  /\ Spec
  /\ WF_vars(Process) /\ WF_vars(SetXmacConfig)
  /\ WF_vars(Powercycle) /\ WF_vars(Timeout) /\ WF_vars(GlossyEnds)

-----------------------------------------------------------------------------
(***************************************************************************)
(* Properties.                                                             *)
(***************************************************************************)
Frames == DOMAIN ReadOps
Timers == {"TBCCR2", "TBCCR3"}
Operations ==
  {"test_on", "set_on", "call_on", "test_off", "set_off", "call_off", "lock", "transmit",
   "release_on", "release_off", "unlock", "test_timeout", "disable_TBCCR3", "enable_TBCCR2",
   "enable_TBCCR3", "set_timeout", "set_sending", "end_sending", "mac_off", "mac_on",
   "strobe", "broadcast", "await"}

\* Type invariant.  The driver is locked only inside of an access: with an
\* unlock left among the operations of the process.
TypeOK ==
  /\ mac \in [xmac_is_on : BOOLEAN, radio_is_on : BOOLEAN, was_timeout : BOOLEAN,
              we_are_sending : BOOLEAN]
  /\ pt \in {"off", "on"}
  /\ armed \subseteq Timers /\ hit \subseteq Timers
  /\ radio \in [receive_on : BOOLEAN, locked : BOOLEAN, lock_on : BOOLEAN, lock_off : BOOLEAN,
                switching : {"none", "on", "off"}]
  /\ {listening, glossy, adapt, settled} \subseteq BOOLEAN
  /\ fifo \in Frames \cup {"none"}
  /\ todo \in Seq(Operations)
  /\ turns \in 0 .. Turns
  /\ radio.locked => \E i \in 1 .. Len(todo) : todo[i] = "unlock"

\* The duty cycle does not stop: outside of a Glossy phase the interrupt of
\* powercycle or that of timeout is enabled, or read_packet, which has just
\* disabled the one, is about to enable the other.  Both are enabled and
\* disabled by the process, by interrupts and by Glossy.
CycleGoesOn == glossy \/ armed # {} \/ Do("enable_TBCCR2")

\* Once powercycle has come to an off phase with flags and radio in agreement,
\* and as long as no data is received or sent, no frame leaves late and no request
\* comes while the driver is locked, the radio is on in the on phases and after a strobe, and
\* off otherwise.
RadioFollows ==
  settled /\ ~glossy /\ todo = <<>> =>
    (listening <=> "TBCCR2" \in armed \/ (pt = "on" /\ ~mac.was_timeout))

\* The node keeps hearing and keeps saving energy, but while it sends: no
\* interleaving of Glossy phases, configurations, requests to a locked driver,
\* switching that an interrupt falls into, late frames and flags that say
\* something else than the radio does leaves it deaf, or awake, for ever.
DutyCycle ==
  /\ []<>(listening \/ mac.we_are_sending)
  /\ []<>(~listening \/ mac.we_are_sending)
=============================================================================
