---------------------------- MODULE GlossyConfig ----------------------------
(***************************************************************************)
(* How a MAC configuration travels from the controller's serial line to    *)
(* the MAC layer of every host (contiki/apps/adaptive-mac).                *)
(*                                                                         *)
(* At the sink two execution contexts share `new_cfg` and                  *)
(* `glossy_config_data`: the dissemination process, a Contiki process that *)
(* runs until it yields, and glossy_scheduler, a real-time-timer interrupt *)
(* that may preempt it between any two of its assignments.  A configuration*)
(* is three fields, and the model writes them one at a time as the code    *)
(* does, so a configuration is represented by where each field came from:  *)
(* field value v is "as in the v-th line the controller sent", 0 is the    *)
(* compiled-in default.                                                    *)
(*                                                                         *)
(* Each host also carries a ghost, the generation: the number of times     *)
(* seq_no had been incremented, without the 8-bit wrap.  The history       *)
(* variable `disturbed` remembers whether an interrupt ever read or wrote  *)
(* a configuration that the process was still working on.                  *)
(***************************************************************************)
EXTENDS Naturals

CONSTANTS
  Node,         \* the hosts that are not the sink
  Sink,
  MaxConfig,    \* bound: lines the controller sends
  SeqMod,       \* range of seq_no (256 in the code: uint8_t)
  Slots,        \* report slots of a phase (N_NODES in the code)
  MaxReboots    \* bound: node restarts

ASSUME ConfigAssumption ==
  /\ Sink \notin Node
  /\ MaxConfig \in Nat
  /\ SeqMod \in Nat \ {0}
  /\ Slots \in Nat \ {0}
  /\ MaxReboots \in Nat

Host    == Node \cup {Sink}
Version == 0..MaxConfig

\* t_l and t_s are stored rounded down and may have to be incremented: `Raw` is
\* such a value before the increment, `Odd` what ++ makes of a value that was
\* not to be incremented, which is no line's.
Raw    == MaxConfig + 1
Odd    == MaxConfig + 2
Config == [t_l : 0..Odd, t_s : 0..Odd, n : Version]
Whole(v) == [t_l |-> v, t_s |-> v, n |-> v]

\* glossy_config_struct, the payload of the configuration flood.
GlossyData == [cfg : Config, seq_no : 0..(SeqMod - 1), gen : Version]
DefaultData == [cfg |-> Whole(0), seq_no |-> 0, gen |-> 0]

\* Where the dissemination process is.  At "wait" and "pause" it has yielded.
Yielded == {"wait", "pause"}
Copying == {"copy_tl", "copy_ts", "copy_n"}
Pc == Yielded \cup Copying \cup
        {"parse_n", "parse_tl", "parse_ts", "round_tl", "round_ts", "check", "seq"}

VARIABLES
  sent,                \* lines the controller has sent
  line,                \* serial_line_event_message waiting in the event queue, 0: none
  pc, parsing,         \* the dissemination process and the line it handles
  hits,                \* interrupts that preempted this run of it
  disturbed,           \* history: one of them met a configuration half done
  new_cfg,             \* per host
  glossy_config_data,  \* per host
  config_seq_no,       \* per host: seq_no of the configuration last taken over
  gen,                 \* ghost, per host: its generation
  polled,              \* the hosts whose adaptation_process has a poll pending
  current_cfg,         \* per host: what the MAC layer runs
  phase, slot,         \* the sink's place in glossy_scheduler
  status,              \* the sink's glossy_status: "off", or "on" for all others
  packet,              \* what the sink's configuration flood carries
  waiting,             \* nodes whose scheduler has not finished this phase
  got,                 \* nodes that received this phase's flood
  flooded,             \* history: the configurations ever put into a flood
  reboots              \* node restarts so far

process   == <<pc, parsing>>
preempted == <<hits, disturbed>>
adaption  == <<config_seq_no, gen, polled>>
scheduler == <<phase, slot, status>>
air       == <<packet, waiting, got, flooded>>
vars == <<sent, line, process, preempted, new_cfg, glossy_config_data, adaption,
          current_cfg, scheduler, air, reboots>>

Init ==
  /\ sent = 0 /\ line = 0
  /\ pc = "wait" /\ parsing = 0 /\ hits = 0 /\ disturbed = FALSE
  /\ new_cfg = [h \in Host |-> Whole(0)]
  /\ glossy_config_data = [h \in Host |-> DefaultData]
  /\ config_seq_no = [h \in Host |-> 0]
  /\ gen = [h \in Host |-> 0]
  /\ polled = {}
  /\ current_cfg = [h \in Host |-> Whole(0)]
  /\ phase = "idle" /\ slot = 0 /\ status = "off"
  /\ packet = DefaultData
  /\ waiting = {} /\ got = {}
  /\ flooded = {Whole(0)}
  /\ reboots = 0

-----------------------------------------------------------------------------
(***************************************************************************)
(* The sink's processes.  glossy_process spins while Glossy is on, so the  *)
(* kernel dispatches nothing then; polls go before events.                 *)
(***************************************************************************)

\* The kernel is between two processes and glossy_process does not hold it.
KernelFree == pc \in Yielded /\ status = "off"

\* Fault: an event may overtake a pending poll.
CanDispatchEvent_NoPriority == KernelFree

CanDispatchEvent == KernelFree /\ Sink \notin polled

\* The controller writes a configuration to the UART, whose interrupt is
\* disabled during a phase.  The controller waits for one line to be taken.
SendLine ==
  /\ sent < MaxConfig /\ line = 0 /\ phase = "idle"
  /\ sent' = sent + 1
  /\ line' = sent + 1
  /\ UNCHANGED <<process, preempted, new_cfg, glossy_config_data, adaption, current_cfg,
                 scheduler, air, reboots>>

\* PROCESS_WAIT_EVENT_UNTIL(ev == serial_line_event_message).
TakeLine ==
  /\ pc = "wait" /\ line # 0 /\ CanDispatchEvent
  /\ parsing' = line
  /\ line' = 0
  /\ pc' = "parse_n"
  /\ hits' = 0
  /\ UNCHANGED <<sent, disturbed, new_cfg, glossy_config_data, adaption, current_cfg,
                 scheduler, air, reboots>>

\* The parser stores a field of the line, or its integer part, into new_cfg.
ParseField(f, stored, from, to) ==
  /\ pc = from
  /\ \E v \in stored : new_cfg' = [new_cfg EXCEPT ![Sink][f] = v]
  /\ pc' = to
  /\ UNCHANGED <<sent, line, parsing, preempted, glossy_config_data, adaption,
                 current_cfg, scheduler, air, reboots>>

\* The increment that rounds a field up, if its line calls for that.  Of a
\* field overwritten in the meantime the model does not know.
Rounded(v) ==
  IF v = Raw THEN {parsing} ELSE IF v = parsing THEN {v} ELSE {v, Odd}

Parse ==
  \/ ParseField("n", {parsing}, "parse_n", "parse_tl")
  \/ ParseField("t_l", {parsing, Raw}, "parse_tl", "parse_ts")
  \/ ParseField("t_s", {parsing, Raw}, "parse_ts", "round_tl")
  \/ ParseField("t_l", Rounded(new_cfg[Sink].t_l), "round_tl", "round_ts")
  \/ ParseField("t_s", Rounded(new_cfg[Sink].t_s), "round_ts", "check")

\* while (GLOSSY_IS_ON()) PROCESS_PAUSE();
CheckGlossy ==
  /\ pc = "check"
  /\ pc' = IF status = "on" THEN "pause" ELSE "seq"
  /\ UNCHANGED <<sent, line, parsing, preempted, new_cfg, glossy_config_data, adaption,
                 current_cfg, scheduler, air, reboots>>

\* Any event ends PROCESS_PAUSE: its own PROCESS_EVENT_CONTINUE, or a second
\* serial line, which is consumed without being looked at.
Resume ==
  /\ pc = "pause" /\ CanDispatchEvent
  /\ line' \in {line, 0}
  /\ pc' = "check"
  /\ hits' = 0
  /\ disturbed' = (disturbed \/ line' # line)
  /\ UNCHANGED <<sent, parsing, new_cfg, glossy_config_data, adaption,
                 current_cfg, scheduler, air, reboots>>

IncrementSeqNo ==
  /\ pc = "seq"
  /\ glossy_config_data' =
       [glossy_config_data EXCEPT ![Sink].seq_no = (@ + 1) % SeqMod,
                                  ![Sink].gen = @ + 1]
  /\ pc' = "copy_tl"
  /\ UNCHANGED <<sent, line, parsing, preempted, new_cfg, adaption, current_cfg,
                 scheduler, air, reboots>>

CopyField(f, from, to) ==
  /\ pc = from
  /\ glossy_config_data' =
       [glossy_config_data EXCEPT ![Sink].cfg[f] = new_cfg[Sink][f]]
  /\ pc' = to
  /\ UNCHANGED <<sent, line, parsing, preempted, new_cfg, adaption, current_cfg,
                 scheduler, air, reboots>>

Copy ==
  \/ CopyField("t_l", "copy_tl", "copy_ts")
  \/ CopyField("t_s", "copy_ts", "copy_n")
  \/ CopyField("n", "copy_n", "wait")

\* adaptation_process, at every host: set_xmac_config() and current_cfg.
Adapt(h) ==
  /\ h \in polled
  /\ h = Sink => KernelFree
  /\ current_cfg' = [current_cfg EXCEPT ![h] = new_cfg[h]]
  /\ polled' = polled \ {h}
  /\ UNCHANGED <<sent, line, process, preempted, new_cfg, glossy_config_data,
                 config_seq_no, gen, scheduler, air, reboots>>

-----------------------------------------------------------------------------
(***************************************************************************)
(* glossy_scheduler at the sink.  Each action is one run of the interrupt. *)
(***************************************************************************)

\* The interrupts of a phase are milliseconds apart and a run of the process
\* takes less, so at most one of them falls into a run.  It does
\* harm if it reads or overwrites what the process is working on.
Interrupt(harm) ==
  /\ pc \in Yielded \/ hits = 0
  /\ hits' = IF pc \in Yielded THEN 0 ELSE 1
  /\ disturbed' = (disturbed \/ harm)

\* Fault: sequence numbers are compared as if they never wrapped.
IsNew_Greater(h) == glossy_config_data[h].seq_no > config_seq_no[h]

\* "New configuration received by Glossy": the last lines of a phase.
IsNew(h) == glossy_config_data[h].seq_no # config_seq_no[h]

\* Fault: the retransmission limit n is not taken over.
ReceivedCfg_WithoutN(h) == [glossy_config_data[h].cfg EXCEPT !.n = new_cfg[h].n]

ReceivedCfg(h) == glossy_config_data[h].cfg

\* Fault: the configuration is stored and adaptation_process not polled.
TakeOver_NoPoll(h) ==
  IF IsNew(h)
  THEN /\ config_seq_no' = [config_seq_no EXCEPT ![h] = glossy_config_data[h].seq_no]
       /\ gen' = [gen EXCEPT ![h] = glossy_config_data[h].gen]
       /\ new_cfg' = [new_cfg EXCEPT ![h] = ReceivedCfg(h)]
       /\ UNCHANGED polled
  ELSE UNCHANGED <<adaption, new_cfg>>

TakeOver(h) ==
  IF IsNew(h)
  THEN /\ config_seq_no' = [config_seq_no EXCEPT ![h] = glossy_config_data[h].seq_no]
       /\ gen' = [gen EXCEPT ![h] = glossy_config_data[h].gen]
       /\ new_cfg' = [new_cfg EXCEPT ![h] = ReceivedCfg(h)]
       /\ polled' = polled \cup {h}
  ELSE UNCHANGED <<adaption, new_cfg>>

\* glossy_start(..., GLOSSY_INITIATOR, ...) copies the data into the packet.
StartFlood ==
  /\ phase = "idle" /\ waiting = {} /\ Interrupt(pc \in Copying)
  /\ phase' = "flood" /\ status' = "on"
  /\ packet' = glossy_config_data[Sink]
  /\ flooded' = flooded \cup {glossy_config_data[Sink].cfg}
  /\ waiting' = Node
  /\ got' = {}
  /\ UNCHANGED <<sent, line, process, new_cfg, glossy_config_data, adaption,
                 current_cfg, slot, reboots>>

\* The initiator heard no relay: it copies the data again and retransmits.
InitiatorTimeout ==
  /\ phase = "flood" /\ status = "on" /\ Interrupt(pc \in Copying)
  /\ packet' = glossy_config_data[Sink]
  /\ flooded' = flooded \cup {glossy_config_data[Sink].cfg}
  /\ UNCHANGED <<sent, line, process, new_cfg, glossy_config_data, adaption,
                 current_cfg, scheduler, waiting, got, reboots>>

\* The last transmission of a flood turns Glossy off before glossy_stop().
LastTransmission ==
  /\ status = "on" /\ Interrupt(FALSE)
  /\ status' = "off"
  /\ UNCHANGED <<sent, line, process, new_cfg, glossy_config_data, adaption,
                 current_cfg, phase, slot, air, reboots>>

\* Fault: one report slot too many.
StopGlossy_OneSlotMore ==
  /\ phase \in {"flood", "slot"} /\ slot <= Slots
  /\ Interrupt(FALSE)
  /\ phase' = "gap" /\ status' = "off"
  /\ UNCHANGED <<sent, line, process, new_cfg, glossy_config_data, adaption,
                 current_cfg, slot, air, reboots>>

\* glossy_stop() at the end of the flood, or of a report slot but the last.
StopGlossy ==
  /\ \/ phase = "flood"
     \/ phase = "slot" /\ slot < Slots
  /\ Interrupt(FALSE)
  /\ phase' = "gap" /\ status' = "off"
  /\ UNCHANGED <<sent, line, process, new_cfg, glossy_config_data, adaption,
                 current_cfg, slot, air, reboots>>

StartSlot ==
  /\ phase = "gap" /\ Interrupt(FALSE)
  /\ phase' = "slot" /\ status' = "on"
  /\ slot' = slot + 1
  /\ UNCHANGED <<sent, line, process, new_cfg, glossy_config_data, adaption,
                 current_cfg, air, reboots>>

\* The last slot ends, or the flood while the sink is still bootstrapping.
EndPhase ==
  /\ phase = "flood" \/ (phase = "slot" /\ slot = Slots)
  /\ Interrupt(pc # "wait" /\ IsNew(Sink))
  /\ phase' = "idle" /\ slot' = 0 /\ status' = "off"
  /\ TakeOver(Sink)
  /\ UNCHANGED <<sent, line, process, glossy_config_data, current_cfg, air,
                 reboots>>

-----------------------------------------------------------------------------
(***************************************************************************)
(* The other hosts.  A flood reaches a node or not; a node that restarts   *)
(* comes back with the compiled-in configuration.                          *)
(***************************************************************************)
Receive(n) ==
  /\ phase = "flood" /\ n \in waiting \ got
  /\ glossy_config_data' = [glossy_config_data EXCEPT ![n] = packet]
  /\ got' = got \cup {n}
  /\ UNCHANGED <<sent, line, process, preempted, new_cfg, adaption, current_cfg,
                 scheduler, packet, waiting, flooded, reboots>>

EndNodePhase(n) ==
  /\ phase # "flood" /\ n \in waiting
  /\ waiting' = waiting \ {n}
  /\ TakeOver(n)
  /\ UNCHANGED <<sent, line, process, preempted, glossy_config_data, current_cfg,
                 scheduler, packet, got, flooded, reboots>>

\* Fault: a warm restart that forgets to reset config_seq_no.
Reboot_KeepsSeqNo(n) ==
  /\ reboots < MaxReboots
  /\ reboots' = reboots + 1
  /\ glossy_config_data' = [glossy_config_data EXCEPT ![n] = DefaultData]
  /\ new_cfg' = [new_cfg EXCEPT ![n] = Whole(0)]
  /\ current_cfg' = [current_cfg EXCEPT ![n] = Whole(0)]
  /\ polled' = polled \ {n}
  /\ waiting' = waiting \ {n}
  /\ UNCHANGED <<sent, line, process, preempted, config_seq_no, gen, scheduler, packet,
                 got, flooded>>

Reboot(n) ==
  /\ reboots < MaxReboots
  /\ reboots' = reboots + 1
  /\ glossy_config_data' = [glossy_config_data EXCEPT ![n] = DefaultData]
  /\ config_seq_no' = [config_seq_no EXCEPT ![n] = 0]
  /\ gen' = [gen EXCEPT ![n] = 0]
  /\ new_cfg' = [new_cfg EXCEPT ![n] = Whole(0)]
  /\ current_cfg' = [current_cfg EXCEPT ![n] = Whole(0)]
  /\ polled' = polled \ {n}
  /\ waiting' = waiting \ {n}
  /\ UNCHANGED <<sent, line, process, preempted, scheduler, packet, got, flooded>>

-----------------------------------------------------------------------------
Dissemination == TakeLine \/ Parse \/ CheckGlossy \/ Resume \/ IncrementSeqNo \/ Copy

SinkScheduler == StartFlood \/ StopGlossy \/ StartSlot \/ EndPhase

Next ==
  \/ SendLine
  \/ Dissemination
  \/ SinkScheduler \/ InitiatorTimeout \/ LastTransmission
  \/ \E h \in Host : Adapt(h)
  \/ \E n \in Node : Receive(n) \/ EndNodePhase(n) \/ Reboot(n)

Spec == Init /\ [][Next]_vars

(***************************************************************************)
(* The timer interrupts keep coming; the kernel, which Glossy takes away   *)
(* for less than a second of every 60, in the end runs a process that is   *)
(* ready again and again, and not every time with an interrupt between the *)
(* process's resumption and its test; and a node is not out of the flood's *)
(* reach for ever.                                                         *)
(***************************************************************************)
Fairness ==
  /\ SF_vars(Dissemination) /\ SF_vars(CheckGlossy /\ status = "off")
  /\ WF_vars(SinkScheduler)
  /\ \A h \in Host : SF_vars(Adapt(h))
  /\ \A n \in Node : SF_vars(Receive(n)) /\ WF_vars(EndNodePhase(n))

FairSpec == Spec /\ Fairness

-----------------------------------------------------------------------------
\* Types of the variables: no line is handled that was not sent, and the sink
\* never counts more report slots than the phase has.
TypeOK ==
  /\ sent \in Version /\ line \in 0..sent
  /\ pc \in Pc /\ parsing \in 0..sent /\ hits \in 0..1 /\ disturbed \in BOOLEAN
  /\ new_cfg \in [Host -> Config]
  /\ glossy_config_data \in [Host -> GlossyData]
  /\ config_seq_no \in [Host -> 0..(SeqMod - 1)]
  /\ gen \in [Host -> Version]
  /\ polled \subseteq Host
  /\ current_cfg \in [Host -> Config]
  /\ phase \in {"idle", "flood", "gap", "slot"}
  /\ slot \in 0..Slots
  /\ status \in {"off", "on"}
  /\ packet \in GlossyData
  /\ waiting \subseteq Node /\ got \subseteq Node
  /\ flooded \subseteq Config
  /\ reboots \in 0..MaxReboots

\* A node whose phase is over runs the generation it last received.  Only the
\* wrap of seq_no can hide a new configuration from it, and then the two
\* generations are congruent modulo SeqMod.  Whatever is interrupted where.
OnlyWrapHides ==
  \A n \in Node \ waiting :
    /\ gen[n] <= glossy_config_data[n].gen
    /\ glossy_config_data[n].gen % SeqMod = gen[n] % SeqMod

\* A node's three parameters were in the sink's flood together: the node's own
\* copying (packet, glossy_config_data, new_cfg, current_cfg) never mixes two
\* floods, even when the sink's copying does.
FromOneFlood == \A n \in Node : current_cfg[n] \in flooded

\* A node never goes back to an earlier generation unless it restarts.
ForwardOnly ==
  [][\A n \in Node : gen'[n] >= gen[n] \/ reboots' # reboots]_vars

\* No node runs parameters of two different configurations.
Intact == \A n \in Node : \E v \in Version : current_cfg[n] = Whole(v)

\* The g-th increment of seq_no stands for the g-th line of the controller, and
\* once adaptation_process ran, that line's configuration is what a host runs:
\* as long as no interrupt met the sink's process with a configuration half
\* parsed or half copied.  Interrupts before, after and between may fall anywhere.
RunsItsGeneration ==
  ~disturbed => \A h \in Host \ polled : current_cfg[h] = Whole(gen[h])

\* The README's claim (2), optimized parameters reach all nodes: every host ends
\* up with the last line, unless a wrapped seq_no hides it.
HiddenByWrap(h) ==
  /\ glossy_config_data[h].gen # gen[h]
  /\ glossy_config_data[h].seq_no = config_seq_no[h]

Converges ==
  []~disturbed => <>[](\A h \in Host : current_cfg[h] = Whole(sent) \/ HiddenByWrap(h))

\* Dissemination is a register that hosts read forward, until it is disturbed.
Register == INSTANCE ConfigRegister WITH
              Last <- MaxConfig, Value <- [v \in Version |-> Whole(v)],
              latest <- sent, held <- current_cfg, void <- disturbed

ImplementsRegister == Register!Spec
=============================================================================
