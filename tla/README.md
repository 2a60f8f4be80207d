# A TLA+ model of pTunes

pTunes adapts the parameters of a low-power MAC protocol at run time. Sensor
nodes run a Contiki application; every minute a Glossy flood interrupts it,
carries the current MAC configuration to all nodes, and in the slots that follow
each node floods a report back to the sink. The sink prints the reports on its
serial line. A Java controller reads them, decides when to optimize, lets
ECLiPSe solve a constraint program and writes the new configuration to the
serial line, from where the next flood takes it to the nodes.

This directory holds TLA+ modules of the parts of that loop whose correctness
depends on the order of events, TLC runs over small instances, and proofs for
all instances. Paths below are relative to the repository.

| Module | What it is |
|---|---|
| `GlossyConfig` | dissemination of a configuration: serial line, sink, flood, nodes |
| `ConfigRegister` | what dissemination promises (abstract specification) |
| `WaitNotify` | the controller's monitor |
| `OptimizationTrigger` | trigger thread, reader and purging thread of the controller |
| `RelCollect` | the data-collection layer of one node: queue, buffers, retransmissions, routing metric |
| `ForwardQueue` | what that layer promises of the packets it accepts (abstract specification) |
| `NeighborTable` | the table of neighbours of a node: entries, `last_best`, 8-bit values |
| `Routing` | a network of nodes, each with such a table: announcements, metrics, parents |
| `TopologyHistory` | the controller's history of topologies and its three threads |
| `GlossyFlood` | one Glossy flood, slot by slot, at all hosts |
| `Broadcast` | what a flood promises (abstract specification) |
| `Xmac` | the duty cycle of a node and the radio driver below it |
| `MC*` | instances for TLC (`GlossyConfig` and `Xmac` need none) |
| `*_proofs` | theorems and their proofs |

`PROJECT.json` lists for every definition the source lines it models, the
hazards with the properties that cover them, the runs, a mutant per property and
the theorems.

## 1. Inventory

### Controller (Java, `controller/src/sics/adaptMac`)

**Topology history** (`AdaptMac`, `Topology`, `NodeTopologyInfo`). State: a
synchronized list of the last topologies, one `NodeTopologyInfo` per node in
each, and the time of the last report. Operations: the reader thread parses
lines of the sink (`A...` is a packet received, `G...` the report of a node, `F` the
end of a phase), adds reports to the newest topology and copies a topology forward; a purging
thread drops nodes and topologies that are too old; the trigger reads the
history to write ECLiPSe's input. Hard: the reader tests and reads without the
lock in places where the purging thread removes; walks from parent to parent
assume a tree. Correct when a topology handed to ECLiPSe is consistent and
recent, and neither thread dies of the other.

**Triggers** (`triggers/*`). State: the period and retries left, a monitor with a
period and a count of signals, flags and data rates. Operations: the trigger
thread's loop (wait, prepare, optimize, inject), `collectionFinished()` called by
the reader after every phase, `nodesHaveBeenPurged()` called by the purging
thread. Hard: three threads change the period and the count; an optimization
takes longer than a phase. Correct when no wake-up is lost, retries are bounded,
optimizations come neither too often nor never, and an urgent need is met at
once.

**ECLiPSe driver** (`EclipseDriver`, `NetworkPerformance`, `MacConfiguration`).
State: one ECLiPSe process behind a synchronized object. Operations: optimize,
estimate the performance, inject a configuration. Hard: reader and trigger share
the lock, one call may last minutes, calls fail. Correct when neither blocks the
other for ever.

### Firmware (Contiki, C)

**Configuration dissemination** (`apps/adaptive-mac/adaptive-mac.c`,
`glossy_interface.h`). State: `new_cfg`, `current_cfg`, `glossy_config_data`
(payload with an 8-bit `seq_no`), `config_seq_no`, place in the phase.
Operations: the dissemination process parses a serial line and publishes it;
`glossy_scheduler`, a timer interrupt, starts and stops floods and takes a new
configuration over; the adaptation process hands it to the MAC layer. Hard: the
interrupt falls between any two assignments of the process; floods are lost;
nodes restart; the sequence number wraps. Correct when every host runs one whole
configuration, moves forward only and gets the last one in the end.

**Glossy** (`core/dev/glossy.c`). State: a slot-level state machine, counters,
the packet. Operations: start, stop, begin and end of reception and transmission
(interrupts), the initiator's timeout. Hard: everything happens in interrupts
with timing to the clock tick. Correct when what `glossy_stop()` reports as
received is what was received.

**Collection layer** (`core/net/rime/relcollect.c`, `relunicast.c`). State:
forwarding queue, `forwarding`, `rtmetric`, a ring of recently received packets,
one packet in stop-and-wait transmission. Operations: send, receive, transmitted
or given up, announcement heard. Hard: handlers call each other in chains and
share one packet buffer; queue and pool fill up; acknowledgements get lost; the
best neighbour disappears. Correct when the packet removed is the one sent,
buffers balance, duplicates are recognized, and queued packets leave while there
is a route.

**Packet memory and advertisements** (`packetqueue.c`, `queuebuf.c`,
`polite-announcement.c`, `ipolite.c`, `announcement.c`). State: one pool of
buffers for all, one pending advertisement. Hard: two pools (items and buffers)
may run out independently. Correct when nothing is lost or freed twice.

**Neighbour table** (`neighbor.c`). State: list of neighbours with `etx`,
`rtmetric` and age, and `last_best`. Operations: add, update, remove, age, best.
Hard: 8-bit sums; entries freed while referenced. Correct when `best` is in the
table and its cost is what was announced.

**X-MAC and the radio driver** (`core/net/mac/xmac.c`, `core/dev/cc2420.c`).
State: flags of the MAC layer (on, radio on, sending, strobe answered), flags of
the driver (receiving, locked, requests left for the end of an access), two
timers. Operations: send, read, on, off, set the configuration in the process;
`powercycle` and `timeout` in interrupts. Hard: both contexts switch the radio
and write the same flags; Glossy takes the radio and the timers away. Correct
when the cycle never stops and the node neither stays deaf nor awake. **LPP**,
**FTSP** and **Trickle** are alternatives that the default build leaves out.

**Kernel and serial line** (`core/sys/process.c`, `core/dev/serial-line.c`).
Vendored. The firmware depends on polls going before events and on one event
being delivered at a time.

### Optimizer (`cp/*.ecl`)

A branch-and-bound search over real intervals. No state survives a call.

### How they interact

    nodes --reports--> sink --"G", "F" lines--> reader --> topology history
                                                  | collectionFinished()
                                                  v
    nodes <--flood-- sink <--"t_l,t_s,n,"-- trigger thread <--> ECLiPSe

    on each node: application -> relcollect -> relunicast -> X-MAC, whose
    parameters the adaptation process sets

The models meet at interfaces that carry no protocol of their own: a line
(`SendLine`, written by `Injected` of a trigger), the end of a phase
(`CollectionFinished` and `PhaseOver`, after `EndPhase` of the sink), the reports
(`Report`), a flood that arrives or not (`Receive` of `GlossyConfig`, which
`GlossyFlood` opens up), the best neighbour and its cost (`best` in `RelCollect`,
which `Routing` opens up), a transmission that is acknowledged or not, a new
configuration (`SetXmacConfig`, after `Adapt`). They share no variable, so
composing them would multiply the states and add no behaviour to any of them;
each takes the other side as free to act at any time, which allows more than the
real neighbour does. Where components do share state they are composed:
`OptimizationTrigger` with its monitor `WaitNotify`, `Routing` with the tables of
`NeighborTable`, the three threads of `TopologyHistory`, X-MAC with the radio
driver in `Xmac`.

## 2. Modules and the code

### GlossyConfig

One sink, any number of nodes. The sink runs two contexts: the dissemination
process, whose `pc` steps over single assignments (`parse_n`, `parse_tl`,
`parse_ts`, `round_tl`, `round_ts`, `check`, `seq`, `copy_tl`, `copy_ts`, `copy_n`,
and the two points at which it yields), and `glossy_scheduler`, whose every run is one action.

| Action | Code |
|---|---|
| `SendLine` | a line arrives; the UART interrupt is off during a phase |
| `TakeLine`, `Parse` | `PROCESS_WAIT_EVENT_UNTIL`, and the parser storing fields straight into `new_cfg` |
| `CheckGlossy`, `Resume` | `while (GLOSSY_IS_ON()) PROCESS_PAUSE()` |
| `IncrementSeqNo`, `Copy` | publishing: `seq_no`, then `t_l`, `t_s`, `n` |
| `StartFlood`, `StopGlossy`, `StartSlot`, `EndPhase` | the runs of `glossy_scheduler` at the sink |
| `InitiatorTimeout`, `LastTransmission` | Glossy copies the data again; Glossy switches itself off before `glossy_stop()` |
| `Receive`, `EndNodePhase`, `Reboot` | a node gets the flood or not, finishes its phase, restarts |
| `Adapt` | `adaptation_process`: `set_xmac_config()`, `current_cfg` |

A field of a configuration is represented by the number of the line it came
from, 0 for the compiled-in value: two configurations that happen to share a
value are told apart, which is what "mixing two configurations" needs. `gen` is
a ghost: the count of increments behind a `seq_no`. The parser stores `t_l` and
`t_s` cut to an integer and increments them later where the fraction asks for it
(`adaptive-mac.c:463-468`): `Raw` is a value that still has to be incremented,
`Odd` one that was incremented without need because it had been overwritten.

An interrupt may fall between any two assignments of the process (`hits` lets at
most one into a run of it: runs take less than the distance between two
interrupts). Most do no harm. The history variable `disturbed` becomes true at
those that do: a flood started or repeated while the configuration is being
copied, the end of a phase that writes `new_cfg` while a line is parsed into it,
and a line lost because the process paused (`PROCESS_PAUSE` takes the event).
`RunsItsGeneration`, `ImplementsRegister` and `Converges` speak of the executions,
and parts of them, in which none of that has happened yet; the other properties
hold through it, and `torn` shows what it does.

Kernel: while Glossy is on, `glossy_process` spins and nothing is dispatched
(`KernelFree`); pending polls go before events (`CanDispatchEvent`).

Bounds: `MaxConfig` lines, `MaxReboots` restarts. Not modelled: restarts of the
sink, bootstrapping (except that a phase may end after the flood), the content of
reports, clock synchronization. The controller waits until a line has been taken
before it writes the next; optimizations are minutes apart.

### ConfigRegister

The abstract promise: configurations are published in order, every host holds
one of them as published and only moves to later ones, unless it restarts.
`GlossyConfig` instantiates it with `latest <- sent`, `held <- current_cfg` and
`void <- disturbed`: the promise ends with the first harmful interrupt.

### WaitNotify and OptimizationTrigger

`WaitNotify` is the monitor: `doWait()` is `Sleep` and `Leave` with the condition
tested again after every wake-up, `doNotify()` and `setPeriod()` are one action
each, and `Object.wait()` may wake up for nothing. `OptimizationTrigger` puts three
threads around it. The six trigger classes repeat one loop with different
branches, so `kind` selects the class and each branch is an action of its own:

| Action | Code |
|---|---|
| `DelayOver`, `LoopHead` (`Retry`, `FullPeriod`, `NextPhase`) | the head of `run()`: how long to wait next |
| `TriggerSetsPeriod`, `EnterWait`, `LeaveWait` | `setPeriod()`, `doWait()` |
| `Prepare`, `CallEclipse`, `EclipseAnswers` | writing the topologies, entering the synchronized driver, its answer: failed, injected, injected for reliability |
| `CollectionFinished` and its branches | purges (performance), traffic peaks (adaptive), switched data rates (unified) |
| `ReaderCallsEclipse`, `EclipseEstimates` | the reader's estimate in the same driver |
| `ReaderSetsPeriod`, `Record`, `Notify` | asking for an optimization, the field assigned next, `doNotify()` |
| `Report`, `Purge` | reports change the rates; the purging thread sets its flag |

The period the reader asks for is 1 or 2 notifications, as in the code. History
variables: `failures`, `phases`, `asked`, `stale` (a need to optimize has been
noticed and no optimization has met it). Bounds: `MaxSignals` phases
while the trigger is busy. `rates` is empty while only the sink is known. The
estimation trigger has no initial delay; in the
model it has one that may be over at once.

### RelCollect

One node that is not the sink. Contiki runs a handler to completion, so a handler
is one action; the helpers it calls (`Enqueue`, `RelunicastSend`, `SendQueued`,
`Announce`, `UpdateMetric`, ...) are operators from the record `c` to the record
they leave, composed in the order of the calls. `c.packetbuf` is the one packet
buffer of the node, which the helpers overwrite as the code does.

| Action | Code |
|---|---|
| `SendOwn` | `relcollect_send` |
| `Receive`, `ReceiveDuplicate` | `rel_node_packet_received` |
| `TransmitAcked`, `TransmitUnacked`, `TimedOut` | `send()` of relunicast when its timer fires, with the callbacks `rel_node_packet_sent` and `rel_node_packet_timedout` |
| `HearAnnouncement` | `received_announcement` |
| `AgeOut` | `periodic()` of the neighbour table removes the best neighbour |
| `Advertise`, `AdvertisementLeaves` | `send_timer` of polite-announcement; ipolite sends or drops the pending one |

The neighbour table is abstracted to `best`, what `neighbor_best()` would return and
its path cost, changing whenever the code may change the table. `neighbor_best()`
keeps the entry it returned last even when that costs `RTMETRIC_MAX` or more
(`neighbor.c:309-313`), and `last_best` may point at an entry that has been freed
(`neighbor.c:93`, `265`), whose address is null: `Routes` has both. From NULL it comes
back only with a usable neighbour (`NextBest`), but then after any change of the
table, an acknowledgement's change of an `etx` included. A cost may be 0, and the
node takes itself for the sink then (`SINK_METRIC`). The radio acknowledges or not
at will. The history variable `resent` becomes true when a handler has sent the very
packet it goes on to remove (see `resent` below). Left out: the sink itself, closing
the connection, statistics and time stamps, the static topologies that can be
compiled in, restarts of the node.

### ForwardQueue

The abstract promise: a bounded queue that packets leave in the order in which they
were accepted. Only the oldest is ever transmitted; it leaves acknowledged, after at
most `max` failures, or given up, after exactly `max + 1`. `RelCollect` instantiates it
with `queue <- c.queue`, `air <-` the packet in `c.buf` while `c.is_tx` is 1 and
`void <- resent`, with which the promise ends; `tries` and `out` are the history variables
of the same names. Accepting a packet, taking one
off and taking up the next may fall into one step, since a handler does all of them.

### NeighborTable and Routing

`NeighborTable` has the operations of `neighbor.c` as operators from a table to the
tables they may leave: `Find`, `Update`, `UpdateEtx`, `TimedOutEtx`, `Add` (with the
entry it recycles), `Remove`, `Best`. `last_best` is a block of the table's
memory, which may be one that has been freed: `neighbor_remove` compares a
node's address with the address of the pointer (`neighbor.c:265`), so removing the
best neighbour leaves the pointer where it is. Metrics and samples are cut to a
byte when they are stored, and only then.

`Routing` gives such a table to every node but the sink and models what
`relcollect.c` does to it:

| Action | Code |
|---|---|
| `Hear` | `received_announcement`: a neighbour is added or updated, the metric follows |
| `Send`, `Receive` | `relcollect_send`, `rel_node_packet_received` |
| `Sent`, `TimedOut` | `rel_node_packet_sent`, `rel_node_packet_timedout`: the ETX, then the metric, then the queue |
| `Age` | `periodic()` removes a silent neighbour, at any time |
| `Reboot` | a node starts again with an empty table |

A cycle is broken where the code breaks it: in `rel_send_queued_packet`, if the
packet at the head of the queue came from the best neighbour. Of the queue only
that is kept (`Head`). Since an announcement is composed of the metric of the
moment and replaced when it changes, hearing one is reading the sender's metric.
The sink's own table is left out: `rel_update_rtmetric` returns at once there.
`changes` counts what is not routing but its environment: changes of an ETX,
neighbours that age or are removed for a cycle, restarts. Bound: `MaxChanges`.

### TopologyHistory

A topology is the time since its stamp and a function from the nodes in it to
parent and time since the report; time stamps are represented as ages, so that
one `Tick` lets all of them grow, up to `MaxAge`.

| Action | Code |
|---|---|
| `Report` | `updateTopologyHistory`, under the lock: update in place within `Restamp`, else copy forward |
| `PhaseOver`, `GetFirst`, `Statistics` | line `F`: `isEmpty()`, then `getFirst()` and its test, then the statistics of another `getFirst()` |
| `TestPrint`, `PrintTopology`; `TestFinish`, `CollectionFinished` | two more pairs of a test and a use without the lock |
| `PacketLine`, `LogTopology` | line `A`, one packet, at any time: `printCurrentTopology` tests and uses without the lock too |
| `Purge` | one round of the purging thread |
| `Prepare`, `TestExtract`, `Extract` | the estimation trigger: `prepareTopologies`, then the configuration of the first topology |

`IsConsistent` is `isConsistent()` with its walks from parent to parent, written as
a recursive function of the nodes already visited; `IsTree` is what it is for. The
history variable `cut` says that nodes were purged since the reader's test for
consistency.
Not modelled: PRR, packet rates and MAC parameters of a node, damaged lines. A
damaged line can make a node its own parent, which the controller takes for
another sink; `buildPathList` then does not end. Bound: `MaxTopologies`.

### GlossyFlood

All hosts of one flood after the other. Hosts transmit within microseconds of
each other, so the rising edges of SFD in a slot are one step (`SlotStarts`) and
the falling edges another (`SlotEnds`). At each edge any host in range may miss,
abort or fail to decode what is sent, as with noise or foreign traffic.

| Action | Code |
|---|---|
| `SlotStarts` (`BeginTx`, `Spoilt`) | `glossy_begin_rx`, `glossy_begin_tx`, `radio_abort_rx` |
| `SlotEnds` (`EndTx`, `EndRx`) | `glossy_end_tx`, `glossy_end_rx`, the end of an abort |
| `InitiatorTimeout` (`Repeated`) | TBCCR4: nobody was heard to relay, so the packet is sent again with slot field 200 |
| `Stop`, `Start` | `glossy_stop` at each host on its own time, `glossy_start` |

The slot length is taken as known, so the reference time is a number of slots.
Bounds: `MaxSlots`, which is the duration of the flood, and slot fields that stay
in their byte: `FloodAssumption` asks for `RestartSlot + MaxSlots < SlotMod`.

### Broadcast

The abstract promise: the set of hosts that have the packet grows by hosts in range of
one that has it, at most one hop per slot, and a host's application gets the data only
when the host has been reached. `GlossyFlood` instantiates it with `slot <- now`,
`reached <-` the initiator and the hosts that have received, and `copied <-` the hosts
whose application holds the data of this flood.

### Xmac

The process is a sequence `todo` of operations, each of them one access of what
interrupts change: a test or an assignment of a flag, a call of the driver, one
line of `RELEASE_LOCK`, enabling or disabling a timer. A call of the driver that
switches the radio takes two steps, the assignment of `receive_on` and the strobe
(`SetReceiveOn`, `StrobeRadio`; `cc2420.c:208-211`, `218-223`): the `off()` of a Glossy
phase that falls in between leaves the radio listening with `receive_on` cleared. `ReadPacket`, `SendPacket`
and `SetXmacConfig` choose the sequence; `TestOnOff`, `SetFlag`, `Call`, `SetTimer`,
`TestTimeout`, `Lock`, `Transmit`, `ReleaseLock`, `Strobe`, `ReadAck` and `GiveUp`
execute its head. Interrupts fall anywhere in between:

| Action | Code |
|---|---|
| `Powercycle` (`OffPhase`, `OnPhase`) | `powercycle()`, the protothread that turns the radio on and off |
| `Timeout` | `timeout()`: no packet followed the strobe |
| `GlossyStarts` | `glossy_scheduler`: `rime_mac->off(0)`, all other interrupts disabled |
| `GlossyEnds` | `glossy_stop()`, interrupts enabled, `rime_mac->on()` |
| `Arrive` | a frame is in the radio's buffer |

Time is kept only by order of magnitude. Whatever the process does besides
sending takes less than a phase of the cycle and less than the 6 ms of
`TIMEOUT_TIME`, so a timer that has expired once during it, or was set by it, does
not expire again before its end (`hit`). Between two Glossy phases, which are
seconds apart, `powercycle` runs at least `Turns` times. The comment that the
timeout "always expires within the off phase" (`xmac.c:258`) is not relied on.

What the model showed on the way, and the properties allow for:

- `turn_off()` leaves `radio_is_on` set. After a Glossy phase or a new
  configuration that fell in an on phase the flag says on and the radio is off, so
  the next `on()` does nothing and the node is deaf for that on phase.
- `glossy_stop()` turns the radio off past the driver's `receive_on`, with the same
  effect when a request was pending.
- `RELEASE_LOCK` is not atomic: a request that comes after its test stays pending
  until the next access, and the radio may be on for a whole off phase.
- The radio may listen although the driver has it off, out of reach of `off()`,
  which returns at once: when an interrupt falls into the switching of the radio, and
  when a frame leaves after the driver has stopped waiting for it
  (`cc2420.c:478-489`, without the `off()` of 462-465; last line of `Transmit`). The
  next `on()` and `off()` of the cycle end it, which is part of `DutyCycle`.

Left out: the time within a phase (hence `in_on_phase` and the random start after
a configuration), matching acknowledgements to packets and `got_data_ack`,
announcements, energy accounting. Strobes to the broadcast address are never sent
by this code, which repeats the packet itself. Bound: one frame at a time.

## 3. Runs

| Run | Checks | Shows | Distinct states |
|---|---|---|---|
| `configure` | `TypeOK`, `OnlyWrapHides`, `FromOneFlood`, `RunsItsGeneration`, `ForwardOnly`, `ImplementsRegister`, `Converges` | wherever interrupts fall, floods are lost, the number wraps or a node restarts: a node misses a configuration only through a wrap, never mixes two floods, never goes back; until an interrupt meets a configuration half done dissemination implements the register, and without one the last configuration reaches every host that no wrap hides it from | 170 000 |
| `torn` | `Intact`, violated | a flood that starts between the copies makes a node run a mix of two configurations | |
| `all` | `TypeOK`, `NoLostWakeup`, `RetryBudget`, `Paced`, `KeepsOptimizing` | all six triggers | 77 000 |
| `lost` | `OptimizesImmediately`, violated | the trigger thread overwrites the period the reader asked for | |
| `forward` | `TypeOK`, `NoLeak`, `RingIsRecent`, `ImplementsQueue`, `ForwardsWhatItReceives`, `QueueMoves` | a node whose queue and pool fill up: it implements the queue of `ForwardQueue` until it restarts a packet it is about to remove, and the queue moves while there is a route | 145 000 |
| `resent` | `RemovesWhatWasSent`, violated | the end of a transmission sends the packet again and removes it, and the next end removes a packet that was never sent | |
| `stuck` | `ForwardingEnds`, violated | `forwarding` stays set when the pool is empty | |
| `network` | `TypeOK`, `OneEntryEach`, `LoopFree`, `SendsToNearlyBest`, `Converges` | tables stay consistent, and the routes settle when the links do | 101 000 |
| `sinkhole` | `OnlySinkLooksLikeSink`, violated | a metric cut to a byte makes a node look like the sink | |
| `history` | `TypeOK`, `LastReportKept`, `HandedOverAreTrees`, `ThreadsSurvive`, `OutdatedLeave` | three threads on the shared history, and what it takes to kill each | 209 000 |
| `flood` | `TypeOK`, `CountedIsCopied`, `SamePacketInSlot`, `ReferenceIsStart`, `TransmitsAtMost`, `OneHopPerSlot`, `ImplementsBroadcast` | floods over two hops with losses and hosts that stop at any moment: they implement `Broadcast` | 2.7 million |
| `cycle` | `TypeOK`, `CycleGoesOn`, `RadioFollows`, `DutyCycle` | interrupts anywhere: the duty cycle goes on and the radio follows it | 217 000 |

**Bounds.** `GlossyConfig`: one node, since nodes write nothing that the sink or
another node reads (relays carry the sink's packet on), and the theorems hold for
any number; two lines, so that a run of the process for the second meets the
remains of the first; one report slot, which is enough for a gap in which Glossy is off
while the phase goes on; one restart. `SeqMod` is 2, so that the wrap happens within
two lines: a node that misses both finds its own number again (`HiddenByWrap`), in
the code one that misses 256.
`OptimizationTrigger`: three different periods, two retries, and enough phases
during a call of ECLiPSe for the longest period to run over. `RelCollect`: a pool
of three, so that queue, advertisement and the packet in transmission compete for
buffers, and a queue that is no shorter, since in the firmware too the pool is the
limit (22 buffers, `contiki-conf.h:153`, for 50 queue items, `relcollect.c:112`); a ring of two with three packets, so that it wraps; packets
with and without retransmissions and one that comes back from a candidate parent
(a cycle); two costs, one of them `RTMETRIC_MAX`, so that the metric changes with and
without losing the route and may say there is none while there is a best neighbour. A
cost of 0, of a node that takes itself for the sink, is in the theorems but in no run:
such a node forwards nothing more. `resent` has a larger queue and pool, since two
packets have to wait and one of them is in relunicast, and no retransmissions. `Routing`: the sink and two routers in range of each other, so that each may take the
other for its parent; bytes of three bits (`ByteMod` 8, `RTMETRIC_MAX` 7), so that
metrics wrap within a few steps; a ring of one ETX sample; two changes, so that the
second meets what the first has left. The table has room for all
neighbours, since `Converges` needs it: with less, nodes drop each other in turn,
and a node that counts to infinity may wrap to 0 before it is through. Hence the
choice of the entry to recycle (`Worst`) is never made in this run; the proofs
cover it. `sinkhole` takes a line of three nodes and one change. `TopologyHistory`:
a chain of three nodes of which two can take each other for parents and the third
leads into that cycle, two topologies, ages of three values, with a window that
is shorter than the silence as in the default configuration (10 and 30 minutes).
`GlossyFlood`: two hosts next to the initiator and one behind both, which receives
from two senders at once; seven slots are enough for the initiator to send three
times, for a repeated first transmission and for its relays. `Xmac`: `Turns` is 3.
Fewer would let Glossy come before the one deaf on phase after the last Glossy
phase is over, and `DutyCycle` fail; in the firmware phases of Glossy are a minute
(at least 4 s while it synchronizes) and cycles about half a second apart.

**Fairness.** `GlossyConfig` (`Fairness`): the timer interrupts keep coming (WF of the
sink's scheduler and of the end of a node's phase); the kernel, which Glossy
holds for less than a second in 60, runs a process that is ready again and again
(SF), and not every time with an interrupt between its resumption and its test of
`GLOSSY_IS_ON()` (SF of `CheckGlossy` while Glossy is off); a node is not out of the reach of every flood for ever (SF of `Receive`).
`OptimizationTrigger` (`FairSpec`): both threads run and get the lock that becomes
free again and again (SF); since phases are a minute apart, a thread that has
been woken up returns from `doWait()` before the reader sets another period, if
not each time then in the end (SF of `LeaveWait`). Nothing is assumed of reports,
purges and spurious wake-ups. `RelCollect` (`FairSpec`): the application's timer
and relunicast's timer fire (WF). `Routing` (`FairSpec`): announcements are repeated for
ever by `send_timer`, and the radio does not lose all those of a neighbour (SF of
`Hear`). `TopologyHistory` (`FairSpec`): the purging thread's timer fires (WF).
`Xmac` (`FairSpec`): the process runs on, the adaptation process runs when it was polled,
timers that are armed expire and a Glossy phase ends (WF each).

**Deadlock** is checked in all runs; none of the models stops.

### What the violated properties say

- `torn` (`adaptive-mac.c:480-487`): the process tests `GLOSSY_IS_ON()` once and
  then publishes with four assignments. A phase that starts in between floods the
  new `seq_no` with old fields, and nodes do not look again while `seq_no` stays. In
  the trace the flood starts before the last copy; the node receives it, takes it
  over and runs `t_l` and `t_s` of the line with the `n` it was compiled with.
- `lost` (`TimedPerformanceTrigger.java:162-189`): if the trigger thread is not in
  `doWait()` when the reader asks for an immediate optimization, its own
  `setPeriod` replaces the request and it sleeps for a whole period.
- `resent` (`relcollect.c:304`, `411-418`, `432-439`): at the end of a transmission
  `forwarding` is cleared, the metric updated and the packet removed, in this order.
  If the metric was `RTMETRIC_MAX` and the update changes it, the update sends the head
  of the queue, which is the packet just done with. In the trace the route was
  taken away by an announcement during the transmission and comes back with the ETX
  of the acknowledgement. The packet goes out a second time, is removed while it is on
  the air, and when it is acknowledged again the packet behind it is removed unsent.
- `stuck` (`relcollect.c:244-248`): the result of `relunicast_send` is ignored.
- `sinkhole` (`relcollect.c:288`, `neighbor.c:93`, `141`, `181`, `265`): the metric of a
  node is the sum of the best neighbour's and its ETX, kept in 16 bits and announced
  as such; a neighbour stores it in 8. In the trace no packet is sent: `a1` has heard
  the sink, whose entry ages out while `last_best` goes on pointing at its block; the
  announcement of `a2`, which has no route, takes the block; `a1` finds the cost
  `RTMETRIC_MAX + 1` there, which is 2^8, and `a2` stores it as 0 and takes `a1` for
  the sink. A node whose own metric comes out as 0 takes itself for the sink and
  never updates it again.

### What properties set aside

- `QueueMoves` sets aside the executions of `stuck`, and those in which the best
  neighbour vanishes without an update of the metric: the queue is restarted only
  when the old metric was `RTMETRIC_MAX` (`relcollect.c:304`), so the return of a route
  restarts nothing.
- `ForwardsWhatItReceives` holds but for steps in which the metric changes: updating
  it (`relcollect.c:343`) composes an announcement in the packet buffer that holds the
  received packet (`polite-announcement.c:96`), and that is what is queued.
- `ThreadsSurvive` says what it takes to kill a thread, since each can die. The purging
  thread dies at `getFirst()` (`AdaptMac.java:154`) only when no node has reported for
  longer than the window: one node that does keeps it alive, however the topologies
  before were spread. A trigger dies only of the empty list that the dead purging
  thread has left, between its test and its use. The reader dies of that too, or when
  nodes were purged between its test for consistency and its statistics
  (`AdaptMac.java:426`) and the walk meets an unknown parent; the reports that it adds
  itself and the passing of time do not refute the test.
- `ImplementsQueue` ends with the first packet that is restarted as in `resent`.
- A node drops what it receives while its metric is `RTMETRIC_MAX` (`relcollect.c:373`),
  which `neighbor_best()` allows with a best neighbour that costs just that: no property
  says that such a node has no route, because it may have one.
- `RetryBudget` counts optimizations that returned nothing, of the periodic triggers.
  The comment of the initial trigger, "up to ten times if it failed or if the
  constraints were not satisfiable and the optimizer returned parameters geared
  toward reliability" (`InitialOptimizationTrigger.java:46-49`), promises more than its code
  does: answers of the second kind do not use up a retry (139-158), so there may be
  any number of them. `InjectedForReliability` and `InjectedForGood` model the code;
  the disagreement was found by reading and has no run of its own.
- `CountedIsCopied` names the one moment in which `glossy_stop()` counts a reception
  whose data has not been copied. At the sink the report of the slot is then the
  one of the phase before, printed as received (`glossy_interface.h:267`).
- `UnifiedDataRateTrigger.java:195-221`: the first collection leaves the loop that
  initializes `dataRate` with the flags of a switch, so the first request for an
  optimization may come without a cause; modelled in `SwitchBranch`.

## 4. Proofs

The theorems hold for every value of the constants that the named assumptions
allow: any number of nodes, configurations, slots, restarts, periods, retries,
neighbours, packets, any sizes of the queue, the pool, the ring and of the
sequence numbers.

**`GlossyConfig_proofs`** (assumption `ConfigAssumption`).
`TypeInv` is `TypeOK` with two facts a step needs: a line being handled has been
sent and the sink's generation lags behind it until `seq_no` is incremented
(otherwise the ghost would leave its range), and the slot number is behind the
last slot whenever another may start. `SeqInv` says that every `seq_no` is its generation modulo `SeqMod` and
that generations only travel from the sink to the packet, from there to a node's
copy and to the node: each is at most the one before. Then `OnlyWrapHides` is
inductive, by the lemma `WrappedIncrement` about remainders, and `ForwardOnly`
follows from it. `FloodInv` follows one configuration through packet, copy,
`new_cfg` and `current_cfg` and gives `FromOneFlood`. `disturbed \/ AtomicInv` is
inductive with interrupts anywhere: every line is the next one, what has been parsed,
rounded and copied so far is known at every `pc` (`RunInv`, `CopyInv`), the sink has
taken over what it published before it parses again (`SinkInv`), and so whatever
travels is a whole configuration under its own number; an interrupt that is not
harmful falls where it reads a whole configuration or writes the one that is there.
From it follow `RunsItsGeneration` and, with `HeldInv` (a host runs no more than its
generation, which has been sent), the refinement of `ConfigRegister`: `SendLine` publishes, `Adapt` adopts or stutters, `Reboot` restarts
and all other steps stutter.

**`OptimizationTrigger_proofs`** (`TriggerAssumption`). `TriggerInv` is
`TypeOK /\ NoLostWakeup /\ WaitInv /\ RetryInv`. `WaitInv` says that the period in
the monitor is the one the trigger thread set unless the reader has set it since,
and that signals do not outnumber collections; from it follows `Paced`.
`RetryInv` bounds failures plus retries left by `MaxRetries`, and by one more
between a failed optimization and the next wait, for the periodic triggers; from it
follows `RetryBudget`.

**`RelCollect_proofs`** (`CostAssumption`, `BoundAssumption`, `ForeignAssumption`).
The invariant is stated of a state of the record `c`, since handlers are
compositions of helpers: `Sound` (types; the buffers allocated are those of the
queue, of relunicast and of the advertisement; a transmission is of a packet, and
the layer waits for its end), which also holds in the middle of a handler, and
`HeadSent` (the packet in transmission is the head of the queue), which holds between
handlers until `resent`. Nothing is assumed of costs: a best neighbour may cost
`RTMETRIC_MAX`, more, or nothing. For each helper a lemma says what it keeps, and that
it leaves a transmission in progress alone; a handler's proof chains them in the order
of its calls.
`Counted` ties the history `tries` to `rxmit`, `RingInv` the ring to the history
of accepted packets. For the refinement of `ForwardQueue` every handler is shown to
be one of its steps. `CollectInv` and one more invariant are enough (`Rested`: no
transmission is counted while none is going on). Handlers other than the timer of
relunicast leave the queue as it is or append one packet (`QueueGrows`), and leave the
transmission as it is or take up a packet, with the count at 0 (`QuietStep`). The
delicate handler is `Finish`, where the metric is updated before the packet is
removed: if that starts no transmission, what leaves is what was sent (`FinishQueue`),
else `resent` is set. `GivesUpOnlyAfterAll` holds of restarted packets too.
`ForwardsWhatItReceives` follows from what `SendQueued` and `UpdateMetric` leave of the packet buffer while the metric stays.

**`GlossyFlood_proofs`** (`FloodAssumption`; any network, any number of hosts and
slots). `FloodInv` has a part for each concern: `StatusInv` (who transmits holds the
flooded packet, and only during a slot), `SlotInv` (the slot field is the number of
the slot, or at least that of a restart), `CopyInv` (the first packet received
is relayed before the next one is), `SentInv` (transmissions against `tx_cnt` and
restarts) and `TimerInv`, which is why the timeout never hits the initiator's own
transmission. The first five safety properties are read off it. `OneHopPerSlot` has two
halves. `SpeedInv` says of any flood, with losses too, that a host which has the packet
is within `now` hops of the initiator. `HopInv`
says, while nothing is lost, that a host which has the packet is about to
send it or has neighbours that all have it, and that the hosts within `now` hops have
it; the recursive `Within` is shown to satisfy its equation by a least fixpoint.
The refinement of `Broadcast` has a lemma per edge: `SlotEndsSpreads`, because a
reception needs a sender in range and senders have the packet, and `SlotStartsCopies`,
because only a host that is about to relay what it has received copies it.

**`TopologyHistory_proofs`** (`HistoryAssumption`). `ConsistentIsTree` says
that `isConsistent()` accepts exactly the trees rooted at the sink. The walk is a
recursive function of the set of visited nodes; it is shown to have its defining
equation by a least fixpoint, and for the nodes from which it does not end a
largest set of visited nodes gives a set that no parent leads out of. `HistoryInv` is
`TypeOK`, `LastReportKept`, `Tested` (what a thread has tested still holds, unless the
purging thread has emptied the list and died, or purged nodes meanwhile) and `Covered`
(no report is older than the first topology). `ThreadsSurvive` is read off it step by
step: `Covered` is why an emptied list means that every report was too old.

**`Routing_proofs`** (`TableAssumption`, `NetworkAssumption`). For each
handler a lemma says that it takes a node to a `Good` state: types, one entry per
neighbour, the hysteresis respected, packets handed to a nearly best neighbour.
From them follow `TypeOK`, `OneEntryEach`, `SendsToNearlyBest` and `NearlyBest`, the
statement that between handlers the best neighbour costs at most 2 more than
the cheapest. `LoopFree` needs that what a node remembers of its neighbours'
metrics is no lower than what they are (`Above`) and that handlers only lower
metrics (`Descent`) while nodes are `Calm`: best neighbour and metric agree.
`LeadsToSink` goes from there to the routes: of any set of routers that have a parent,
the one with the least metric has its parent outside of the set, since a parent's
metric is lower (`ParentIsCloser`).

**`Xmac_proofs`** (`TurnsAssumption`). `CycleInv` says of the operations left to the
process that every lock is followed by its unlock with only operations of an
access in between, and every disabling of the one timer by the enabling of the
other; that is kept by concatenation, by going on and by skipping, wherever the
interrupts fall. `SwitchInv` ties the two halves of switching the radio to the call that the
process is in. For `RadioFollows` that is not enough: `Following` says that a
process that is not sending is at some position of one of eight plans, and for
each position what flags, radio and timers are (`At`): stable, or off after
powercycle has come to its off phase meanwhile, or in the middle of answering a
strobe. Every operation takes the process to the next position (`Progress`), and an
interrupt leaves it where it is (`Stays`); that each timer expires at most once
while the process is at work (`hit`) keeps the on phase and the timeout away from the
positions they would break.

**Only model-checked.** The liveness properties (`Converges` twice,
`KeepsOptimizing`, `QueueMoves`, `OutdatedLeave`, `DutyCycle`), which rest on
fairness; liveness is out of the prover's reach. Every safety property of a passing
run is proved. Proved but in no run: `NearlyBest` (its step version `SendsToNearlyBest` is
in one), `GivesUpOnlyAfterAll` (until `resent` part of `ImplementsQueue`) and
`LeadsToSink` (`LoopFree` with one more step).

## 5. Plan

Written in this order, the part with most interleaving first:

1. `GlossyConfig`, `ConfigRegister`: the loop's way down (done).
2. `WaitNotify`, `OptimizationTrigger`: when the controller acts (done).
3. `RelCollect`: the data the loop observes (done).
4. `TopologyHistory`: what the controller knows (done).
5. `NeighborTable`, `Routing`: who forwards to whom (done).
6. `GlossyFlood`: the flood below dissemination (done).
7. `Xmac`: the duty cycle and the radio driver (done).
8. Proofs of the safety properties of 1 to 7 (done).
9. `ForwardQueue`, `Broadcast`: abstract specifications of 3 and 6, with the proofs that
   they are implemented (done).

Left, in this order: an abstract specification of the topology history and of the
pacing of the triggers, with their refinements; a proof that every best neighbour of
`Routing` is among those that `RelCollect` allows for; restarts of the sink together with the
controller's side; acknowledgements of X-MAC matched to packets, with relunicast.

## 6. Not modelled, and why

- **Real time.** Slot lengths, clock drift and synchronization, duty cycling. The
  models are untimed: they cover every order of events the timers allow, and some
  that timing excludes.
- **Optimizer.** Numerical search; no state, no concurrency.
- **The table of neighbours in `RelCollect`.** What `neighbor_best()` returns there
  changes at will; how it comes about, and the cut of metrics to 8 bits, is modelled
  in `Routing`.
- **Acknowledgements of X-MAC.** `got_data_ack` may be the one of the packet before
  (`xmac.c:411`); relunicast is checked against acknowledgements at will instead.
- **Bootstrapping and synchronization of Glossy.** They need clocks.
- **LPP, FTSP, Trickle, experiment variants of the application.** Not in the
  default build, or copies of the same protocol.
- **Characters of the serial protocol, contents of reports, statistics.** Data
  that none of the properties depends on.
- **Restarts of the sink, and of nodes in the collection layer.** Listed among the
  hazards. Restarts of nodes are modelled in `GlossyConfig` and `Routing`.

## 7. Running it

    tlc -config GlossyConfig_configure.cfg GlossyConfig
    tlapm RelCollect_proofs.tla

and likewise for the other runs and proof modules (`cycle` runs `Xmac` itself, the
others the `MC` module of their model). The
passing runs take from ten seconds to two and a half minutes each with two workers.
