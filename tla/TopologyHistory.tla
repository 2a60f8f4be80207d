--------------------------- MODULE TopologyHistory ---------------------------
(***************************************************************************)
(* What the controller remembers of the network (AdaptMac.java,            *)
(* Topology.java, NodeTopologyInfo.java): a list of topologies, newest     *)
(* first, guarded by its lock, though not everywhere.  Three threads use   *)
(* it: the one that reads the serial line adds the reports of the nodes    *)
(* and prints statistics after every phase, the purging thread drops       *)
(* topologies and nodes that are too old, and the thread of a trigger      *)
(* reads it to write ECLiPSe's input.                                      *)
(*                                                                         *)
(* A topology is the time since its stamp and, for every node in it but    *)
(* the sink (which is always in it), the parent and the time since its     *)
(* report.  Time stamps are represented by ages, which grow together up to *)
(* MaxAge.  Lines are undamaged: no node but the sink names itself as its  *)
(* parent.  PRR, packet rates and MAC parameters are left out.             *)
(***************************************************************************)
EXTENDS Naturals, Sequences, FiniteSets

CONSTANTS
  Node, Sink,     \* ids
  Link,           \* pairs of a node and a possible parent
  Restamp,        \* seconds during which a topology is updated in place
  Window,         \* topologyTimeWindow
  Silence,        \* maximumPeriodOfSilence
  MaxAge,         \* bound: ages above it are not told apart
  MaxTopologies   \* bound: older topologies are forgotten

ASSUME HistoryAssumption ==
  /\ Sink \notin Node
  /\ Link \subseteq {l \in Node \X (Node \cup {Sink}) : l[1] # l[2]}
  /\ Restamp \in Nat \ {0} /\ Window \in Nat /\ Silence \in Nat \ {0}
  /\ MaxAge \in Nat /\ MaxAge > Window /\ MaxAge >= Silence /\ MaxAge >= Restamp
  /\ MaxTopologies \in Nat \ {0}
  /\ IsFiniteSet(Node)

VARIABLES
  history,   \* topologyHistory
  reader,    \* the reading thread: the access of the history that comes next
  trigger,   \* a trigger's thread: the same
  purger,    \* the purging thread
  heard,     \* history: the last report of every node
  cut        \* history: nodes were purged since the reader's test for consistency

vars == <<history, reader, trigger, purger, heard, cut>>

Age  == 0 .. MaxAge
Info == [parent : Node \cup {Sink}, age : Age]
InfoOf(S) == [S -> Info]
Topology == [age : Age, info : UNION {InfoOf(S) : S \in SUBSET Node}]

Init ==
  /\ history = <<>>
  /\ reader = "line" /\ trigger = "wait" /\ purger = "alive"
  /\ heard = [n \in {} |-> [parent |-> Sink, age |-> 0]]
  /\ cut = FALSE

-----------------------------------------------------------------------------
(***************************************************************************)
(* Topologies.                                                             *)
(***************************************************************************)
Nodes(t) == DOMAIN t.info

\* Fault: a HashSet keeps the element it has when an equal one is added.
With_KeepsOld(info, n, p) ==
  [m \in DOMAIN info \cup {n} |->
     IF m \in DOMAIN info THEN info[m] ELSE [parent |-> p, age |-> 0]]

\* The information on all nodes and the new one on n (Topology(t, n)).
With(info, n, p) ==
  [m \in DOMAIN info \cup {n} |->
     IF m = n THEN [parent |-> p, age |-> 0] ELSE info[m]]

\* Topology(t, toPurge): clones keep their time stamps.
Without(t, silent) ==
  [age |-> 0, info |-> [m \in Nodes(t) \ silent |-> t.info[m]]]

\* Fault: the walk up the tree is not made.
IsConsistent_NoWalk(t) == \A n \in Nodes(t) : t.info[n].parent \in Nodes(t) \cup {Sink}

Parents(t) == [n \in Nodes(t) |-> t.info[n].parent]

\* The nodes from which the walk from parent to parent, after it has visited some nodes,
\* ends at the sink before it comes to one of them again.
Ending(parent) ==
  LET E[visited \in SUBSET DOMAIN parent] ==
        {n \in DOMAIN parent :
           \/ parent[n] = Sink
           \/ parent[n] \notin visited /\ parent[n] \in E[visited \cup {parent[n]}]}
  IN  E

\* isConsistent: every parent is known, and the walk from every node ends at the sink.
IsConsistent(t) ==
  /\ \A n \in Nodes(t) : t.info[n].parent \in Nodes(t) \cup {Sink}
  /\ \A n \in Nodes(t) : n \in Ending(Parents(t))[{n}]

\* Fault: the new topology becomes the last of the list.
AddFirst_AddsLast(t, h) == SubSeq(Append(h, t), 1, MaxTopologies)

\* addFirst.  Bound: MaxTopologies.
AddFirst(t, h) ==
  [i \in 1 .. (IF Len(h) < MaxTopologies THEN Len(h) + 1 ELSE MaxTopologies) |->
     IF i = 1 THEN t ELSE h[i - 1]]

\* What prepareTopologies hands over: all consistent topologies if the first is one.
HandedOver(h) ==
  IF h # <<>> /\ IsConsistent(h[1])
  THEN {t \in {h[i] : i \in DOMAIN h} : IsConsistent(t)}
  ELSE {}

-----------------------------------------------------------------------------
(***************************************************************************)
(* The thread that reads the serial line.                                  *)
(***************************************************************************)
\* updateTopologyHistory, under the lock: n reports the parent p.
Report(n, p) ==
  /\ reader = "line"
  /\ heard' = With(heard, n, p)
  /\ history' =
       IF history = <<>>
       THEN <<[age |-> 0, info |-> With([m \in {} |-> 0], n, p)]>>
       ELSE LET t == [age |-> 0, info |-> With(history[1].info, n, p)]
            IN  IF n \in Nodes(history[1]) /\ history[1].age < Restamp
                THEN [history EXCEPT ![1] = t]
                ELSE AddFirst(t, history)
  /\ UNCHANGED <<reader, trigger, purger, cut>>

ReaderGoesTo(pc) ==
  /\ reader' = pc
  /\ cut' = FALSE
  /\ UNCHANGED <<history, trigger, purger, heard>>

\* isEmpty() without the lock; the getFirst() that follows is a step of its own.
ReaderTests(full, empty) == ReaderGoesTo(IF history # <<>> THEN full ELSE empty)

\* getFirst() throws NoSuchElementException on an empty list, which is not caught.
ReaderGets(pc) == ReaderGoesTo(IF history = <<>> THEN "dead" ELSE pc)

\* A line "A", one packet, comes at any time: printCurrentTopology.
PacketLine == reader = "line" /\ ReaderTests("logging", "line")
LogTopology == reader = "logging" /\ ReaderGets("line")

\* A line "F": the phase is over.
PhaseOver == reader = "line" /\ ReaderTests("first", "print")

\* Fault: the statistics are computed of any topology.
GetFirst_NoTest == reader = "first" /\ ReaderGets("statistics")

GetFirst ==
  /\ reader = "first"
  /\ ReaderGoesTo(IF history = <<>> THEN "dead"
                  ELSE IF IsConsistent(history[1]) THEN "statistics" ELSE "print")

\* computePRRStats of another getFirst(): walks from parent to parent to the sink.
Statistics ==
  /\ reader = "statistics"
  /\ ReaderGoesTo(IF history # <<>> /\ IsConsistent(history[1]) THEN "print" ELSE "dead")

\* printCurrentTopology.
TestPrint == reader = "print" /\ ReaderTests("printing", "finish")
PrintTopology == reader = "printing" /\ ReaderGets("finish")

\* collectionFinished of the trigger, which looks at the nodes of the first topology.
TestFinish == reader = "finish" /\ ReaderTests("finishing", "line")
CollectionFinished == reader = "finishing" /\ ReaderGets("line")

Reader ==
  \/ \E l \in Link : Report(l[1], l[2])
  \/ PacketLine \/ LogTopology
  \/ PhaseOver \/ GetFirst \/ Statistics \/ TestPrint \/ PrintTopology
  \/ TestFinish \/ CollectionFinished

-----------------------------------------------------------------------------
(***************************************************************************)
(* The other threads, and time.                                            *)
(***************************************************************************)
\* One round of the purging thread.  The stamps grow towards the head of the list, so
\* the topologies to be purged are the last ones.  If that is all of them getFirst()
\* throws.  Otherwise the nodes that are silent in the first topology are dropped.
Purged(h) ==
  LET kept == SubSeq(h, 1, Cardinality({i \in DOMAIN h : h[i].age <= Window}))
      silent == {n \in Nodes(kept[1]) : kept[1].info[n].age >= Silence}
  IN  IF kept = <<>> THEN [history |-> kept, thread |-> "dead", silent |-> {}]
      ELSE [history |-> IF silent = {} THEN kept
                        ELSE AddFirst(Without(kept[1], silent), kept),
            thread |-> "alive", silent |-> silent]

Purge ==
  /\ purger = "alive" /\ history # <<>>
  /\ history' = Purged(history).history
  /\ purger' = Purged(history).thread
  /\ cut' = (cut \/ (reader = "statistics" /\ Purged(history).silent # {}))
  /\ UNCHANGED <<reader, trigger, heard>>

TriggerGoesTo(pc) ==
  /\ trigger' = pc
  /\ UNCHANGED <<history, reader, purger, heard, cut>>

\* The estimation trigger: prepareTopologies, under the lock, is read-only; then
\* extractCurrentMacConfiguration tests and gets without the lock.
Prepare == trigger = "wait" /\ TriggerGoesTo("extract")
TestExtract ==
  /\ trigger = "extract"
  /\ TriggerGoesTo(IF history # <<>> THEN "extracting" ELSE "wait")
Extract ==
  /\ trigger = "extracting"
  /\ TriggerGoesTo(IF history = <<>> THEN "dead" ELSE "wait")

Trigger == Prepare \/ TestExtract \/ Extract

\* Bound: MaxAge.
Older(age) == IF age < MaxAge THEN age + 1 ELSE MaxAge
OlderInfo(info) == [n \in DOMAIN info |-> [info[n] EXCEPT !.age = Older(@)]]

Tick ==
  /\ history' = [i \in DOMAIN history |->
                   [age |-> Older(history[i].age), info |-> OlderInfo(history[i].info)]]
  /\ heard' = OlderInfo(heard)
  /\ UNCHANGED <<reader, trigger, purger, cut>>

Next == Reader \/ Purge \/ Trigger \/ Tick

Spec == Init /\ [][Next]_vars

\* The purging thread's timer fires every purgeCheckInterval.
FairSpec == Spec /\ WF_vars(Purge)

-----------------------------------------------------------------------------
(***************************************************************************)
(* Properties.                                                             *)
(***************************************************************************)

\* Types of the variables, and the order of the list: the first topology is the newest.
TypeOK ==
  /\ history \in Seq(Topology) /\ Len(history) <= MaxTopologies
  /\ \A i, j \in DOMAIN history : i < j => history[i].age <= history[j].age
  /\ reader \in {"line", "logging", "first", "statistics", "print", "printing", "finish",
                 "finishing", "dead"}
  /\ trigger \in {"wait", "extract", "extracting", "dead"}
  /\ purger \in {"alive", "dead"}
  /\ heard \in UNION {InfoOf(S) : S \in SUBSET Node}
  /\ cut \in BOOLEAN

\* While the purging thread lives, the first topology says of every node what it
\* reported last, however the reports of several nodes were spread over updates in
\* place and new topologies, and misses only nodes that have been silent for too long.
LastReportKept ==
  purger = "alive" =>
    LET known == IF history = <<>> THEN [m \in {} |-> 0] ELSE history[1].info
    IN  \A n \in DOMAIN heard : IF n \in DOMAIN known THEN known[n] = heard[n]
                                ELSE heard[n].age >= Silence

\* The paths to the sink: every set of nodes has one whose parent is outside it.
IsTree(t) ==
  /\ \A n \in Nodes(t) : t.info[n].parent \in Nodes(t) \cup {Sink}
  /\ \A S \in (SUBSET Nodes(t)) \ {{}} : \E n \in S : t.info[n].parent \notin S

\* The topologies handed over are trees rooted at the sink, whatever nodes reported and
\* at different times, so that the loop of buildPathList, which holds the lock, ends;
\* and a history that starts with a tree is not withheld.
HandedOverAreTrees ==
  /\ \A t \in HandedOver(history) : IsTree(t)
  /\ history # <<>> => (IsTree(history[1]) => history[1] \in HandedOver(history))

\* What it takes to kill a thread.  The purging thread dies only when no node has
\* reported for longer than the time window: one node that does keeps it alive.  A
\* trigger's thread dies only of the empty history that the dead purging thread left;
\* so does the reader, which else dies only if nodes were purged in between its test
\* for consistency and its statistics: reports, which it adds itself, and time do not
\* refute that test.
ThreadsSurvive ==
  [][/\ purger' # purger => \A n \in DOMAIN heard : heard[n].age > Window
     /\ trigger' # trigger /\ trigger' = "dead" => purger = "dead" /\ history = <<>>
     /\ reader' # reader /\ reader' = "dead" =>
          cut \/ (purger = "dead" /\ history = <<>>)]_vars

\* "Topologies are considered outdated when they stopped to exist TopologyTimeWindow in
\* the past, and will be purged at the next purge check" (controller.properties), and
\* silent nodes leave the current topology.
OutdatedLeave ==
  []<>(\/ purger = "dead"
       \/ /\ \A i \in DOMAIN history : history[i].age <= Window
          /\ history # <<>> =>
               \A n \in Nodes(history[1]) : history[1].info[n].age < Silence)
=============================================================================
