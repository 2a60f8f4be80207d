---------------------------- MODULE NeighborTable ----------------------------
(***************************************************************************)
(* The neighbour table of one node (neighbor.c).  A table is a record t    *)
(* with the fields                                                         *)
(*   entry      the blocks of neighbors_mem, each an Entry                 *)
(*   last_best  the block the pointer last_best refers to, or NULL         *)
(* and possibly others, which the operators leave alone.  A block is on    *)
(* the list exactly while it has an address: the code adds and frees both  *)
(* together.  Operators with a choice (the order of the list decides among *)
(* equals) are sets of the tables they may leave.                          *)
(***************************************************************************)
EXTENDS Naturals, FiniteSets

CONSTANTS
  Null,          \* rimeaddr_null
  MAX_NEIGHBORS,
  RTMETRIC_MAX,  \* metric of a node without a route
  NUM_ETXS,      \* NEIGHBOR_NUM_ETXS, length of the ring of ETX samples
  ByteMod        \* 2^8: ETX samples are uint8_t

ASSUME TableAssumption ==
  /\ MAX_NEIGHBORS \in Nat \ {0}
  /\ NUM_ETXS \in Nat \ {0}
  /\ ByteMod \in Nat \ {0, 1}
  /\ RTMETRIC_MAX \in 1 .. ByteMod - 1

Block == 1 .. MAX_NEIGHBORS
NULL  == 0
Byte  == 0 .. ByteMod - 1
Slot  == 0 .. NUM_ETXS - 1

EntryOf(Addr) == [addr : Addr \cup {Null}, rtmetric : Byte,
                  etxs : [Slot -> Byte], etxptr : Slot]

\* Memory after memb_init.
BlankEntry == [addr |-> Null, rtmetric |-> 0, etxs |-> [i \in Slot |-> 0],
               etxptr |-> 0]
EmptyEntries == [b \in Block |-> BlankEntry]

Listed(t) == {b \in Block : t.entry[b].addr # Null}

\* Fault: the search ends one block early.
Find_SkipsLast(t, a) ==
  IF \E b \in Block \ {MAX_NEIGHBORS} : a # Null /\ t.entry[b].addr = a
  THEN CHOOSE b \in Block : t.entry[b].addr = a
  ELSE NULL

\* neighbor_find.
Find(t, a) ==
  IF a # Null /\ \E b \in Block : t.entry[b].addr = a
  THEN CHOOSE b \in Block : t.entry[b].addr = a
  ELSE NULL

\* neighbor_etx: the mean of the samples, cut to a byte.  Their sum is the number of
\* pairs below their graph.
Etx(e) ==
  (Cardinality(UNION {{i} \X (0 .. e.etxs[i] - 1) : i \in Slot}) \div NUM_ETXS)
    % ByteMod

Cost(t, b) == t.entry[b].rtmetric + Etx(t.entry[b])

\* Fault: the metric is stored with all its bits.
Update_Uncut(t, b, metric) == [t EXCEPT !.entry[b].rtmetric = metric]

\* neighbor_update: the metric is cut to a byte.
Update(t, b, metric) == [t EXCEPT !.entry[b].rtmetric = metric % ByteMod]

Sample(t, b, etx) ==
  [t EXCEPT !.entry[b].etxs = [@ EXCEPT ![t.entry[b].etxptr] = etx],
            !.entry[b].etxptr = (@ + 1) % NUM_ETXS]

\* neighbor_update_etx, neighbor_timedout_etx: a byte is replaced, or added to.
UpdateEtx(t, a, etx) ==
  IF Find(t, a) = NULL THEN t ELSE Sample(t, Find(t, a), etx % ByteMod)

TimedOutEtx(t, a, etx) ==
  LET b == Find(t, a)
  IN  IF b = NULL THEN t
      ELSE Sample(t, b, (t.entry[b].etxs[t.entry[b].etxptr] + etx) % ByteMod)

\* The block neighbor_add fills: a free one, else the worst one (the highest metric,
\* then the highest etx), but not one with the address of last_best.  While
\* last_best is NULL the code compares with what it finds at address 0.
Worst(t) ==
  LET spared == IF t.last_best = NULL THEN {} ELSE {t.entry[t.last_best].addr}
      others == {b \in Block : t.entry[b].addr \notin spared}
      NotWorse(x, b) == \/ t.entry[x].rtmetric < t.entry[b].rtmetric
                        \/ /\ t.entry[x].rtmetric = t.entry[b].rtmetric
                           /\ Etx(t.entry[x]) <= Etx(t.entry[b])
      WorstOf(S) == {b \in S : /\ \A x \in S : NotWorse(x, b)
                               /\ Cost(t, b) > 0}
  IN  IF t.last_best = NULL
      THEN WorstOf(others) \cup UNION {WorstOf(others \ {b}) : b \in others}
      ELSE WorstOf(others)

Room(t) ==
  LET free == Block \ Listed(t)
  IN  IF free # {} THEN {CHOOSE b \in free : \A x \in free : b <= x}
      ELSE Worst(t)

\* neighbor_add, for an address that is not on the list: all tables it may leave.
Add(t, a, metric, etx) ==
  IF Room(t) = {} THEN {t}
  ELSE {[t EXCEPT !.entry[b] = [addr |-> a, rtmetric |-> metric % ByteMod,
                                etxs |-> [i \in Slot |-> etx], etxptr |-> 0]]
          : b \in Room(t)}

\* neighbor_remove, and periodic() for a neighbour that has been silent: the entry
\* is freed.  last_best keeps pointing at it: the test that should clear it compares
\* the address with the pointer variable.
Remove(t, b) == [t EXCEPT !.entry[b].addr = Null,
                          !.entry[b].rtmetric = RTMETRIC_MAX]

\* The lowest cost of a neighbour; RTMETRIC_MAX if all are unusable.
Lowest(t) ==
  LET costs == {Cost(t, b) : b \in Listed(t)} \cup {RTMETRIC_MAX}
  IN  CHOOSE k \in costs : \A x \in costs : k <= x

\* Fault: a neighbour once chosen is kept while it is on the list.
Best_Sticks(t) ==
  LET cheapest == {b \in Listed(t) : Cost(t, b) = Lowest(t)}
  IN  IF t.last_best \notin Listed(t) /\ cheapest # {}
      THEN {[t EXCEPT !.last_best = b] : b \in cheapest}
      ELSE {t}

\* neighbor_best returns last_best as it leaves it: the cheapest neighbour when there
\* was none before or when it is better by more than 2 (which includes none at all).
Best(t) ==
  LET k == Lowest(t)
      cheapest == IF k = RTMETRIC_MAX THEN {NULL}
                  ELSE {b \in Listed(t) : Cost(t, b) = k}
  IN  IF t.last_best = NULL \/ k + 2 < Cost(t, t.last_best)
      THEN {[t EXCEPT !.last_best = b] : b \in cheapest}
      ELSE {t}
=============================================================================
