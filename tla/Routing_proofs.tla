---------------------------- MODULE Routing_proofs ----------------------------
(***************************************************************************)
(* Theorems about Routing and their proofs.                                *)
(***************************************************************************)
EXTENDS Routing, FiniteSetTheorems, WellFoundedInduction, TLAPS

USE TableAssumption, NetworkAssumption DEF TableAssumption, NetworkAssumption

(***************************************************************************)
(* Arithmetic of the neighbour table.                                      *)
(***************************************************************************)
LEMMA Bytes == \A k \in Nat : k % ByteMod \in Byte /\ (k < ByteMod => k % ByteMod = k)
BY DEF Byte

LEMMA EtxType ==
  ASSUME NEW A, NEW e \in EntryOf(A)
  PROVE  Etx(e) \in Byte
<1> DEFINE P == UNION {{i} \X (0 .. e.etxs[i] - 1) : i \in Slot}
           Q == Slot \X (0 .. ByteMod)
<1>1. e.etxs \in [Slot -> Byte]
  BY DEF EntryOf
<1>2. P \subseteq Q
  BY <1>1 DEF Byte
<1>3. IsFiniteSet(Q)
  <2>1. IsFiniteSet(Slot) /\ IsFiniteSet(0 .. ByteMod)
    BY FS_Interval DEF Slot
  <2>2. QED
    BY <2>1, FS_Product
<1> HIDE DEF P, Q
<1>4. Cardinality(P) \in Nat
  BY <1>2, <1>3, FS_Subset, FS_CardinalityType
<1>5. Cardinality(P) \div NUM_ETXS \in Nat
  BY <1>4
<1>6. QED
  BY <1>5, Bytes DEF Etx, P

\* Samples that are all 1 have the mean 1.
LEMMA EtxOfOnes ==
  ASSUME NEW e, e.etxs = [i \in Slot |-> 1]
  PROVE  Etx(e) = 1
<1> DEFINE P == UNION {{i} \X (0 .. e.etxs[i] - 1) : i \in Slot}
<1>1. P = Slot \X {0}
  <2>1. \A i \in Slot : {i} \X (0 .. e.etxs[i] - 1) = {i} \X {0}
    OBVIOUS
  <2>2. QED
    BY <2>1
<1>2. IsFiniteSet(Slot) /\ Cardinality(Slot) = NUM_ETXS
  BY FS_Interval DEF Slot
<1>3. IsFiniteSet({0}) /\ Cardinality({0}) = 1
  BY FS_Singleton
<1> HIDE DEF P
<1>4. Cardinality(P) = NUM_ETXS
  BY <1>1, <1>2, <1>3, FS_Product
<1>5. NUM_ETXS \div NUM_ETXS = 1 /\ 1 % ByteMod = 1
  OBVIOUS
<1>6. QED
  BY <1>4, <1>5 DEF Etx, P

\* A set of bounded numbers has a least one.
LEMMA LeastExists ==
  ASSUME NEW N \in Nat, NEW S \in SUBSET (0 .. N), S # {}
  PROVE  \E k \in S : \A x \in S : k <= x
<1> DEFINE Below(k) == {i \in 0 .. N : i < k}
           T == {Below(k) : k \in S}
<1>1. IsWellFoundedOn(StrictSubsetOrdering(0 .. N), SUBSET (0 .. N))
  <2>1. IsFiniteSet(0 .. N)
    BY FS_Interval
  <2>2. FiniteSubsetsOf(0 .. N) = SUBSET (0 .. N)
    BY <2>1, FS_FiniteSubsetsOfFinite
  <2>3. IsWellFoundedOn(StrictSubsetOrdering(0 .. N), FiniteSubsetsOf(0 .. N))
    BY FS_StrictSubsetOrderingWellFounded
  <2>4. QED
    BY <2>2, <2>3
<1>2. PICK x \in T : \A y \in T : <<y, x>> \notin StrictSubsetOrdering(0 .. N)
  <2>1. T \subseteq SUBSET (0 .. N)
    OBVIOUS
  <2>2. T # {}
    <3>1. PICK k : k \in S
      OBVIOUS
    <3>2. Below(k) \in T
      BY <3>1
    <3>3. QED
      BY <3>2
  <2> HIDE DEF T
  <2>3. QED
    BY <1>1, <2>1, <2>2, WFMin
<1>3. PICK k \in S : x = Below(k)
  BY <1>2
<1>4. ASSUME NEW y \in S, y < k PROVE FALSE
  <2>1. Below(y) \in SUBSET (0 .. N) /\ Below(k) \in SUBSET (0 .. N)
    OBVIOUS
  <2>2. Below(y) \subseteq Below(k)
    BY <1>4
  <2>3. y \in Below(k) /\ y \notin Below(y)
    BY <1>4
  <2>4. Below(y) \in T
    OBVIOUS
  <2> HIDE DEF Below
  <2>5. <<Below(y), Below(k)>> \in StrictSubsetOrdering(0 .. N)
    BY <2>1, <2>2, <2>3 DEF StrictSubsetOrdering
  <2>6. QED
    BY <1>2, <1>3, <2>4, <2>5
<1>5. QED
  BY <1>4

LEMMA CostType ==
  ASSUME NEW n, NEW s \in StateOf(n), NEW b \in Block
  PROVE  /\ Cost(s, b) \in 0 .. 2 * ByteMod
         /\ Cost(s, b) = s.entry[b].rtmetric + Etx(s.entry[b])
         /\ s.entry[b].rtmetric \in Byte /\ Etx(s.entry[b]) \in Byte
<1>1. s.entry[b] \in EntryOf(Near(n))
  BY DEF StateOf
<1>2. Etx(s.entry[b]) \in Byte
  BY <1>1, EtxType
<1>3. s.entry[b].rtmetric \in Byte
  BY <1>1 DEF EntryOf
<1>4. Cost(s, b) = s.entry[b].rtmetric + Etx(s.entry[b])
  BY DEF Cost
<1> DEFINE x == s.entry[b].rtmetric
           y == Etx(s.entry[b])
<1> HIDE DEF x, y
<1>5. x \in Byte /\ y \in Byte /\ Cost(s, b) = x + y
  BY <1>2, <1>3, <1>4 DEF x, y
<1>6. x + y \in 0 .. 2 * ByteMod
  BY <1>5 DEF Byte
<1>7. QED
  BY <1>5, <1>6 DEF x, y

LEMMA LowestIs ==
  ASSUME NEW n, NEW s \in StateOf(n)
  PROVE  /\ Lowest(s) \in 0 .. RTMETRIC_MAX
         /\ \A b \in Listed(s) : Lowest(s) <= Cost(s, b)
         /\ Lowest(s) # RTMETRIC_MAX => \E b \in Listed(s) : Cost(s, b) = Lowest(s)
<1> DEFINE costs == {Cost(s, b) : b \in Listed(s)} \cup {RTMETRIC_MAX}
<1>1. costs \in SUBSET (0 .. 2 * ByteMod)
  <2>1. \A b \in Listed(s) : Cost(s, b) \in 0 .. 2 * ByteMod
    BY CostType DEF Listed
  <2>2. QED
    BY <2>1
<1>2. Lowest(s) = CHOOSE k \in costs : \A x \in costs : k <= x
  BY DEF Lowest
<1>3. RTMETRIC_MAX \in costs /\ \A b \in Listed(s) : Cost(s, b) \in costs
  OBVIOUS
<1>4. \A k \in costs : k = RTMETRIC_MAX \/ \E b \in Listed(s) : Cost(s, b) = k
  OBVIOUS
<1> HIDE DEF costs
<1>5. Lowest(s) \in costs /\ \A x \in costs : Lowest(s) <= x
  <2>1. 2 * ByteMod \in Nat /\ costs # {}
    BY <1>3
  <2>2. \E k \in costs : \A x \in costs : k <= x
    BY <1>1, <2>1, LeastExists
  <2>3. QED
    BY <1>2, <2>2
<1>6. Lowest(s) <= RTMETRIC_MAX /\ \A b \in Listed(s) : Lowest(s) <= Cost(s, b)
  BY <1>3, <1>5
<1>7. Lowest(s) # RTMETRIC_MAX => \E b \in Listed(s) : Cost(s, b) = Lowest(s)
  BY <1>4, <1>5
<1>8. Lowest(s) \in Nat
  <2>1. \A k \in costs : k \in 0 .. 2 * ByteMod
    BY <1>1
  <2>2. 2 * ByteMod \in Nat /\ \A k \in 0 .. 2 * ByteMod : k \in Nat
    OBVIOUS
  <2>3. QED
    BY <1>5, <2>1, <2>2
<1>9. QED
  BY <1>6, <1>7, <1>8

\* Cost and Lowest look at the entries only.
LEMMA EntriesDecide ==
  ASSUME NEW s, NEW u, u.entry = s.entry
  PROVE  /\ \A b : Cost(u, b) = Cost(s, b)
         /\ Listed(u) = Listed(s)
         /\ Lowest(u) = Lowest(s)
<1>1. Listed(u) = Listed(s) /\ \A b : Cost(u, b) = Cost(s, b)
  BY DEF Cost, Listed
<1>2. {Cost(u, b) : b \in Listed(u)} = {Cost(s, b) : b \in Listed(s)}
  BY <1>1
<1>3. QED
  BY <1>1, <1>2, Zenon DEF Lowest

-----------------------------------------------------------------------------
(***************************************************************************)
(* What the handlers call.                                                 *)
(***************************************************************************)
\* The hysteresis is respected.
Settled(s) == s.last_best # NULL => Cost(s, s.last_best) <= Lowest(s) + 2

\* A packet has just been handed to relunicast for a good neighbour.
Handed(s) ==
  /\ s.last_best # NULL
  /\ s.dest = s.entry[s.last_best].addr
  /\ Cost(s, s.last_best) <= Lowest(s) + 2

Distinct(s) ==
  \A b, x \in Listed(s) : s.entry[b].addr = s.entry[x].addr => b = x

LEMMA HandedIsBusy ==
  ASSUME NEW n, NEW s \in StateOf(n), Handed(s)
  PROVE  s.dest # Idle
<1>1. s.last_best \in Block /\ s.entry[s.last_best] \in EntryOf(Near(n))
  BY DEF Handed, StateOf
<1>2. s.entry[s.last_best].addr \in Near(n) \cup {Null}
  BY <1>1 DEF EntryOf
<1>3. QED
  BY <1>2 DEF Handed, Near

LEMMA LastBestType ==
  ASSUME NEW n, NEW s \in StateOf(n), NEW b \in Block \cup {NULL}
  PROVE  LET u == [s EXCEPT !.last_best = b]
         IN  /\ u \in StateOf(n) /\ u.last_best = b
             /\ u.entry = s.entry /\ u.rtmetric = s.rtmetric /\ u.dest = s.dest
BY DEF StateOf

LEMMA BestIs ==
  ASSUME NEW n, NEW s \in StateOf(n), NEW u \in Best(s)
  PROVE  /\ u \in StateOf(n)
         /\ u.entry = s.entry /\ u.rtmetric = s.rtmetric /\ u.dest = s.dest
         /\ Settled(u)
         /\ \/ u.last_best = s.last_best /\ s.last_best # NULL
            \/ /\ u.last_best = NULL /\ Lowest(s) = RTMETRIC_MAX
               /\ s.last_best # NULL => Lowest(s) + 2 < Cost(s, s.last_best)
            \/ /\ u.last_best \in Listed(s) /\ Lowest(s) < RTMETRIC_MAX
               /\ Cost(s, u.last_best) = Lowest(s)
<1> DEFINE k == Lowest(s)
           cheapest == IF k = RTMETRIC_MAX THEN {NULL}
                       ELSE {b \in Listed(s) : Cost(s, b) = k}
<1>1. k \in 0 .. RTMETRIC_MAX /\ s.last_best \in Block \cup {NULL}
  BY LowestIs DEF StateOf
<1>2. s.last_best # NULL => Cost(s, s.last_best) \in Nat
  BY <1>1, CostType
<1>3. CASE s.last_best = NULL \/ k + 2 < Cost(s, s.last_best)
  <2>1. PICK b \in cheapest : u = [s EXCEPT !.last_best = b]
    BY <1>3 DEF Best
  <2>2. b \in Block \cup {NULL}
    BY DEF Listed
  <2>3. /\ u \in StateOf(n) /\ u.last_best = b
        /\ u.entry = s.entry /\ u.rtmetric = s.rtmetric /\ u.dest = s.dest
    BY <2>1, <2>2, LastBestType
  <2>4. Settled(u)
    <3>1. Lowest(u) = k /\ Cost(u, b) = Cost(s, b)
      BY <2>3, EntriesDecide
    <3>2. CASE b = NULL
      BY <2>3, <3>2 DEF Settled
    <3>3. CASE b \in Listed(s) /\ Cost(s, b) = k
      BY <1>1, <2>3, <3>1, <3>3 DEF Settled
    <3>4. QED
      BY <3>2, <3>3
  <2>5. QED
    BY <1>1, <1>3, <2>3, <2>4
<1>4. CASE s.last_best # NULL /\ ~ (k + 2 < Cost(s, s.last_best))
  <2>1. u = s
    BY <1>4 DEF Best
  <2>2. QED
    BY <1>1, <1>2, <1>4, <2>1 DEF Settled
<1>5. QED
  BY <1>3, <1>4

\* A removed entry.
LEMMA RemoveIs ==
  ASSUME NEW n, NEW s \in StateOf(n), NEW b \in Block
  PROVE  LET u == Remove(s, b)
         IN  /\ u \in StateOf(n)
             /\ u.last_best = s.last_best /\ u.rtmetric = s.rtmetric /\ u.dest = s.dest
             /\ Listed(u) = Listed(s) \ {b}
             /\ \A x \in Block \ {b} : u.entry[x] = s.entry[x]
             /\ Distinct(s) => Distinct(u)
             /\ Lowest(s) <= Lowest(u)
<1> DEFINE e == [s.entry[b] EXCEPT !.addr = Null, !.rtmetric = RTMETRIC_MAX]
           f == [s.entry EXCEPT ![b] = e]
           u == Remove(s, b)
<1>1. s.entry \in [Block -> EntryOf(Near(n))]
  BY DEF StateOf
<1>2. e \in EntryOf(Near(n)) /\ e.addr = Null
  <2>1. s.entry[b] \in EntryOf(Near(n)) /\ RTMETRIC_MAX \in Byte
    BY <1>1 DEF Byte
  <2>2. QED
    BY <2>1 DEF EntryOf
<1>3. u = [s EXCEPT !.entry = f]
  BY <1>1 DEF Remove, StateOf, EntryOf
<1> HIDE DEF e
<1>4. f \in [Block -> EntryOf(Near(n))] /\ f[b] = e /\ \A x \in Block \ {b} : f[x] = s.entry[x]
  BY <1>1, <1>2
<1> HIDE DEF f
<1>5. /\ u \in StateOf(n) /\ u.entry = f
      /\ u.last_best = s.last_best /\ u.rtmetric = s.rtmetric /\ u.dest = s.dest
  BY <1>3, <1>4 DEF StateOf
<1> HIDE DEF u
<1>6. Listed(u) = Listed(s) \ {b}
  BY <1>2, <1>4, <1>5 DEF Listed
<1>7. Distinct(s) => Distinct(u)
  BY <1>4, <1>5, <1>6 DEF Distinct, Listed
<1>8. Lowest(s) <= Lowest(u)
  <2>1. CASE Lowest(u) = RTMETRIC_MAX
    BY <2>1, LowestIs
  <2>2. CASE Lowest(u) # RTMETRIC_MAX
    <3>1. PICK x \in Listed(u) : Cost(u, x) = Lowest(u)
      BY <1>5, <2>2, LowestIs
    <3>2. x \in Listed(s) /\ Cost(s, x) = Cost(u, x)
      BY <1>4, <1>5, <1>6 DEF Cost, Listed
    <3>3. QED
      BY <3>1, <3>2, LowestIs
  <2>3. QED
    BY <2>1, <2>2
<1>9. QED
  BY <1>4, <1>5, <1>6, <1>7, <1>8 DEF u

LEMMA DestType ==
  ASSUME NEW n, NEW s \in StateOf(n), NEW d \in Near(n) \cup {Null, Idle}
  PROVE  LET u == [s EXCEPT !.dest = d]
         IN  /\ u \in StateOf(n) /\ u.dest = d
             /\ u.entry = s.entry /\ u.rtmetric = s.rtmetric /\ u.last_best = s.last_best
BY DEF StateOf

LEMMA MetricType ==
  ASSUME NEW n, NEW s \in StateOf(n), NEW k \in Nat
  PROVE  LET u == [s EXCEPT !.rtmetric = k]
         IN  /\ u \in StateOf(n) /\ u.rtmetric = k
             /\ u.entry = s.entry /\ u.dest = s.dest /\ u.last_best = s.last_best
BY DEF StateOf

LEMMA SameEntries ==
  ASSUME NEW s, NEW u, u.entry = s.entry
  PROVE  /\ Distinct(s) <=> Distinct(u)
         /\ u.last_best = s.last_best => (Settled(s) <=> Settled(u))
<1>1. Listed(u) = Listed(s) /\ Lowest(u) = Lowest(s) /\ \A b : Cost(u, b) = Cost(s, b)
  BY EntriesDecide
<1>2. QED
  BY <1>1 DEF Distinct, Settled

LEMMA TransmitIs ==
  ASSUME NEW n, NEW s \in StateOf(n)
  PROVE  LET u == Transmit(s)
         IN  /\ u \in StateOf(n)
             /\ u.entry = s.entry /\ u.rtmetric = s.rtmetric /\ u.last_best = s.last_best
             /\ u.dest = IF s.last_best = NULL THEN s.dest
                         ELSE s.entry[s.last_best].addr
<1>1. CASE s.last_best = NULL
  BY <1>1 DEF Transmit
<1>2. CASE s.last_best # NULL
  <2>1. s.last_best \in Block /\ s.entry[s.last_best] \in EntryOf(Near(n))
    BY <1>2 DEF StateOf
  <2>2. s.entry[s.last_best].addr \in Near(n) \cup {Null}
    BY <2>1 DEF EntryOf
  <2>3. Transmit(s) = [s EXCEPT !.dest = s.entry[s.last_best].addr]
    BY <1>2 DEF Transmit
  <2>4. QED
    BY <1>2, <2>2, <2>3, DestType
<1>3. QED
  BY <1>1, <1>2

LEMMA AvoidCycleIs ==
  ASSUME NEW n, NEW s \in StateOf(n), Settled(s), NEW u \in AvoidCycle(s)
  PROVE  /\ u \in StateOf(n) /\ Settled(u)
         /\ u.rtmetric = s.rtmetric /\ u.dest = s.dest
         /\ Distinct(s) => Distinct(u)
<1>1. CASE BestRouter(s)
  <2> DEFINE r == Remove(s, s.last_best)
  <2>1. s.last_best \in Block
    BY <1>1 DEF BestRouter, Listed
  <2>2. /\ r \in StateOf(n) /\ r.rtmetric = s.rtmetric /\ r.dest = s.dest
        /\ Distinct(s) => Distinct(r)
    BY <2>1, RemoveIs
  <2>3. u \in Best(r)
    BY <1>1 DEF AvoidCycle
  <2> HIDE DEF r
  <2>4. /\ u \in StateOf(n) /\ u.entry = r.entry /\ Settled(u)
        /\ u.rtmetric = r.rtmetric /\ u.dest = r.dest
    BY <2>2, <2>3, BestIs
  <2>5. Distinct(r) <=> Distinct(u)
    BY <2>4, SameEntries
  <2>6. QED
    BY <2>2, <2>4, <2>5
<1>2. CASE ~ BestRouter(s)
  BY <1>2 DEF AvoidCycle
<1>3. QED
  BY <1>1, <1>2

Heads == {"empty", "best", "other"}

\* What one call leaves of a state s, whatever it does.
Leaves(n, s, u) ==
  /\ u \in StateOf(n)
  /\ Distinct(s) => Distinct(u)
  /\ u.dest = s.dest \/ (s.dest = Idle /\ Handed(u))

LEMMA SendQueuedIs ==
  ASSUME NEW n, NEW s \in StateOf(n), NEW head \in Heads, NEW u \in SendQueued(s, head)
  PROVE  /\ Leaves(n, s, u)
         /\ u.rtmetric = s.rtmetric
         /\ u = s \/ Settled(u)
<1>1. CASE head = "empty" \/ s.dest # Idle
  BY <1>1 DEF SendQueued, Leaves
<1>2. CASE head # "empty" /\ s.dest = Idle
  <2>1. PICK b \in Best(s) : u \in IF head = "best" THEN {Transmit(v) : v \in AvoidCycle(b)}
                                   ELSE {Transmit(b)}
    BY <1>2 DEF SendQueued
  <2>2. /\ b \in StateOf(n) /\ b.entry = s.entry /\ Settled(b)
        /\ b.rtmetric = s.rtmetric /\ b.dest = s.dest
    BY BestIs
  <2>3. Distinct(s) => Distinct(b)
    BY <2>2, SameEntries
  <2>4. PICK v : /\ v \in StateOf(n) /\ Settled(v)
                 /\ v.rtmetric = s.rtmetric /\ v.dest = s.dest
                 /\ Distinct(s) => Distinct(v)
                 /\ u = Transmit(v)
    <3>1. CASE head = "best"
      <4>1. PICK v \in AvoidCycle(b) : u = Transmit(v)
        BY <2>1, <3>1
      <4>2. /\ v \in StateOf(n) /\ Settled(v)
            /\ v.rtmetric = b.rtmetric /\ v.dest = b.dest
            /\ Distinct(b) => Distinct(v)
        BY <2>2, AvoidCycleIs
      <4>3. QED
        BY <2>2, <2>3, <4>1, <4>2
    <3>2. CASE head # "best"
      BY <2>1, <2>2, <2>3, <3>2
    <3>3. QED
      BY <3>1, <3>2
  <2>5. /\ u \in StateOf(n)
        /\ u.entry = v.entry /\ u.rtmetric = v.rtmetric /\ u.last_best = v.last_best
        /\ u.dest = IF v.last_best = NULL THEN v.dest ELSE v.entry[v.last_best].addr
    BY <2>4, TransmitIs
  <2>6. Settled(u) /\ (Distinct(s) => Distinct(u))
    BY <2>4, <2>5, SameEntries
  <2>7. u.dest = s.dest \/ Handed(u)
    BY <2>4, <2>5, <2>6 DEF Settled, Handed
  <2>8. QED
    BY <1>2, <2>4, <2>5, <2>6, <2>7 DEF Leaves
<1>3. QED
  BY <1>1, <1>2

LEMMA UpdateMetricIs ==
  ASSUME NEW n, NEW s \in StateOf(n), NEW head \in Heads, NEW u \in UpdateMetric(s, head)
  PROVE  Leaves(n, s, u) /\ (u.rtmetric = SINK_METRIC \/ Settled(u))
<1>1. CASE s.rtmetric = SINK_METRIC
  BY <1>1 DEF UpdateMetric, Leaves
<1>2. CASE s.rtmetric # SINK_METRIC
  <2> DEFINE w(b) == [b EXCEPT !.rtmetric = Cost(b, b.last_best)]
  <2>1. PICK b \in Best(s) :
          u \in IF b.last_best = NULL THEN {[b EXCEPT !.rtmetric = RTMETRIC_MAX]}
                ELSE IF s.rtmetric = RTMETRIC_MAX /\ w(b).rtmetric # s.rtmetric
                     THEN SendQueued(w(b), head) ELSE {w(b)}
    BY <1>2 DEF UpdateMetric
  <2>2. /\ b \in StateOf(n) /\ b.entry = s.entry /\ Settled(b) /\ b.dest = s.dest
    BY BestIs
  <2>3. Distinct(s) => Distinct(b)
    BY <2>2, SameEntries
  <2>4. CASE b.last_best = NULL
    <3>1. u = [b EXCEPT !.rtmetric = RTMETRIC_MAX]
      BY <2>1, <2>4
    <3>2. /\ u \in StateOf(n) /\ u.entry = b.entry
          /\ u.dest = b.dest /\ u.last_best = b.last_best
      BY <2>2, <3>1, MetricType
    <3>3. Distinct(b) => Distinct(u)
      BY <3>2, SameEntries
    <3>4. QED
      BY <2>2, <2>3, <2>4, <3>2, <3>3 DEF Leaves, Settled
  <2>5. CASE b.last_best # NULL
    <3>1. Cost(b, b.last_best) \in Nat
      <4>1. b.last_best \in Block
        BY <2>2, <2>5 DEF StateOf
      <4>2. Cost(b, b.last_best) \in 0 .. 2 * ByteMod
        BY <2>2, <4>1, CostType
      <4>3. QED
        BY <4>2
    <3>2. /\ w(b) \in StateOf(n) /\ w(b).entry = b.entry
          /\ w(b).dest = b.dest /\ w(b).last_best = b.last_best
      BY <2>2, <3>1, MetricType
    <3>3. Settled(w(b)) /\ (Distinct(s) => Distinct(w(b)))
      BY <2>2, <2>3, <3>2, SameEntries
    <3>4. u \in SendQueued(w(b), head) \/ u = w(b)
      BY <2>1, <2>5
    <3> DEFINE v == w(b)
    <3>5. /\ v \in StateOf(n) /\ v.dest = s.dest /\ Settled(v) /\ (Distinct(s) => Distinct(v))
          /\ u \in SendQueued(v, head) \/ u = v
      BY <2>2, <3>2, <3>3, <3>4
    <3> HIDE DEF v
    <3>6. u \in SendQueued(v, head) => Leaves(n, v, u) /\ Settled(u)
      BY <3>5, SendQueuedIs
    <3>7. QED
      BY <3>5, <3>6 DEF Leaves
  <2>6. QED
    BY <2>4, <2>5
<1>3. QED
  BY <1>1, <1>2

\* Two calls, one after the other.
LEMMA LeavesTwice ==
  ASSUME NEW n, NEW s \in StateOf(n), NEW u, NEW head \in Heads,
         Leaves(n, s, u), u.rtmetric = SINK_METRIC \/ Settled(u),
         NEW v \in SendQueued(u, head)
  PROVE  Leaves(n, s, v) /\ (v.rtmetric = SINK_METRIC \/ Settled(v))
<1>1. u \in StateOf(n)
  BY DEF Leaves
<1>2. Leaves(n, u, v) /\ v.rtmetric = u.rtmetric /\ (Settled(u) => Settled(v))
  BY <1>1, SendQueuedIs
<1>3. CASE u.dest = Idle
  <2>1. ~ Handed(u)
    BY <1>1, <1>3, HandedIsBusy
  <2>2. QED
    BY <1>2, <2>1 DEF Leaves
<1>4. CASE u.dest # Idle
  BY <1>4 DEF SendQueued
<1>5. QED
  BY <1>3, <1>4

LEMMA FinishIs ==
  ASSUME NEW n, NEW s \in StateOf(n), NEW head \in Heads, NEW u \in Finish(s, head)
  PROVE  /\ u \in StateOf(n)
         /\ Distinct(s) => Distinct(u)
         /\ u.dest = Idle \/ Handed(u)
         /\ u.rtmetric = SINK_METRIC \/ Settled(u)
<1> DEFINE i == [s EXCEPT !.dest = Idle]
<1>1. i \in StateOf(n) /\ i.dest = Idle /\ i.entry = s.entry
  BY DestType
<1>2. PICK v \in UpdateMetric(i, head) : u \in SendQueued(v, head)
  BY DEF Finish
<1> HIDE DEF i
<1>3. Leaves(n, i, v) /\ (v.rtmetric = SINK_METRIC \/ Settled(v))
  BY <1>1, UpdateMetricIs
<1>4. Leaves(n, i, u) /\ (u.rtmetric = SINK_METRIC \/ Settled(u))
  BY <1>1, <1>2, <1>3, LeavesTwice
<1>5. Distinct(s) => Distinct(i)
  BY <1>1, SameEntries
<1>6. QED
  BY <1>1, <1>4, <1>5 DEF Leaves

-----------------------------------------------------------------------------
(***************************************************************************)
(* What the handlers do to the table.                                      *)
(***************************************************************************)
\* u is s with another entry e in block b.
Replaced(s, b, e) == [s EXCEPT !.entry = [s.entry EXCEPT ![b] = e]]

LEMMA ReplacedIs ==
  ASSUME NEW n, NEW s \in StateOf(n), NEW b \in Block, NEW e \in EntryOf(Near(n))
  PROVE  LET u == Replaced(s, b, e)
         IN  /\ u \in StateOf(n)
             /\ u.last_best = s.last_best /\ u.rtmetric = s.rtmetric /\ u.dest = s.dest
             /\ u.entry[b] = e
             /\ \A x \in Block \ {b} : u.entry[x] = s.entry[x]
             /\ Distinct(s) /\ (\A x \in Block \ {b} : s.entry[x].addr # e.addr) => Distinct(u)
             /\ Distinct(s) /\ s.entry[b].addr = e.addr => Distinct(u)
<1> DEFINE f == [s.entry EXCEPT ![b] = e]
           u == [s EXCEPT !.entry = f]
<1>1. /\ f \in [Block -> EntryOf(Near(n))] /\ f[b] = e
      /\ \A x \in Block \ {b} : f[x] = s.entry[x]
  BY DEF StateOf
<1> HIDE DEF f
<1>2. /\ u \in StateOf(n) /\ u.entry = f
      /\ u.last_best = s.last_best /\ u.rtmetric = s.rtmetric /\ u.dest = s.dest
  BY <1>1 DEF StateOf
<1> HIDE DEF u
<1>3. Distinct(s) /\ (\A x \in Block \ {b} : s.entry[x].addr # e.addr) => Distinct(u)
  BY <1>1, <1>2 DEF Distinct, Listed
<1>4. Distinct(s) /\ s.entry[b].addr = e.addr => Distinct(u)
  BY <1>1, <1>2 DEF Distinct, Listed
<1>5. Replaced(s, b, e) = u
  BY DEF Replaced, u, f
<1>6. QED
  BY <1>1, <1>2, <1>3, <1>4, <1>5

LEMMA FindIs ==
  ASSUME NEW n, NEW s \in StateOf(n), NEW a \in Near(n)
  PROVE  \/ Find(s, a) = NULL /\ \A b \in Block : s.entry[b].addr # a
         \/ Find(s, a) # NULL /\ Find(s, a) \in Block /\ s.entry[Find(s, a)].addr = a
<1>1. a # Null
  BY DEF Near
<1>2. CASE \E b \in Block : s.entry[b].addr = a
  <2>1. Find(s, a) = CHOOSE b \in Block : s.entry[b].addr = a
    BY <1>1, <1>2 DEF Find
  <2>2. QED
    BY <1>2, <2>1 DEF NULL, Block
<1>3. CASE ~ \E b \in Block : s.entry[b].addr = a
  BY <1>3 DEF Find
<1>4. QED
  BY <1>2, <1>3

LEMMA UpdateIs ==
  ASSUME NEW n, NEW s \in StateOf(n), NEW b \in Block, NEW k \in Nat
  PROVE  /\ [s.entry[b] EXCEPT !.rtmetric = k % ByteMod] \in EntryOf(Near(n))
         /\ Update(s, b, k) = Replaced(s, b, [s.entry[b] EXCEPT !.rtmetric = k % ByteMod])
<1>1. s.entry[b] \in EntryOf(Near(n)) /\ k % ByteMod \in Byte
  BY Bytes DEF StateOf
<1>2. [s.entry[b] EXCEPT !.rtmetric = k % ByteMod] \in EntryOf(Near(n))
  BY <1>1 DEF EntryOf
<1>3. QED
  BY <1>2 DEF Update, Replaced, StateOf

LEMMA SampleIs ==
  ASSUME NEW n, NEW s \in StateOf(n), NEW b \in Block, NEW k \in Byte
  PROVE  \E e \in EntryOf(Near(n)) : /\ Sample(s, b, k) = Replaced(s, b, e)
                                     /\ e.addr = s.entry[b].addr
<1> DEFINE o == s.entry[b]
           e == [o EXCEPT !.etxs = [o.etxs EXCEPT ![o.etxptr] = k],
                          !.etxptr = (o.etxptr + 1) % NUM_ETXS]
<1>1. o \in EntryOf(Near(n))
  BY DEF StateOf
<1>2. (o.etxptr + 1) % NUM_ETXS \in Slot /\ [o.etxs EXCEPT ![o.etxptr] = k] \in [Slot -> Byte]
  BY <1>1 DEF EntryOf, Slot
<1>3. e \in EntryOf(Near(n)) /\ e.addr = o.addr
  BY <1>1, <1>2 DEF EntryOf
<1>4. Sample(s, b, k) = Replaced(s, b, e)
  BY <1>1 DEF Sample, Replaced, StateOf, EntryOf
<1>5. QED
  BY <1>3, <1>4

\* A change of the etx of some neighbour, or none.
LEMMA EtxUpdated ==
  ASSUME NEW n, NEW s \in StateOf(n), NEW a \in Near(n) \cup {Null}, NEW k \in Nat,
         NEW u, u = UpdateEtx(s, a, k) \/ u = TimedOutEtx(s, a, k)
  PROVE  u \in StateOf(n) /\ u.dest = s.dest /\ (Distinct(s) => Distinct(u))
<1>1. CASE u = s
  BY <1>1
<1>2. CASE Find(s, a) # NULL
  <2>1. a \in Near(n)
    BY <1>2 DEF Find
  <2>2. Find(s, a) \in Block
    BY <1>2, <2>1, FindIs
  <2> DEFINE b == Find(s, a)
             o == s.entry[b]
  <2>3. o.etxs[o.etxptr] \in Nat
    <3>1. o \in EntryOf(Near(n))
      BY <2>2 DEF StateOf
    <3>2. QED
      BY <3>1 DEF EntryOf, Byte
  <2>4. PICK x \in Byte : u = Sample(s, b, x)
    <3>1. k % ByteMod \in Byte /\ (o.etxs[o.etxptr] + k) % ByteMod \in Byte
      BY <2>3, Bytes
    <3>2. u = Sample(s, b, k % ByteMod) \/ u = Sample(s, b, (o.etxs[o.etxptr] + k) % ByteMod)
      BY <1>2 DEF UpdateEtx, TimedOutEtx
    <3>3. QED
      BY <3>1, <3>2
  <2>5. PICK e \in EntryOf(Near(n)) : u = Replaced(s, b, e) /\ e.addr = s.entry[b].addr
    BY <2>2, <2>4, SampleIs
  <2>6. QED
    BY <2>2, <2>5, ReplacedIs
<1>3. QED
  BY <1>1, <1>2 DEF UpdateEtx, TimedOutEtx

LEMMA EtxKeeps ==
  ASSUME NEW n, NEW s \in StateOf(n), NEW a, NEW k,
         NEW u, u = UpdateEtx(s, a, k) \/ u = TimedOutEtx(s, a, k)
  PROVE  u.rtmetric = s.rtmetric /\ u.last_best = s.last_best
BY DEF UpdateEtx, TimedOutEtx, Sample, StateOf

LEMMA AddIs ==
  ASSUME NEW n, NEW s \in StateOf(n), NEW a \in Near(n), NEW k \in Nat,
         NEW u \in Add(s, a, k, 1)
  PROVE  \/ u = s
         \/ \E b \in Room(s), e \in EntryOf(Near(n)) :
              /\ u = Replaced(s, b, e) /\ b \in Block
              /\ e = [addr |-> a, rtmetric |-> k % ByteMod,
                      etxs |-> [i \in Slot |-> 1], etxptr |-> 0]
<1> DEFINE e == [addr |-> a, rtmetric |-> k % ByteMod,
                 etxs |-> [i \in Slot |-> 1], etxptr |-> 0]
<1>1. e \in EntryOf(Near(n))
  <2>1. k % ByteMod \in Byte /\ 1 \in Byte /\ 0 \in Slot
    BY Bytes DEF Byte, Slot
  <2>2. [i \in Slot |-> 1] \in [Slot -> Byte]
    BY <2>1
  <2>3. QED
    BY <2>1, <2>2 DEF EntryOf
<1>2. Room(s) \subseteq Block
  <2>1. Worst(s) \subseteq Block
    BY DEF Worst
  <2>2. CASE Block \ Listed(s) # {}
    <3>1. Room(s) = {CHOOSE b \in Block \ Listed(s) : \A x \in Block \ Listed(s) : b <= x}
      BY <2>2 DEF Room
    <3>2. \E b \in Block \ Listed(s) : \A x \in Block \ Listed(s) : b <= x
      <4>1. Block \ Listed(s) \in SUBSET (0 .. MAX_NEIGHBORS)
        BY DEF Block
      <4>2. QED
        BY <2>2, <4>1, LeastExists
    <3>3. QED
      BY <3>1, <3>2
  <2>3. CASE Block \ Listed(s) = {}
    BY <2>1, <2>3 DEF Room
  <2>4. QED
    BY <2>2, <2>3
<1>3. u = s \/ \E b \in Room(s) : u = [s EXCEPT !.entry[b] = e]
  BY DEF Add
<1> HIDE DEF e
<1>4. \A b : [s EXCEPT !.entry[b] = e] = Replaced(s, b, e)
  BY DEF Replaced, StateOf
<1>5. QED
  BY <1>1, <1>2, <1>3, <1>4 DEF e

-----------------------------------------------------------------------------
(***************************************************************************)
(* The handlers.                                                           *)
(***************************************************************************)
Cheap(s) ==
  s.last_best \in Listed(s) /\ s.rtmetric # SINK_METRIC =>
    Cost(s, s.last_best) <= Lowest(s) + 2

\* What a handler makes of the state s of a node.
Good(n, s, u) ==
  /\ u \in StateOf(n)
  /\ Distinct(s) => Distinct(u)
  /\ Cheap(s) => Cheap(u)
  /\ u.dest \in {Idle, s.dest} \/ Handed(u)

GoodStep(n) ==
  /\ \E u : node' = [node EXCEPT ![n] = u] /\ Good(n, node[n], u)
  /\ changes' \in 0 .. MaxChanges

LEMMA CheapIfSettled ==
  ASSUME NEW s, s.rtmetric = SINK_METRIC \/ Settled(s)
  PROVE  Cheap(s)
BY DEF Cheap, Settled, Listed, Block, NULL

LEMMA LeavesIsGood ==
  ASSUME NEW n, NEW s, NEW t, NEW u,
         Distinct(s) => Distinct(t), t.dest = s.dest,
         Leaves(n, t, u), u.rtmetric = SINK_METRIC \/ Settled(u)
  PROVE  Good(n, s, u)
BY CheapIfSettled DEF Good, Leaves

LEMMA CountType ==
  ASSUME TypeOK, NEW isChange \in BOOLEAN, Count(isChange)
  PROVE  changes' \in 0 .. MaxChanges
BY DEF TypeOK, Count

LEMMA HeadIs == \A s : Head(s) \subseteq Heads
BY DEF Head, Heads

LEMMA NearIs ==
  ASSUME NEW n \in Router, NEW m \in Near(n)
  PROVE  m \in Node /\ m # n /\ m # Null /\ (m = Sink \/ m \in Router)
BY DEF Near, Router

LEMMA MetricIs ==
  ASSUME TypeOK, NEW n \in Router, NEW m \in Near(n)
  PROVE  Metric(m) \in Nat
BY NearIs DEF TypeOK, Metric, StateOf, SINK_METRIC

LEMMA HearIsGood ==
  ASSUME TypeOK, NEW n \in Router, NEW m \in Near(n), Hear(n, m)
  PROVE  GoodStep(n)
<1> DEFINE s == node[n]
           heard == IF Find(s, m) = NULL THEN Add(s, m, Metric(m), 1)
                    ELSE {Update(s, Find(s, m), Metric(m))}
<1>1. s \in StateOf(n) /\ Metric(m) \in Nat
  BY MetricIs DEF TypeOK
<1>2. PICK head \in Head(s) :
        /\ Becomes(n, UNION {UpdateMetric(t, head) : t \in heard})
        /\ Count(head = "best")
  BY DEF Hear
<1>3. PICK t, u : t \in heard /\ u \in UpdateMetric(t, head) /\ node' = [node EXCEPT ![n] = u]
  <2> HIDE DEF heard
  <2>1. PICK u \in UNION {UpdateMetric(t, head) : t \in heard} : node' = [node EXCEPT ![n] = u]
    BY <1>2 DEF Becomes
  <2>2. QED
    BY <2>1
<1>4. t \in StateOf(n) /\ t.dest = s.dest /\ (Distinct(s) => Distinct(t))
  <2>1. CASE Find(s, m) = NULL
    <3>1. \A b \in Block : s.entry[b].addr # m
      BY <1>1, <2>1, FindIs
    <3>2. t \in Add(s, m, Metric(m), 1)
      BY <1>3, <2>1
    <3>3. CASE t = s
      BY <1>1, <3>3
    <3>4. CASE t # s
      <4>1. PICK b \in Block, e \in EntryOf(Near(n)) : t = Replaced(s, b, e) /\ e.addr = m
        BY <1>1, <3>2, <3>4, AddIs
      <4>2. QED
        BY <1>1, <3>1, <4>1, ReplacedIs
    <3>5. QED
      BY <3>3, <3>4
  <2>2. CASE Find(s, m) # NULL
    <3> DEFINE b == Find(s, m)
               e == [s.entry[b] EXCEPT !.rtmetric = Metric(m) % ByteMod]
    <3>1. b \in Block /\ t = Update(s, b, Metric(m))
      BY <1>1, <1>3, <2>2, FindIs
    <3>2. e \in EntryOf(Near(n)) /\ t = Replaced(s, b, e)
      BY <1>1, <3>1, UpdateIs
    <3>3. e.addr = s.entry[b].addr
      <4>1. s.entry[b] \in EntryOf(Near(n))
        BY <1>1, <3>1 DEF StateOf
      <4>2. QED
        BY <4>1 DEF EntryOf
    <3> HIDE DEF b, e
    <3>4. QED
      BY <1>1, <3>1, <3>2, <3>3, ReplacedIs
  <2>3. QED
    BY <2>1, <2>2
<1>5. Leaves(n, t, u) /\ (u.rtmetric = SINK_METRIC \/ Settled(u))
  BY <1>3, <1>4, HeadIs, UpdateMetricIs
<1>6. Good(n, s, u)
  BY <1>4, <1>5, LeavesIsGood
<1>7. QED
  BY <1>2, <1>3, <1>6, CountType DEF GoodStep

LEMMA SendIsGood ==
  ASSUME TypeOK, NEW n \in Router, Send(n)
  PROVE  GoodStep(n)
<1> DEFINE s == node[n]
<1>1. s \in StateOf(n)
  BY DEF TypeOK
<1>2. PICK head \in Head(s) :
        /\ Becomes(n, UNION {IF b.last_best = NULL THEN {b} ELSE SendQueued(b, head)
                               : b \in Best(s)})
        /\ Count(head = "best")
  BY DEF Send
<1>3. PICK b, u : /\ b \in Best(s)
                  /\ u \in IF b.last_best = NULL THEN {b} ELSE SendQueued(b, head)
                  /\ node' = [node EXCEPT ![n] = u]
  BY <1>2 DEF Becomes
<1>4. b \in StateOf(n) /\ b.entry = s.entry /\ b.dest = s.dest /\ Settled(b)
  BY <1>1, <1>3, BestIs
<1>5. Distinct(s) => Distinct(b)
  BY <1>4, SameEntries
<1>6. Leaves(n, b, u) /\ Settled(u)
  <2>1. CASE b.last_best = NULL
    BY <1>3, <1>4, <2>1 DEF Leaves
  <2>2. CASE b.last_best # NULL
    BY <1>3, <1>4, <2>2, HeadIs, SendQueuedIs
  <2>3. QED
    BY <2>1, <2>2
<1>7. Good(n, s, u)
  BY <1>4, <1>5, <1>6, LeavesIsGood
<1>8. QED
  BY <1>2, <1>3, <1>7, CountType DEF GoodStep

LEMMA ReceiveIsGood ==
  ASSUME TypeOK, NEW n \in Router, NEW m, Receive(n, m)
  PROVE  GoodStep(n)
<1> DEFINE s == node[n]
<1>1. s \in StateOf(n)
  BY DEF TypeOK
<1>2. PICK higher \in BOOLEAN, head \in Head(s) :
        /\ Becomes(n, UNION {IF t.rtmetric \in {SINK_METRIC, RTMETRIC_MAX} THEN {t}
                             ELSE SendQueued(t, head) :
                               t \in IF higher THEN {s} ELSE UpdateMetric(s, head)})
        /\ Count(head = "best")
  BY DEF Receive
<1>3. PICK t, u : /\ t \in IF higher THEN {s} ELSE UpdateMetric(s, head)
                  /\ u \in IF t.rtmetric \in {SINK_METRIC, RTMETRIC_MAX} THEN {t}
                           ELSE SendQueued(t, head)
                  /\ node' = [node EXCEPT ![n] = u]
  BY <1>2 DEF Becomes
<1>4. head \in Heads
  BY HeadIs
<1>5. Good(n, s, u)
  <2>1. CASE higher /\ u = t
    BY <1>1, <1>3, <2>1 DEF Good
  <2>2. CASE higher /\ u \in SendQueued(t, head)
    <3>1. u \in SendQueued(s, head)
      BY <1>3, <2>2
    <3>2. Leaves(n, s, u) /\ u.rtmetric = s.rtmetric
      BY <1>1, <1>4, <3>1, SendQueuedIs
    <3>3. CASE u = s
      BY <1>1, <3>3 DEF Good
    <3>4. CASE u # s
      <4>1. Settled(u)
        BY <1>1, <1>4, <3>1, <3>4, SendQueuedIs
      <4>2. QED
        BY <3>2, <4>1, LeavesIsGood
    <3>5. QED
      BY <3>3, <3>4
  <2>3. CASE ~ higher
    <3>1. Leaves(n, s, t) /\ (t.rtmetric = SINK_METRIC \/ Settled(t))
      BY <1>1, <1>3, <1>4, <2>3, UpdateMetricIs
    <3>2. Leaves(n, s, u) /\ (u.rtmetric = SINK_METRIC \/ Settled(u))
      BY <1>1, <1>3, <1>4, <3>1, LeavesTwice
    <3>3. QED
      BY <3>2, LeavesIsGood
  <2>4. QED
    BY <1>3, <2>1, <2>2, <2>3
<1>6. QED
  BY <1>2, <1>3, <1>5, CountType DEF GoodStep

LEMMA AcknowledgedIsGood ==
  ASSUME TypeOK, NEW n \in Router, (\E k \in 1 .. MaxRexmit + 1 : Sent(n, k)) \/ TimedOut(n)
  PROVE  GoodStep(n)
<1> DEFINE s == node[n]
<1>1. s \in StateOf(n)
  BY DEF TypeOK
<1> DEFINE Done(t, head) == Becomes(n, Finish(t, head)) /\ Count(t.entry # s.entry \/ head = "best")
<1>2. PICK k, t, head :
        /\ k \in Nat /\ head \in Heads /\ s.dest \in Near(n) \cup {Null}
        /\ t = UpdateEtx(s, s.dest, k) \/ t = TimedOutEtx(s, s.dest, k)
        /\ Done(t, head)
  <2>1. CASE \E k \in 1 .. MaxRexmit + 1 : Sent(n, k)
    <3>1. PICK k \in 1 .. MaxRexmit + 1 : Sent(n, k)
      BY <2>1
    <3>2. PICK head \in Heads : Done(UpdateEtx(s, s.dest, k), head)
      BY <3>1 DEF Sent, Heads
    <3> HIDE DEF Done
    <3>3. k \in Nat /\ s.dest \in Near(n)
      BY <3>1 DEF Sent
    <3>4. QED
      BY <3>2, <3>3
  <2>2. CASE TimedOut(n)
    <3>1. MaxRexmit + 1 \in Nat /\ s.dest \in Near(n) \cup {Null}
      BY <1>1, <2>2 DEF TimedOut, StateOf
    <3>2. PICK head \in Heads : Done(TimedOutEtx(s, s.dest, MaxRexmit + 1), head)
      BY <2>2 DEF TimedOut, Heads
    <3> HIDE DEF Done
    <3>3. QED
      BY <3>1, <3>2
  <2>3. QED
    BY <2>1, <2>2
<1>3. PICK u \in Finish(t, head) : node' = [node EXCEPT ![n] = u]
  BY <1>2 DEF Becomes
<1>4. t \in StateOf(n) /\ t.dest = s.dest /\ (Distinct(s) => Distinct(t))
  <2> HIDE DEF s, Done
  <2>1. CASE t = UpdateEtx(s, s.dest, k)
    BY <1>1, <1>2, <2>1, EtxUpdated
  <2>2. CASE t = TimedOutEtx(s, s.dest, k)
    BY <1>1, <1>2, <2>2, EtxUpdated
  <2>3. QED
    BY <1>2, <2>1, <2>2
<1>5. /\ u \in StateOf(n) /\ (Distinct(t) => Distinct(u))
      /\ u.dest = Idle \/ Handed(u)
      /\ u.rtmetric = SINK_METRIC \/ Settled(u)
  BY <1>2, <1>3, <1>4, FinishIs
<1>6. Good(n, s, u)
  BY <1>4, <1>5, CheapIfSettled DEF Good
<1>7. QED
  BY <1>2, <1>3, <1>6, CountType DEF GoodStep

LEMMA FreshIs ==
  ASSUME NEW n
  PROVE  /\ Fresh \in StateOf(n) /\ Distinct(Fresh) /\ Cheap(Fresh)
         /\ Listed(Fresh) = {} /\ Fresh.dest = Idle
<1>1. BlankEntry \in EntryOf(Near(n)) /\ BlankEntry.addr = Null
  BY DEF BlankEntry, EntryOf, Byte, Slot
<1>2. Fresh \in StateOf(n)
  BY <1>1 DEF Fresh, StateOf, EmptyEntries
<1>3. Listed(Fresh) = {}
  BY <1>1 DEF Listed, Fresh, EmptyEntries
<1>4. QED
  BY <1>2, <1>3 DEF Distinct, Cheap, Fresh

LEMMA AgeIsGood ==
  ASSUME TypeOK, NEW n \in Router, Age(n)
  PROVE  GoodStep(n)
<1> DEFINE s == node[n]
<1>1. s \in StateOf(n)
  BY DEF TypeOK
<1>2. PICK b \in Listed(s) : Becomes(n, {Remove(s, b)})
  BY DEF Age
<1> DEFINE u == Remove(s, b)
<1>3. b \in Block /\ node' = [node EXCEPT ![n] = u]
  BY <1>2 DEF Becomes, Listed
<1>4. /\ u \in StateOf(n)
      /\ u.last_best = s.last_best /\ u.rtmetric = s.rtmetric /\ u.dest = s.dest
      /\ Listed(u) = Listed(s) \ {b}
      /\ \A x \in Block \ {b} : u.entry[x] = s.entry[x]
      /\ Distinct(s) => Distinct(u)
      /\ Lowest(s) <= Lowest(u)
  BY <1>1, <1>3, RemoveIs
<1> HIDE DEF u
<1>5. Cheap(s) => Cheap(u)
  <2> SUFFICES ASSUME Cheap(s), s.last_best \in Listed(s) \ {b}, s.rtmetric # SINK_METRIC
               PROVE  Cost(u, s.last_best) <= Lowest(u) + 2
    BY <1>4 DEF Cheap
  <2>1. s.last_best \in Block /\ Cost(u, s.last_best) = Cost(s, s.last_best)
    BY <1>4 DEF Cost, Listed
  <2>2. Cost(s, s.last_best) <= Lowest(s) + 2
    BY DEF Cheap
  <2>3. Cost(s, s.last_best) \in Nat /\ Lowest(s) \in Nat /\ Lowest(u) \in Nat
    BY <1>1, <1>4, <2>1, CostType, LowestIs
  <2>4. QED
    BY <1>4, <2>1, <2>2, <2>3
<1>6. Good(n, s, u)
  BY <1>4, <1>5 DEF Good
<1>7. QED
  BY <1>3, <1>6, CountType DEF GoodStep, Age

LEMMA RebootIsGood ==
  ASSUME TypeOK, NEW n \in Router, Reboot(n)
  PROVE  GoodStep(n)
<1>1. Good(n, node[n], Fresh)
  BY FreshIs DEF Good
<1>2. node' = [node EXCEPT ![n] = Fresh]
  BY DEF Reboot, Becomes
<1>3. QED
  BY <1>1, <1>2, CountType DEF GoodStep, Reboot

LEMMA StepIsGood ==
  ASSUME TypeOK, NEW n \in Router, Step(n)
  PROVE  GoodStep(n)
BY HearIsGood, SendIsGood, ReceiveIsGood, AcknowledgedIsGood, AgeIsGood, RebootIsGood
   DEF Step

TableInv == TypeOK /\ OneEntryEach /\ NearlyBest

LEMMA TableInvIs ==
  TableInv <=>
    /\ DOMAIN node = Router /\ changes \in 0 .. MaxChanges
    /\ \A n \in Router : node[n] \in StateOf(n) /\ Distinct(node[n]) /\ Cheap(node[n])
BY DEF TableInv, TypeOK, OneEntryEach, NearlyBest, Distinct, Cheap

LEMMA InitTable == Init => TableInv
<1> SUFFICES ASSUME Init PROVE TableInv
  OBVIOUS
<1>1. DOMAIN node = Router /\ \A n \in Router : node[n] = Fresh
  BY DEF Init
<1>2. \A n \in Router : node[n] \in StateOf(n) /\ Distinct(node[n]) /\ Cheap(node[n])
  BY <1>1, FreshIs
<1>3. changes \in 0 .. MaxChanges
  BY DEF Init
<1>4. QED
  BY <1>1, <1>2, <1>3, TableInvIs

LEMMA StepKeepsTable ==
  ASSUME TableInv, [Next]_vars
  PROVE  TableInv'
<1>1. CASE UNCHANGED vars
  BY <1>1 DEF TableInv, TypeOK, OneEntryEach, NearlyBest, vars
<1>2. CASE Next
  <2>1. PICK n \in Router : GoodStep(n)
    BY <1>2, StepIsGood DEF Next, TableInv
  <2>2. PICK u : node' = [node EXCEPT ![n] = u] /\ Good(n, node[n], u)
    BY <2>1 DEF GoodStep
  <2>3. DOMAIN node' = Router /\ node'[n] = u /\ \A m \in Router \ {n} : node'[m] = node[m]
    BY <2>2, TableInvIs
  <2>4. u \in StateOf(n) /\ Distinct(u) /\ Cheap(u)
    BY <2>2, TableInvIs DEF Good
  <2>5. \A m \in Router : node'[m] \in StateOf(m) /\ Distinct(node'[m]) /\ Cheap(node'[m])
    BY <2>3, <2>4, TableInvIs
  <2>6. changes' \in 0 .. MaxChanges
    BY <2>1 DEF GoodStep
  <2>7. TypeOK'
    BY <2>3, <2>5, <2>6 DEF TypeOK
  <2>8. OneEntryEach' /\ NearlyBest'
    BY <2>5 DEF OneEntryEach, NearlyBest, Distinct, Cheap
  <2>9. QED
    BY <2>7, <2>8 DEF TableInv
<1>3. QED
  BY <1>1, <1>2

THEOREM Invariant == Spec => []TableInv
BY InitTable, StepKeepsTable, PTL DEF Spec

\* In any network and for any size of the table and of the ETX ring the nodes keep their
\* types: what is stored in a neighbour entry always fits a byte.
THEOREM TypeCorrect == Spec => []TypeOK
BY Invariant, PTL DEF TableInv

\* received_announcement() never gives a neighbour a second entry.
THEOREM OneEntryEachHolds == Spec => []OneEntryEach
BY Invariant, PTL DEF TableInv

\* The hysteresis of neighbor_best() is respected between any two handlers.
THEOREM NearlyBestHolds == Spec => []NearlyBest
BY Invariant, PTL DEF TableInv

\* Packets go to a nearly best neighbour, whichever handler hands them over.
THEOREM SendsToNearlyBestHolds == Spec => SendsToNearlyBest
<1> DEFINE Fair(n) ==
      node'[n].dest \notin {Idle, node[n].dest} =>
        LET s == node'[n]
        IN  /\ s.dest = s.entry[s.last_best].addr
            /\ Cost(s, s.last_best) <= Lowest(s) + 2
<1>1. TypeOK /\ [Next]_vars => [\A n \in Router : Fair(n)]_vars
  <2> SUFFICES ASSUME TypeOK, Next, NEW m \in Router PROVE Fair(m)
    OBVIOUS
  <2>1. PICK n \in Router : GoodStep(n)
    BY StepIsGood DEF Next
  <2>2. PICK u : node' = [node EXCEPT ![n] = u] /\ Good(n, node[n], u)
    BY <2>1 DEF GoodStep
  <2>3. node'[n] = u /\ \A x \in Router \ {n} : node'[x] = node[x]
    BY <2>2 DEF TypeOK
  <2>4. QED
    BY <2>2, <2>3 DEF Good, Handed
<1>2. QED
  BY <1>1, TypeCorrect, PTL DEF Spec, SendsToNearlyBest

-----------------------------------------------------------------------------
(***************************************************************************)
(* No loops while no link changes.  Then all ETX samples are 1, metrics    *)
(* only fall, so what is remembered of a neighbour's metric is no lower    *)
(* than what the neighbour has, and a node's own metric is one more than   *)
(* what it remembers of its parent's.                                      *)
(***************************************************************************)
Ones == [i \in Slot |-> 1]

\* Before neighbor_best() is called: the metric is at least the cost of the parent.
Nearly(s) ==
  /\ \A b \in Listed(s) : s.entry[b].etxs = Ones
  /\ s.rtmetric <= RTMETRIC_MAX /\ s.rtmetric # SINK_METRIC
  /\ \/ s.last_best = NULL /\ s.rtmetric = RTMETRIC_MAX
     \/ s.last_best \in Listed(s) /\ Cost(s, s.last_best) <= s.rtmetric

\* After it.
Calm(s) ==
  /\ Nearly(s) /\ Settled(s)
  /\ IF s.last_best = NULL THEN Lowest(s) = RTMETRIC_MAX
     ELSE s.rtmetric = Cost(s, s.last_best)

\* A calm node has found its best neighbour.
LEMMA CalmStays ==
  ASSUME NEW n, NEW s \in StateOf(n), Calm(s), NEW u \in Best(s)
  PROVE  /\ u \in StateOf(n) /\ u.entry = s.entry /\ u.rtmetric = s.rtmetric
         /\ u.last_best = s.last_best
<1>1. /\ u \in StateOf(n) /\ u.entry = s.entry /\ u.rtmetric = s.rtmetric
  BY BestIs
<1>2. Lowest(s) \in Nat
  BY LowestIs
<1>3. CASE s.last_best = NULL
  BY <1>2, <1>3, BestIs DEF Calm
<1>4. CASE s.last_best # NULL
  <2>1. s.last_best \in Block /\ Cost(s, s.last_best) \in Nat
    <3>1. s.last_best \in Block
      BY <1>4 DEF StateOf
    <3>2. QED
      BY <3>1, CostType
  <2>2. ~ (Lowest(s) + 2 < Cost(s, s.last_best))
    BY <1>2, <1>4, <2>1 DEF Calm, Settled
  <2>3. u = s
    BY <1>4, <2>2 DEF Best
  <2>4. QED
    BY <1>1, <2>3
<1>5. QED
  BY <1>3, <1>4

LEMMA CalmIs ==
  ASSUME NEW s, NEW u, u.entry = s.entry, u.rtmetric = s.rtmetric,
         u.last_best = s.last_best, Calm(s)
  PROVE  Calm(u)
BY EntriesDecide DEF Calm, Nearly, Settled

\* What a call leaves of a calm node.
Unmoved(s, u) ==
  u.entry = s.entry /\ u.rtmetric = s.rtmetric /\ u.last_best = s.last_best

LEMMA CalmSends ==
  ASSUME NEW n, NEW s \in StateOf(n), Calm(s), NEW head \in Heads \ {"best"},
         NEW u \in SendQueued(s, head)
  PROVE  Unmoved(s, u)
<1>1. CASE u = s
  BY <1>1 DEF Unmoved
<1>2. CASE u # s
  <2>1. PICK b \in Best(s) : u = Transmit(b)
    BY <1>2 DEF SendQueued
  <2>2. /\ b \in StateOf(n) /\ b.entry = s.entry /\ b.rtmetric = s.rtmetric
        /\ b.last_best = s.last_best
    BY CalmStays
  <2>3. QED
    BY <2>1, <2>2, TransmitIs DEF Unmoved
<1>3. QED
  BY <1>1, <1>2

LEMMA NearlyBecomesCalm ==
  ASSUME NEW n, NEW s \in StateOf(n), Nearly(s), NEW head \in Heads \ {"best"},
         NEW u \in UpdateMetric(s, head)
  PROVE  /\ Calm(u) /\ u.entry = s.entry /\ u.rtmetric <= s.rtmetric
<1> DEFINE w(b) == [b EXCEPT !.rtmetric = Cost(b, b.last_best)]
<1>1. PICK b \in Best(s) :
        u \in IF b.last_best = NULL THEN {[b EXCEPT !.rtmetric = RTMETRIC_MAX]}
              ELSE IF s.rtmetric = RTMETRIC_MAX /\ w(b).rtmetric # s.rtmetric
                   THEN SendQueued(w(b), head) ELSE {w(b)}
  BY DEF UpdateMetric, Nearly
<1>2. /\ b \in StateOf(n) /\ b.entry = s.entry /\ b.rtmetric = s.rtmetric /\ Settled(b)
      /\ \/ b.last_best = s.last_best /\ s.last_best # NULL
         \/ /\ b.last_best = NULL /\ Lowest(s) = RTMETRIC_MAX
            /\ s.last_best # NULL => Lowest(s) + 2 < Cost(s, s.last_best)
         \/ /\ b.last_best \in Listed(s) /\ Lowest(s) < RTMETRIC_MAX
            /\ Cost(s, b.last_best) = Lowest(s)
  BY BestIs
<1>3. Lowest(b) = Lowest(s) /\ Listed(b) = Listed(s) /\ \A x : Cost(b, x) = Cost(s, x)
  BY <1>2, EntriesDecide
<1>4. Lowest(s) \in Nat /\ Lowest(s) <= RTMETRIC_MAX
      /\ \A x \in Listed(s) : Cost(s, x) \in Nat /\ Lowest(s) <= Cost(s, x)
  BY LowestIs, CostType DEF Listed
<1>5. s.rtmetric \in Nat /\ RTMETRIC_MAX \in Nat
  BY DEF StateOf
<1>6. CASE b.last_best = NULL
  <2>1. u = [b EXCEPT !.rtmetric = RTMETRIC_MAX]
    BY <1>1, <1>6
  <2>2. u.entry = b.entry /\ u.last_best = NULL /\ u.rtmetric = RTMETRIC_MAX
    BY <1>2, <1>5, <1>6, <2>1, MetricType
  <2>3. s.last_best = NULL /\ s.rtmetric = RTMETRIC_MAX /\ Lowest(s) = RTMETRIC_MAX
    <3>1. ~ s.last_best \in Listed(s)
      <4> SUFFICES ASSUME s.last_best \in Listed(s) PROVE FALSE
        OBVIOUS
      <4>1. s.last_best # NULL
        BY DEF Listed, Block, NULL
      <4>2. Lowest(s) = RTMETRIC_MAX /\ Lowest(s) + 2 < Cost(s, s.last_best)
        BY <1>2, <1>6, <4>1 DEF Listed, Block, NULL
      <4>3. Cost(s, s.last_best) <= s.rtmetric /\ s.rtmetric <= RTMETRIC_MAX
        BY <4>1 DEF Nearly
      <4>4. QED
        BY <1>4, <1>5, <4>2, <4>3
    <3>2. QED
      BY <1>2, <1>6, <3>1 DEF Nearly, Listed, Block, NULL
  <2>4. Lowest(u) = Lowest(s) /\ Listed(u) = Listed(s)
    BY <1>3, <2>2, EntriesDecide
  <2>5. Calm(u)
    BY <1>2, <1>5, <2>2, <2>3, <2>4 DEF Calm, Nearly, Settled
  <2>6. QED
    BY <1>2, <2>2, <2>3, <2>5
<1>7. CASE b.last_best # NULL
  <2> DEFINE v == w(b)
             c == Cost(s, b.last_best)
  <2>1. b.last_best \in Listed(s) /\ c <= s.rtmetric
    <3>1. CASE b.last_best = s.last_best
      BY <1>7, <3>1 DEF Nearly
    <3>2. CASE b.last_best # s.last_best
      <4>1. b.last_best \in Listed(s) /\ Lowest(s) < RTMETRIC_MAX /\ c = Lowest(s)
        BY <1>2, <1>7, <3>2
      <4>2. s.rtmetric = RTMETRIC_MAX \/ Lowest(s) <= s.rtmetric
        <5>1. CASE s.last_best = NULL
          BY <5>1 DEF Nearly, Listed, Block, NULL
        <5>2. CASE s.last_best # NULL
          <6>1. s.last_best \in Listed(s) /\ Cost(s, s.last_best) <= s.rtmetric
            BY <5>2 DEF Nearly
          <6>2. QED
            BY <1>4, <1>5, <6>1
        <5>3. QED
          BY <5>1, <5>2
      <4>3. QED
        BY <1>4, <1>5, <4>1, <4>2
    <3>3. QED
      BY <3>1, <3>2
  <2>2. c \in Nat /\ c # SINK_METRIC
    <3>1. b.last_best \in Block /\ s.entry[b.last_best].etxs = Ones
      BY <2>1 DEF Listed, Nearly
    <3>2. Etx(s.entry[b.last_best]) = 1
      BY <3>1, EtxOfOnes DEF Ones
    <3> DEFINE m == s.entry[b.last_best].rtmetric
    <3>3. c = m + 1 /\ m \in Byte
      BY <3>1, <3>2, CostType
    <3> HIDE DEF m, c
    <3>4. QED
      BY <3>3 DEF SINK_METRIC, Byte
  <2>3. /\ v \in StateOf(n) /\ v.entry = s.entry /\ v.last_best = b.last_best
        /\ v.rtmetric = c
    <3>1. v = [b EXCEPT !.rtmetric = c]
      BY <1>3
    <3> HIDE DEF c, v
    <3>2. v \in StateOf(n) /\ v.entry = b.entry /\ v.last_best = b.last_best /\ v.rtmetric = c
      BY <1>2, <2>2, <3>1, MetricType
    <3>3. QED
      BY <1>2, <3>2
  <2>4. u \in SendQueued(v, head) \/ u = v
    BY <1>1, <1>7
  <2> HIDE DEF v, w
  <2>5. Calm(v)
    <3>1. Lowest(v) = Lowest(s) /\ Listed(v) = Listed(s) /\ Cost(v, v.last_best) = c
      BY <2>3, EntriesDecide
    <3>2. Settled(v)
      BY <1>2, <1>3, <1>7, <2>3, <3>1 DEF Settled
    <3> HIDE DEF c
    <3>3. c <= RTMETRIC_MAX /\ c <= c
      BY <1>5, <2>1, <2>2 DEF Nearly
    <3>4. Nearly(v)
      BY <2>1, <2>2, <2>3, <3>1, <3>3 DEF Nearly
    <3>5. QED
      BY <1>7, <2>3, <3>1, <3>2, <3>4 DEF Calm
  <2>6. Unmoved(v, u)
    BY <2>3, <2>4, <2>5, CalmSends DEF Unmoved
  <2>7. Calm(u)
    BY <2>5, <2>6, CalmIs DEF Unmoved
  <2>8. QED
    BY <2>1, <2>3, <2>6, <2>7 DEF Unmoved
<1>8. QED
  BY <1>6, <1>7

\* What a node remembers of its neighbours' metrics is no lower than what they are.
Above(n) ==
  \A b \in Listed(node[n]) : Metric(node[n].entry[b].addr) <= node[n].entry[b].rtmetric

Loopless == changes = 0 => \A n \in Router : Calm(node[n]) /\ Above(n)

\* What a step of n leaves of its state, while there is no change.
Descent(n, u) ==
  /\ node' = [node EXCEPT ![n] = u]
  /\ Calm(u) /\ u.rtmetric <= node[n].rtmetric
  /\ \A b \in Listed(u) : Metric(u.entry[b].addr) <= u.entry[b].rtmetric

LEMMA NoChange ==
  ASSUME TypeOK, NEW isChange \in BOOLEAN, Count(isChange), changes' = 0
  PROVE  changes = 0 /\ ~ isChange
BY DEF TypeOK, Count

LEMMA MetricBound ==
  ASSUME TypeOK, Loopless, changes = 0, NEW n \in Router, NEW m \in Near(n)
  PROVE  /\ Metric(m) \in Nat /\ Metric(m) <= RTMETRIC_MAX /\ Metric(m) % ByteMod = Metric(m)
<1>1. Metric(m) \in Nat
  BY MetricIs
<1>2. Metric(m) <= RTMETRIC_MAX
  <2>1. CASE m = Sink
    BY <2>1 DEF Metric, SINK_METRIC
  <2>2. CASE m # Sink
    BY <2>2, NearIs DEF Loopless, Calm, Nearly, Metric
  <2>3. QED
    BY <2>1, <2>2
<1>3. Metric(m) < ByteMod
  BY <1>1, <1>2
<1>4. QED
  BY <1>1, <1>2, <1>3, Bytes

LEMMA HearDescends ==
  ASSUME TypeOK, Loopless, changes' = 0, NEW n \in Router, NEW m \in Near(n), Hear(n, m)
  PROVE  \E u : Descent(n, u)
<1> DEFINE s == node[n]
           heard == IF Find(s, m) = NULL THEN Add(s, m, Metric(m), 1)
                    ELSE {Update(s, Find(s, m), Metric(m))}
<1>1. PICK head \in Head(s) :
        /\ Becomes(n, UNION {UpdateMetric(t, head) : t \in heard})
        /\ Count(head = "best")
  BY DEF Hear
<1>2. changes = 0 /\ head \in Heads \ {"best"}
  BY <1>1, NoChange, HeadIs
<1>3. s \in StateOf(n) /\ Calm(s) /\ Above(n)
  BY <1>2 DEF TypeOK, Loopless
<1>4. Metric(m) \in Nat /\ Metric(m) <= RTMETRIC_MAX /\ Metric(m) % ByteMod = Metric(m)
  BY <1>2, MetricBound
<1>5. PICK t, u : t \in heard /\ u \in UpdateMetric(t, head) /\ node' = [node EXCEPT ![n] = u]
  <2> HIDE DEF heard
  <2>1. PICK u \in UNION {UpdateMetric(t, head) : t \in heard} : node' = [node EXCEPT ![n] = u]
    BY <1>1 DEF Becomes
  <2>2. QED
    BY <2>1
<1>6. /\ t \in StateOf(n) /\ Nearly(t) /\ t.rtmetric = s.rtmetric
      /\ \A b \in Listed(t) : Metric(t.entry[b].addr) <= t.entry[b].rtmetric
  <2>1. CASE t = s
    BY <1>3, <2>1 DEF Calm, Above
  <2>2. ASSUME NEW b \in Block, NEW e \in EntryOf(Near(n)),
               t = Replaced(s, b, e), e.addr = m, e.rtmetric = Metric(m),
               e.etxs = Ones,
               s.last_best = b => Metric(m) <= s.entry[b].rtmetric /\ b \in Listed(s)
        PROVE  /\ t \in StateOf(n) /\ Nearly(t) /\ t.rtmetric = s.rtmetric
               /\ \A x \in Listed(t) : Metric(t.entry[x].addr) <= t.entry[x].rtmetric
    <3>1. /\ t \in StateOf(n)
          /\ t.last_best = s.last_best /\ t.rtmetric = s.rtmetric
          /\ t.entry[b] = e
          /\ \A x \in Block \ {b} : t.entry[x] = s.entry[x]
      BY <1>3, <2>2, ReplacedIs
    <3>2. Listed(t) = Listed(s) \cup {b}
      BY <2>2, <3>1, NearIs DEF Listed
    <3>3. \A x \in Listed(t) : /\ t.entry[x].etxs = Ones
                               /\ Metric(t.entry[x].addr) <= t.entry[x].rtmetric
      BY <1>3, <1>4, <2>2, <3>1, <3>2 DEF Calm, Nearly, Above, Listed
    <3>4. s.last_best # NULL =>
            s.last_best \in Listed(t) /\ Cost(t, s.last_best) <= s.rtmetric
      <4> SUFFICES ASSUME s.last_best # NULL
                   PROVE  s.last_best \in Listed(t) /\ Cost(t, s.last_best) <= s.rtmetric
        OBVIOUS
      <4>1. s.last_best \in Listed(s) /\ Cost(s, s.last_best) <= s.rtmetric
        BY <1>3 DEF Calm, Nearly
      <4>2. CASE s.last_best # b
        <5>1. t.entry[s.last_best] = s.entry[s.last_best]
          BY <3>1, <4>1, <4>2 DEF Listed
        <5>2. QED
          BY <3>2, <4>1, <5>1 DEF Cost
      <4>3. CASE s.last_best = b
        <5>1. Etx(t.entry[b]) = 1 /\ Etx(s.entry[b]) = 1
          BY <1>3, <2>2, <3>1, <4>1, <4>3, EtxOfOnes DEF Calm, Nearly, Ones
        <5>2. Cost(t, b) = Metric(m) + 1 /\ Cost(s, b) = s.entry[b].rtmetric + 1
          BY <2>2, <3>1, <5>1 DEF Cost
        <5>3. s.entry[b].rtmetric \in Nat /\ s.rtmetric \in Nat
          BY <1>3, CostType DEF Byte, StateOf
        <5>4. QED
          BY <1>4, <2>2, <3>2, <4>1, <4>3, <5>2, <5>3
      <4>4. QED
        BY <4>2, <4>3
    <3>5. Nearly(t)
      <4> HIDE DEF s
      <4>1. /\ s.rtmetric <= RTMETRIC_MAX /\ s.rtmetric # SINK_METRIC
            /\ s.last_best = NULL => s.rtmetric = RTMETRIC_MAX
        BY <1>3 DEF Calm, Nearly, Listed, Block, NULL
      <4>2. \/ t.last_best = NULL /\ t.rtmetric = RTMETRIC_MAX
            \/ t.last_best \in Listed(t) /\ Cost(t, t.last_best) <= t.rtmetric
        BY <3>1, <3>4, <4>1
      <4>3. QED
        BY <3>1, <3>3, <4>1, <4>2 DEF Nearly
    <3>6. QED
      BY <3>1, <3>3, <3>5
  <2>3. CASE Find(s, m) = NULL /\ t # s
    <3>1. t \in Add(s, m, Metric(m), 1)
      BY <1>5, <2>3
    <3>2. PICK b \in Room(s), e \in EntryOf(Near(n)) :
            /\ t = Replaced(s, b, e) /\ b \in Block
            /\ e = [addr |-> m, rtmetric |-> Metric(m) % ByteMod,
                    etxs |-> [i \in Slot |-> 1], etxptr |-> 0]
      BY <1>3, <1>4, <2>3, <3>1, AddIs
    <3>3. s.last_best # b
      <4> SUFFICES ASSUME s.last_best = b PROVE FALSE
        OBVIOUS
      <4>1. b \in Listed(s) /\ s.last_best # NULL
        BY <1>3, <3>2 DEF Calm, Nearly, Block, NULL
      <4>2. CASE Block \ Listed(s) # {}
        <5>1. b \in Block \ Listed(s)
          <6>1. Room(s) = {CHOOSE y \in Block \ Listed(s) : \A x \in Block \ Listed(s) : y <= x}
            BY <4>2 DEF Room
          <6>2. \E y \in Block \ Listed(s) : \A x \in Block \ Listed(s) : y <= x
            <7>1. Block \ Listed(s) \in SUBSET (0 .. MAX_NEIGHBORS)
              BY DEF Block
            <7>2. QED
              BY <4>2, <7>1, LeastExists
          <6>3. QED
            BY <3>2, <6>1, <6>2
        <5>2. QED
          BY <4>1, <5>1
      <4>3. CASE Block \ Listed(s) = {}
        <5>1. b \in Worst(s)
          BY <3>2, <4>3 DEF Room
        <5>2. s.entry[b].addr \notin {s.entry[s.last_best].addr}
          BY <4>1, <5>1 DEF Worst
        <5>3. QED
          BY <5>2
      <4>4. QED
        BY <4>2, <4>3
    <3>4. e.addr = m /\ e.rtmetric = Metric(m) /\ e.etxs = Ones
      BY <1>4, <3>2 DEF Ones
    <3> HIDE DEF s
    <3>5. QED
      BY <2>2, <3>2, <3>3, <3>4
  <2>4. CASE Find(s, m) # NULL
    <3> DEFINE b == Find(s, m)
               e == [s.entry[b] EXCEPT !.rtmetric = Metric(m) % ByteMod]
    <3>1. b \in Block /\ s.entry[b].addr = m /\ t = Update(s, b, Metric(m))
      BY <1>3, <1>5, <2>4, FindIs
    <3>2. e \in EntryOf(Near(n)) /\ t = Replaced(s, b, e)
      BY <1>3, <1>4, <3>1, UpdateIs
    <3>3. s.entry[b] \in EntryOf(Near(n))
      BY <1>3, <3>1 DEF StateOf
    <3>4. e.addr = m /\ e.rtmetric = Metric(m) /\ e.etxs = s.entry[b].etxs
      BY <1>4, <3>1, <3>3 DEF EntryOf
    <3>5. b \in Listed(s)
      BY <3>1, NearIs DEF Listed
    <3>6. s.entry[b].etxs = Ones /\ Metric(m) <= s.entry[b].rtmetric
      BY <1>3, <3>1, <3>5 DEF Calm, Nearly, Above
    <3> HIDE DEF b, e, s
    <3>7. QED
      BY <2>2, <3>1, <3>2, <3>4, <3>5, <3>6
  <2>5. QED
    BY <2>1, <2>3, <2>4
<1> HIDE DEF s, heard
<1>7. Calm(u) /\ u.entry = t.entry /\ u.rtmetric <= t.rtmetric
  BY <1>2, <1>5, <1>6, NearlyBecomesCalm
<1>8. Listed(u) = Listed(t)
  BY <1>7, EntriesDecide
<1>9. \A b \in Listed(u) : Metric(u.entry[b].addr) <= u.entry[b].rtmetric
  BY <1>6, <1>7, <1>8
<1>10. QED
  BY <1>5, <1>6, <1>7, <1>9 DEF Descent, s

LEMMA UnmovedDescends ==
  ASSUME NEW n \in Router, Calm(node[n]), Above(n),
         NEW u, Unmoved(node[n], u), node[n].rtmetric \in Nat,
         node' = [node EXCEPT ![n] = u]
  PROVE  Descent(n, u)
<1>1. Calm(u) /\ Listed(u) = Listed(node[n])
  BY CalmIs, EntriesDecide DEF Unmoved
<1>2. QED
  BY <1>1 DEF Descent, Above, Unmoved

LEMMA OthersDescend ==
  ASSUME TypeOK, Loopless, changes' = 0, NEW n \in Router, Step(n),
         \A m \in Near(n) : ~ Hear(n, m)
  PROVE  \E u : Descent(n, u)
<1> DEFINE s == node[n]
<1>1. changes = 0
  <2>1. \E isChange \in BOOLEAN : Count(isChange)
    BY DEF Step, Send, Receive, Sent, TimedOut, Age, Reboot
  <2>2. QED
    BY <2>1, NoChange
<1>2. s \in StateOf(n) /\ Calm(s) /\ Above(n) /\ s.rtmetric \in Nat
  BY <1>1 DEF TypeOK, Loopless, StateOf
<1>3. \A head \in Head(s) : Count(head = "best") => head \in Heads \ {"best"}
  BY NoChange, HeadIs
<1>4. CASE Send(n)
  <2>1. PICK head \in Head(s) :
          /\ Becomes(n, UNION {IF b.last_best = NULL THEN {b} ELSE SendQueued(b, head)
                                 : b \in Best(s)})
          /\ Count(head = "best")
    BY <1>4 DEF Send
  <2>2. PICK b, u : /\ b \in Best(s)
                    /\ u \in IF b.last_best = NULL THEN {b} ELSE SendQueued(b, head)
                    /\ node' = [node EXCEPT ![n] = u]
    BY <2>1 DEF Becomes
  <2>3. head \in Heads \ {"best"}
    BY <1>3, <2>1
  <2>4. b \in StateOf(n) /\ Unmoved(s, b)
    BY <1>2, <2>2, CalmStays DEF Unmoved
  <2>5. Calm(b)
    BY <1>2, <2>4, CalmIs DEF Unmoved
  <2>6. u = b \/ u \in SendQueued(b, head)
    BY <2>2
  <2>7. Unmoved(b, u)
    BY <2>3, <2>4, <2>5, <2>6, CalmSends DEF Unmoved
  <2>8. Unmoved(s, u)
    BY <2>4, <2>7 DEF Unmoved
  <2>9. QED
    BY <1>2, <2>2, <2>8, UnmovedDescends
<1>5. CASE \E m \in Near(n) \ {Sink} : Receive(n, m)
  <2>1. PICK higher \in BOOLEAN, head \in Head(s) :
          /\ Becomes(n, UNION {IF t.rtmetric \in {SINK_METRIC, RTMETRIC_MAX} THEN {t}
                               ELSE SendQueued(t, head) :
                                 t \in IF higher THEN {s} ELSE UpdateMetric(s, head)})
          /\ Count(head = "best")
    BY <1>5 DEF Receive
  <2>2. PICK t, u : /\ t \in IF higher THEN {s} ELSE UpdateMetric(s, head)
                    /\ u \in IF t.rtmetric \in {SINK_METRIC, RTMETRIC_MAX} THEN {t}
                             ELSE SendQueued(t, head)
                    /\ node' = [node EXCEPT ![n] = u]
    BY <2>1 DEF Becomes
  <2>3. head \in Heads \ {"best"}
    BY <1>3, <2>1
  <2>4. t \in StateOf(n) /\ Calm(t) /\ t.entry = s.entry /\ t.rtmetric <= s.rtmetric
    <3>1. CASE t = s
      BY <1>2, <3>1
    <3>2. CASE t \in UpdateMetric(s, head)
      <4>1. Calm(t) /\ t.entry = s.entry /\ t.rtmetric <= s.rtmetric
        BY <1>2, <2>3, <3>2, NearlyBecomesCalm DEF Calm
      <4>2. t \in StateOf(n)
        BY <1>2, <2>3, <3>2, UpdateMetricIs DEF Leaves
      <4>3. QED
        BY <4>1, <4>2
    <3>3. QED
      BY <2>2, <3>1, <3>2
  <2>5. u = t \/ u \in SendQueued(t, head)
    BY <2>2
  <2>6. Unmoved(t, u)
    BY <2>3, <2>4, <2>5, CalmSends DEF Unmoved
  <2>7. Calm(u) /\ u.entry = s.entry /\ u.rtmetric <= s.rtmetric /\ Listed(u) = Listed(s)
    BY <2>4, <2>6, CalmIs, EntriesDecide DEF Unmoved
  <2>8. QED
    BY <1>2, <2>2, <2>7 DEF Descent, Above
<1>6. CASE (\E k \in 1 .. MaxRexmit + 1 : Sent(n, k)) \/ TimedOut(n)
  <2> DEFINE Done(t, head) == Becomes(n, Finish(t, head)) /\ Count(t.entry # s.entry \/ head = "best")
  <2>1. PICK t, head :
          /\ head \in Heads
          /\ \E k \in Nat : t = UpdateEtx(s, s.dest, k) \/ t = TimedOutEtx(s, s.dest, k)
          /\ Done(t, head)
    <3>1. CASE \E k \in 1 .. MaxRexmit + 1 : Sent(n, k)
      <4>1. PICK k \in 1 .. MaxRexmit + 1 : Sent(n, k)
        BY <3>1
      <4>2. PICK head \in Heads : Done(UpdateEtx(s, s.dest, k), head)
        BY <4>1 DEF Sent, Heads
      <4> HIDE DEF Done
      <4>3. k \in Nat
        OBVIOUS
      <4>4. QED
        BY <4>2, <4>3
    <3>2. CASE TimedOut(n)
      <4>1. PICK head \in Heads : Done(TimedOutEtx(s, s.dest, MaxRexmit + 1), head)
        BY <3>2 DEF TimedOut, Heads
      <4> HIDE DEF Done
      <4>2. MaxRexmit + 1 \in Nat
        OBVIOUS
      <4>3. QED
        BY <4>1, <4>2
    <3>3. QED
      BY <1>6, <3>1, <3>2
  <2>2. t.entry = s.entry /\ head \in Heads \ {"best"}
    BY <2>1, NoChange
  <2>3. s.dest \in Near(n) \cup {Null}
    BY <1>2, <1>6 DEF Sent, TimedOut, StateOf
  <2>4. t.rtmetric = s.rtmetric /\ t.last_best = s.last_best /\ t \in StateOf(n)
    <3>1. PICK k \in Nat : t = UpdateEtx(s, s.dest, k) \/ t = TimedOutEtx(s, s.dest, k)
      BY <2>1
    <3> HIDE DEF s
    <3>2. CASE t = UpdateEtx(s, s.dest, k)
      BY <1>2, <2>3, <3>2, EtxKeeps, EtxUpdated
    <3>3. CASE t = TimedOutEtx(s, s.dest, k)
      BY <1>2, <2>3, <3>3, EtxKeeps, EtxUpdated
    <3>4. QED
      BY <3>1, <3>2, <3>3
  <2> DEFINE i == [t EXCEPT !.dest = Idle]
  <2>5. i \in StateOf(n) /\ Unmoved(s, i)
    BY <2>2, <2>4, DestType DEF Unmoved
  <2>6. PICK v, u : /\ v \in UpdateMetric(i, head) /\ u \in SendQueued(v, head)
                    /\ node' = [node EXCEPT ![n] = u]
    <3>1. PICK u \in Finish(t, head) : node' = [node EXCEPT ![n] = u]
      BY <2>1 DEF Becomes
    <3>2. PICK v \in UpdateMetric(i, head) : u \in SendQueued(v, head)
      BY DEF Finish
    <3>3. QED
      BY <3>1, <3>2
  <2> HIDE DEF i
  <2>7. Calm(i)
    BY <1>2, <2>5, CalmIs DEF Unmoved
  <2>8. Calm(v) /\ v.entry = i.entry /\ v.rtmetric <= i.rtmetric
    BY <2>2, <2>5, <2>6, <2>7, NearlyBecomesCalm DEF Calm
  <2>9. v \in StateOf(n)
    BY <2>2, <2>5, <2>6, UpdateMetricIs DEF Leaves
  <2>10. Unmoved(v, u)
    BY <2>2, <2>6, <2>8, <2>9, CalmSends
  <2>11. Calm(u) /\ u.entry = s.entry /\ u.rtmetric <= s.rtmetric /\ Listed(u) = Listed(s)
    BY <2>5, <2>8, <2>10, CalmIs, EntriesDecide DEF Unmoved
  <2>12. QED
    BY <1>2, <2>6, <2>11 DEF Descent, Above
<1>7. CASE Age(n) \/ Reboot(n)
  BY <1>7, NoChange DEF Age, Reboot
<1>8. QED
  BY <1>4, <1>5, <1>6, <1>7 DEF Step

LEMMA NewTypes ==
  ASSUME TypeOK, NEW n \in Router, Step(n), NEW x \in Router
  PROVE  node'[x] \in StateOf(x)
<1>1. PICK u : node' = [node EXCEPT ![n] = u] /\ u \in StateOf(n)
  BY StepIsGood DEF GoodStep, Good
<1>2. QED
  BY <1>1 DEF TypeOK

LEMMA LooplessStays ==
  ASSUME TypeOK, Loopless, [Next]_vars
  PROVE  Loopless'
<1> SUFFICES ASSUME changes' = 0
             PROVE  (\A n \in Router : Calm(node[n]) /\ Above(n))'
  BY DEF Loopless
<1>1. CASE UNCHANGED vars
  <2>1. node' = node /\ changes = 0
    BY <1>1 DEF vars
  <2>2. QED
    BY <2>1 DEF Loopless, Above, Metric
<1>2. CASE Next
  <2>1. PICK n \in Router : Step(n)
    BY <1>2 DEF Next
  <2>2. PICK u : Descent(n, u)
    BY <2>1, HearDescends, OthersDescend
  <2>3. changes = 0
    <3>1. \E isChange \in BOOLEAN : Count(isChange)
      BY <2>1 DEF Step, Hear, Send, Receive, Sent, TimedOut, Age, Reboot
    <3>2. QED
      BY <3>1, NoChange
  <2>4. node'[n] = u /\ \A m \in Router \ {n} : node'[m] = node[m]
    BY <2>2 DEF Descent, TypeOK
  <2>5. \A m \in Router : Calm(node'[m])
    BY <2>2, <2>3, <2>4 DEF Descent, Loopless
  <2> DEFINE Later(m) == IF m = Sink THEN SINK_METRIC ELSE node'[m].rtmetric
  <2>6. ASSUME NEW m \in Node
        PROVE  Later(m) <= Metric(m) /\ Metric(m) \in Nat /\ Later(m) \in Nat
    <3>1. CASE m = Sink
      BY <3>1 DEF Metric, SINK_METRIC
    <3>2. CASE m \in Router
      <4>1. Metric(m) = node[m].rtmetric /\ Later(m) = node'[m].rtmetric
        BY <3>2 DEF Metric, Router
      <4>2. node[m].rtmetric \in Nat
        BY <3>2 DEF TypeOK, StateOf
      <4>3. node'[m].rtmetric \in Nat
        BY <2>4, <3>2, NewTypes, <2>1 DEF StateOf
      <4>4. QED
        BY <2>2, <2>4, <4>1, <4>2, <4>3 DEF Descent
    <3>3. QED
      BY <3>1, <3>2 DEF Router
  <2>7. ASSUME NEW x \in Router, NEW b \in Listed(node'[x])
        PROVE  Later(node'[x].entry[b].addr) <= node'[x].entry[b].rtmetric
    <3> DEFINE a == node'[x].entry[b].addr
    <3>1. b \in Block /\ a \in Node /\ node'[x].entry[b].rtmetric \in Nat
      <4>1. node'[x] \in StateOf(x)
        BY <2>1, NewTypes
      <4>2. b \in Block /\ node'[x].entry[b] \in EntryOf(Near(x))
            /\ node'[x].entry[b].addr # Null
        BY <4>1 DEF Listed, StateOf
      <4>3. QED
        BY <4>2 DEF EntryOf, Near, Byte
    <3>2. Metric(a) <= node'[x].entry[b].rtmetric
      <4>1. CASE x = n
        BY <2>2, <2>4, <4>1 DEF Descent
      <4>2. CASE x # n
        <5>1. node'[x] = node[x]
          BY <2>4, <4>2
        <5>2. QED
          BY <2>3, <5>1 DEF Loopless, Above
      <4>3. QED
        BY <4>1, <4>2
    <3> HIDE DEF a, Later
    <3>3. Later(a) <= Metric(a) /\ Metric(a) \in Nat /\ Later(a) \in Nat
      BY <2>6, <3>1
    <3>4. QED
      BY <3>1, <3>2, <3>3 DEF a
  <2>8. QED
    BY <2>5, <2>7 DEF Above, Metric
<1>3. QED
  BY <1>1, <1>2

LEMMA InitLoopless == Init => Loopless
<1> SUFFICES ASSUME Init, NEW n \in Router PROVE Calm(node[n]) /\ Above(n)
  BY DEF Loopless
<1>1. node[n] = Fresh
  BY DEF Init
<1>2. Listed(Fresh) = {} /\ Fresh \in StateOf(n)
  BY FreshIs
<1>3. Lowest(Fresh) = RTMETRIC_MAX
  BY <1>2, LowestIs
<1>4. Fresh.last_best = NULL /\ Fresh.rtmetric = RTMETRIC_MAX
  BY DEF Fresh
<1>5. RTMETRIC_MAX # SINK_METRIC
  BY DEF SINK_METRIC
<1>6. QED
  BY <1>1, <1>2, <1>3, <1>4, <1>5 DEF Calm, Nearly, Settled, Above

\* What a router with a parent remembers of it: the parent is near, has a route itself,
\* and is closer to the sink.
LEMMA ParentIsCloser ==
  ASSUME TypeOK, Loopless, changes = 0, NEW n \in Router, node[n].last_best # NULL
  PROVE  /\ Parent(n) \in Near(n)
         /\ node[n].rtmetric > Metric(Parent(n))
         /\ Parent(n) \in Router => node[Parent(n)].last_best # NULL
<1> DEFINE s == node[n]
           b == s.last_best
<1>1. s \in StateOf(n) /\ Calm(s) /\ Above(n) /\ Parent(n) = s.entry[b].addr
  BY DEF TypeOK, Loopless, Parent
<1>2. b \in Listed(s) /\ b \in Block /\ s.rtmetric = Cost(s, b)
  BY <1>1 DEF Calm, Nearly, Listed
<1>3. Etx(s.entry[b]) = 1
  BY <1>1, <1>2, EtxOfOnes DEF Calm, Nearly, Ones
<1>4. s.entry[b].rtmetric \in Byte /\ Cost(s, b) = s.entry[b].rtmetric + 1
  BY <1>1, <1>2, <1>3, CostType
<1>5. Parent(n) \in Near(n)
  BY <1>1, <1>2 DEF StateOf, EntryOf, Listed
<1>6. Metric(Parent(n)) <= s.entry[b].rtmetric /\ Metric(Parent(n)) \in Nat
  BY <1>1, <1>2, <1>5, MetricIs DEF Above
<1>7. node[n].rtmetric > Metric(Parent(n)) /\ node[n].rtmetric \in Nat
  BY <1>2, <1>4, <1>6 DEF Byte
<1>8. ASSUME Parent(n) \in Router, node[Parent(n)].last_best = NULL PROVE FALSE
  <2>1. Metric(Parent(n)) = RTMETRIC_MAX
    BY <1>8 DEF Loopless, Calm, Nearly, Metric, Router, Listed, Block, NULL
  <2>2. node[n].rtmetric <= RTMETRIC_MAX
    BY <1>1 DEF Calm, Nearly
  <2>3. QED
    BY <1>7, <2>1, <2>2
<1>9. QED
  BY <1>5, <1>7, <1>8

\* In any network, while no link changes and whatever announcements are lost, the metric
\* falls from every node to its parent.
THEOREM LoopFreeHolds == Spec => []LoopFree
<1>1. Spec => []Loopless
  BY InitLoopless, LooplessStays, TypeCorrect, PTL DEF Spec
<1>2. TypeOK /\ Loopless => LoopFree
  BY ParentIsCloser DEF LoopFree, Parent, Router, Loopless
<1>3. QED
  BY <1>1, <1>2, TypeCorrect, PTL

\* In any network, while no link changes, the parents lead from every router that has a
\* route to the sink: of a set of routers the one with the least metric has its parent
\* outside.
THEOREM LeadsToSinkHolds == Spec => []LeadsToSink
<1>1. Spec => []Loopless
  BY InitLoopless, LooplessStays, TypeCorrect, PTL DEF Spec
<1>2. TypeOK /\ Loopless => LeadsToSink
  <2> SUFFICES ASSUME TypeOK, Loopless, changes = 0 PROVE LeadsToSink
    BY DEF LeadsToSink
  <2>1. ASSUME NEW n \in Routed
        PROVE  /\ n \in Router /\ node[n].last_best # NULL
               /\ Parent(n) \in Near(n) /\ Parent(n) \in Node
               /\ node[n].rtmetric > Metric(Parent(n))
               /\ Parent(n) \in Router => node[Parent(n)].last_best # NULL
    <3>1. n \in Router /\ node[n].last_best # NULL
      BY DEF Routed, Parent
    <3>2. QED
      BY <3>1, ParentIsCloser, NearIs
  <2>2. ASSUME NEW n \in Router, node[n].last_best # NULL PROVE n \in Routed
    BY <2>2, ParentIsCloser, NearIs DEF Routed
  <2>3. ASSUME NEW n \in Routed PROVE Parent(n) \in Routed \cup {Sink}
    BY <2>1, <2>2 DEF Router
  <2>4. ASSUME NEW S \in (SUBSET Routed) \ {{}}
        PROVE  \E n \in S : Parent(n) \in Node \ S
    <3> DEFINE metrics == {node[n].rtmetric : n \in S}
    <3>1. \A n \in S : node[n].rtmetric \in 0 .. RTMETRIC_MAX
      <4>1. \A n \in S : n \in Router
        BY <2>1
      <4>2. \A n \in Router : node[n].rtmetric \in Nat /\ node[n].rtmetric <= RTMETRIC_MAX
        BY DEF TypeOK, StateOf, Loopless, Calm, Nearly
      <4>3. QED
        BY <4>1, <4>2
    <3>2. metrics \in SUBSET (0 .. RTMETRIC_MAX) /\ metrics # {}
      BY <3>1
    <3>3. PICK k \in metrics : \A x \in metrics : k <= x
      <4> HIDE DEF metrics
      <4>1. RTMETRIC_MAX \in Nat
        OBVIOUS
      <4>2. QED
        BY <3>2, <4>1, LeastExists
    <3>4. PICK n \in S : node[n].rtmetric = k
      BY <3>3
    <3>5. ASSUME Parent(n) \in S PROVE FALSE
      <4>1. Parent(n) \in Router /\ Metric(Parent(n)) = node[Parent(n)].rtmetric
        BY <2>1, <3>5 DEF Metric, Router
      <4>2. node[Parent(n)].rtmetric \in metrics
        BY <3>5
      <4>3. k <= node[Parent(n)].rtmetric /\ k > node[Parent(n)].rtmetric
        BY <2>1, <3>3, <3>4, <4>1, <4>2
      <4>4. QED
        BY <3>1, <3>4, <3>5, <4>3
    <3>6. QED
      BY <2>1, <3>4, <3>5
  <2>5. QED
    BY <2>3, <2>4 DEF LeadsToSink
<1>3. QED
  BY <1>1, <1>2, TypeCorrect, PTL
=============================================================================
