------------------------ MODULE TopologyHistory_proofs ------------------------
(***************************************************************************)
(* Theorems about TopologyHistory and their proofs.                        *)
(***************************************************************************)
EXTENDS TopologyHistory, FiniteSetTheorems, SequenceTheorems, TLAPS

USE HistoryAssumption DEF HistoryAssumption

(***************************************************************************)
(* The walks of isConsistent(): their recursive definition makes sense,    *)
(* and they end exactly on trees.                                          *)
(***************************************************************************)
\* The pairs from which the walk ends are the least set closed under the step.
Pairs(N) == N \X SUBSET N
Closed(parent, N, X) ==
  \A n \in N, visited \in SUBSET N :
    (parent[n] = Sink \/ (parent[n] \notin visited
                          /\ <<parent[n], visited \cup {parent[n]}>> \in X))
      => <<n, visited>> \in X
Least(parent, N) ==
  {w \in Pairs(N) : \A X \in SUBSET Pairs(N) : Closed(parent, N, X) => w \in X}

LEMMA LeastIsFixpoint ==
  ASSUME NEW N, Sink \notin N, NEW parent \in [N -> N \cup {Sink}],
         NEW n \in N, NEW visited \in SUBSET N
  PROVE  <<n, visited>> \in Least(parent, N) <=>
           \/ parent[n] = Sink
           \/ /\ parent[n] \notin visited
              /\ <<parent[n], visited \cup {parent[n]}>> \in Least(parent, N)
<1> DEFINE L == Least(parent, N)
           Ends(m, v, X) == \/ parent[m] = Sink
                            \/ /\ parent[m] \notin v
                               /\ <<parent[m], v \cup {parent[m]}>> \in X
<1>1. L \subseteq Pairs(N)
  BY DEF Least
<1>2. \A X \in SUBSET Pairs(N) : Closed(parent, N, X) => L \subseteq X
  BY DEF Least
<1>3. ASSUME NEW m \in N, NEW v \in SUBSET N, Ends(m, v, L)
      PROVE  <<m, v>> \in L
  <2>1. <<m, v>> \in Pairs(N)
    BY DEF Pairs
  <2>2. ASSUME NEW X \in SUBSET Pairs(N), Closed(parent, N, X)
        PROVE  <<m, v>> \in X
    <3>1. Ends(m, v, X)
      BY <1>2, <1>3, <2>2
    <3>2. QED
      BY <2>2, <3>1 DEF Closed
  <2>3. QED
    BY <2>1, <2>2 DEF Least
<1>4. Closed(parent, N, {w \in L : Ends(w[1], w[2], L)})
  <2> SUFFICES ASSUME NEW m \in N, NEW v \in SUBSET N,
                      Ends(m, v, {w \in L : Ends(w[1], w[2], L)})
               PROVE  <<m, v>> \in L /\ Ends(m, v, L)
    BY DEF Closed
  <2>1. Ends(m, v, L)
    OBVIOUS
  <2>2. QED
    BY <1>3, <2>1
<1>5. \A w \in L : Ends(w[1], w[2], L)
  BY <1>1, <1>2, <1>4
<1>6. <<n, visited>> \in L => Ends(n, visited, L)
  BY <1>5
<1>7. QED
  BY <1>3, <1>6

\* What TLA+ says of a recursive function is only that it is one if there is one.
LEMMA EndingUnfolds ==
  ASSUME NEW N, Sink \notin N, NEW parent \in [N -> N \cup {Sink}],
         NEW visited \in SUBSET N
  PROVE  Ending(parent)[visited] =
           {n \in N : \/ parent[n] = Sink
                      \/ /\ parent[n] \notin visited
                         /\ parent[n] \in Ending(parent)[visited \cup {parent[n]}]}
<1> DEFINE P(E) == E = [v \in SUBSET DOMAIN parent |->
                          {n \in DOMAIN parent :
                             \/ parent[n] = Sink
                             \/ parent[n] \notin v /\ parent[n] \in E[v \cup {parent[n]}]}]
           V == [v \in SUBSET N |-> {n \in N : <<n, v>> \in Least(parent, N)}]
<1>1. DOMAIN parent = N
  OBVIOUS
<1>2. P(V)
  <2>1. \A v \in SUBSET N :
          V[v] = {n \in N : \/ parent[n] = Sink
                            \/ parent[n] \notin v /\ parent[n] \in V[v \cup {parent[n]}]}
    <3> SUFFICES ASSUME NEW v \in SUBSET N, NEW n \in N
                 PROVE  n \in V[v] <=>
                          \/ parent[n] = Sink
                          \/ parent[n] \notin v /\ parent[n] \in V[v \cup {parent[n]}]
      OBVIOUS
    <3>1. n \in V[v] <=> <<n, v>> \in Least(parent, N)
      OBVIOUS
    <3>2. CASE parent[n] = Sink
      BY <3>1, <3>2, LeastIsFixpoint
    <3>3. CASE parent[n] \in N
      <4>1. parent[n] \in V[v \cup {parent[n]}] <=>
              <<parent[n], v \cup {parent[n]}>> \in Least(parent, N)
        BY <3>3
      <4>2. QED
        BY <3>1, <3>3, <4>1, LeastIsFixpoint
    <3>4. QED
      BY <3>2, <3>3
  <2>2. V = [v \in SUBSET N |-> V[v]]
    OBVIOUS
  <2> HIDE DEF V
  <2>3. QED
    BY <1>1, <2>1, <2>2
<1>3. Ending(parent) = CHOOSE E : P(E)
  BY DEF Ending
<1>4. P(Ending(parent))
  <2>1. \E E : P(E)
    BY <1>2
  <2> HIDE DEF P, V
  <2>2. P(CHOOSE E : P(E))
    BY <2>1, Zenon
  <2>3. QED
    BY <1>3, <2>2, Zenon
<1>5. QED
  BY <1>1, <1>4

\* Sets of visited nodes cannot grow for ever.
LEMMA LargestVisited ==
  ASSUME NEW N, IsFiniteSet(N), NEW F \in SUBSET SUBSET N, F # {}
  PROVE  \E v \in F : \A u \in F : v \subseteq u => u = v
<1> DEFINE T == {N \ v : v \in F}
<1>1. IsWellFoundedOn(StrictSubsetOrdering(N), SUBSET N)
  <2>1. FiniteSubsetsOf(N) = SUBSET N
    BY FS_FiniteSubsetsOfFinite
  <2>2. IsWellFoundedOn(StrictSubsetOrdering(N), FiniteSubsetsOf(N))
    BY FS_StrictSubsetOrderingWellFounded
  <2>3. QED
    BY <2>1, <2>2
<1>2. PICK x \in T : \A y \in T : <<y, x>> \notin StrictSubsetOrdering(N)
  <2>1. T \subseteq SUBSET N
    OBVIOUS
  <2>2. T # {}
    <3>1. PICK v : v \in F
      OBVIOUS
    <3>2. N \ v \in T
      BY <3>1
    <3>3. QED
      BY <3>2
  <2> HIDE DEF T
  <2>3. QED
    BY <1>1, <2>1, <2>2, WFMin
<1>3. PICK v \in F : x = N \ v
  BY <1>2
<1>4. ASSUME NEW u \in F, v \subseteq u, u # v PROVE FALSE
  <2>1. <<N \ u, N \ v>> \in StrictSubsetOrdering(N)
    BY <1>4 DEF StrictSubsetOrdering
  <2>2. QED
    BY <1>2, <1>3, <2>1
<1>5. QED
  BY <1>4

\* From a node of a set that parents do not lead out of, no walk ends.
LEMMA NoEndInside ==
  ASSUME NEW N, Sink \notin N, IsFiniteSet(N), NEW parent \in [N -> N \cup {Sink}],
         NEW S \in SUBSET N, \A n \in S : parent[n] \in S,
         NEW n \in S, NEW visited \in SUBSET N
  PROVE  n \notin Ending(parent)[visited]
<1> DEFINE F == {v \in SUBSET N : \E m \in S : m \in Ending(parent)[v]}
<1> SUFFICES ASSUME F # {} PROVE FALSE
  OBVIOUS
<1>1. PICK v \in F : \A u \in F : v \subseteq u => u = v
  <2>1. F \in SUBSET SUBSET N
    OBVIOUS
  <2> HIDE DEF F
  <2>2. QED
    BY <2>1, LargestVisited
<1>2. PICK m \in S : m \in Ending(parent)[v]
  BY <1>1
<1>3. parent[m] \notin v /\ parent[m] \in Ending(parent)[v \cup {parent[m]}]
  BY <1>1, <1>2, EndingUnfolds
<1>4. v \cup {parent[m]} \in F
  BY <1>1, <1>3
<1>5. QED
  BY <1>1, <1>3, <1>4

\* When visited is the path behind a node, and no set of nodes keeps to itself, the walk
\* from that node ends.
LEMMA EndsOnTree ==
  ASSUME NEW N, Sink \notin N, IsFiniteSet(N), NEW parent \in [N -> N \cup {Sink}],
         \A S \in (SUBSET N) \ {{}} : \E n \in S : parent[n] \notin S,
         NEW n \in N
  PROVE  n \in Ending(parent)[{n}]
<1> DEFINE F == {v \in SUBSET N :
                   \E m \in v : /\ \A k \in v \ {m} : parent[k] \in v
                                /\ m \notin Ending(parent)[v]}
<1> SUFFICES ASSUME {n} \in F PROVE FALSE
  OBVIOUS
<1>1. PICK v \in F : \A u \in F : v \subseteq u => u = v
  <2>1. F \in SUBSET SUBSET N /\ F # {}
    OBVIOUS
  <2> HIDE DEF F
  <2>2. QED
    BY <2>1, LargestVisited
<1>2. PICK m \in v : (\A k \in v \ {m} : parent[k] \in v) /\ m \notin Ending(parent)[v]
  BY <1>1
<1>3. /\ parent[m] # Sink
      /\ parent[m] \in v \/ parent[m] \notin Ending(parent)[v \cup {parent[m]}]
  BY <1>1, <1>2, EndingUnfolds
<1>4. parent[m] \notin v
  <2> SUFFICES ASSUME parent[m] \in v PROVE FALSE
    OBVIOUS
  <2>1. v \in (SUBSET N) \ {{}} /\ \A k \in v : parent[k] \in v
    BY <1>1, <1>2
  <2>2. QED
    BY <2>1
<1>5. v \cup {parent[m]} \in F
  <2>1. parent[m] \in N
    BY <1>1, <1>2, <1>3
  <2>2. \A k \in (v \cup {parent[m]}) \ {parent[m]} : parent[k] \in v \cup {parent[m]}
    BY <1>2
  <2>3. QED
    BY <1>1, <1>3, <1>4, <2>1, <2>2
<1>6. QED
  BY <1>1, <1>4, <1>5

\* isConsistent() is right: it accepts exactly the trees rooted at the sink.
THEOREM ConsistentIsTree ==
  ASSUME NEW t, IsFiniteSet(Nodes(t)), Sink \notin Nodes(t)
  PROVE  IsConsistent(t) <=> IsTree(t)
<1> DEFINE N == Nodes(t)
<1> SUFFICES ASSUME \A n \in N : t.info[n].parent \in N \cup {Sink}
             PROVE  IsConsistent(t) <=> IsTree(t)
  BY DEF IsConsistent, IsTree
<1>1. Parents(t) \in [N -> N \cup {Sink}] /\ \A n \in N : Parents(t)[n] = t.info[n].parent
  BY DEF Parents
<1>2. ASSUME IsConsistent(t), NEW S \in (SUBSET N) \ {{}}
      PROVE  \E n \in S : t.info[n].parent \notin S
  <2> SUFFICES ASSUME \A n \in S : t.info[n].parent \in S PROVE FALSE
    OBVIOUS
  <2>1. PICK n \in S : TRUE
    OBVIOUS
  <2>2. n \in N /\ {n} \in SUBSET N /\ n \in Ending(Parents(t))[{n}]
    BY <1>2, <2>1 DEF IsConsistent
  <2>3. \A m \in S : Parents(t)[m] \in S
    BY <1>1
  <2>4. QED
    BY <1>1, <2>1, <2>2, <2>3, NoEndInside
<1>3. ASSUME IsTree(t), NEW n \in N
      PROVE  n \in Ending(Parents(t))[{n}]
  <2>1. \A S \in (SUBSET N) \ {{}} : \E m \in S : Parents(t)[m] \notin S
    BY <1>1, <1>3 DEF IsTree
  <2>2. QED
    BY <1>1, <2>1, EndsOnTree
<1>4. QED
  BY <1>2, <1>3 DEF IsConsistent, IsTree

-----------------------------------------------------------------------------
(***************************************************************************)
(* Types.                                                                  *)
(***************************************************************************)
Infos == UNION {InfoOf(S) : S \in SUBSET Node}
Sorted(h) == \A i, j \in DOMAIN h : i < j => h[i].age <= h[j].age
IsHistory(h) == h \in Seq(Topology) /\ Len(h) <= MaxTopologies /\ Sorted(h)

LEMMA InfosAre ==
  \A info : info \in Infos <=>
              /\ DOMAIN info \subseteq Node
              /\ info \in [DOMAIN info -> Info]
BY DEF Infos, InfoOf

LEMMA WithType ==
  ASSUME NEW info, info \in Infos \/ info = [m \in {} |-> 0],
         NEW n \in Node, NEW p \in Node \cup {Sink}
  PROVE  With(info, n, p) \in Infos
<1>1. DOMAIN info \subseteq Node /\ \A m \in DOMAIN info : info[m] \in Info
  BY InfosAre
<1>2. [parent |-> p, age |-> 0] \in Info
  BY DEF Info, Age
<1>3. /\ DOMAIN With(info, n, p) = DOMAIN info \cup {n}
      /\ \A m \in DOMAIN info \cup {n} : With(info, n, p)[m] \in Info
  BY <1>1, <1>2 DEF With
<1>4. With(info, n, p) \in [DOMAIN info \cup {n} -> Info]
  BY <1>3 DEF With
<1>5. QED
  BY <1>1, <1>3, <1>4, InfosAre

LEMMA OlderType ==
  /\ \A a \in Age : Older(a) \in Age /\ Older(a) >= a
  /\ \A a, b \in Age : a <= b => Older(a) <= Older(b)
BY DEF Older, Age

LEMMA OlderInfoType ==
  ASSUME NEW info \in Infos
  PROVE  /\ OlderInfo(info) \in Infos
         /\ DOMAIN OlderInfo(info) = DOMAIN info
         /\ \A n \in DOMAIN info :
              /\ OlderInfo(info)[n] = [parent |-> info[n].parent, age |-> Older(info[n].age)]
              /\ info[n].age \in Age
<1>1. DOMAIN info \subseteq Node /\ info \in [DOMAIN info -> Info]
  BY InfosAre
<1>2. ASSUME NEW n \in DOMAIN info
      PROVE  /\ OlderInfo(info)[n] = [parent |-> info[n].parent, age |-> Older(info[n].age)]
             /\ OlderInfo(info)[n] \in Info
             /\ info[n].age \in Age
  <2>1. info[n] \in [parent : Node \cup {Sink}, age : Age]
    BY <1>1 DEF Info
  <2>2. OlderInfo(info)[n] = [info[n] EXCEPT !.age = Older(info[n].age)]
    BY DEF OlderInfo
  <2>3. Older(info[n].age) \in Age
    BY <2>1, OlderType
  <2>4. QED
    BY <2>1, <2>2, <2>3 DEF Info
<1>3. DOMAIN OlderInfo(info) = DOMAIN info
  BY DEF OlderInfo
<1>4. OlderInfo(info) \in [DOMAIN info -> Info]
  BY <1>2 DEF OlderInfo
<1>5. QED
  BY <1>1, <1>2, <1>3, <1>4, InfosAre

LEMMA TopologyType ==
  /\ \A a \in Age, info \in Infos : [age |-> a, info |-> info] \in Topology
  /\ \A t \in Topology : t.age \in Age /\ t.info \in Infos
BY DEF Topology, Infos

LEMMA AddFirstType ==
  ASSUME NEW h, IsHistory(h), NEW t \in Topology, t.age = 0
  PROVE  IsHistory(AddFirst(t, h)) /\ AddFirst(t, h) # <<>> /\ AddFirst(t, h)[1] = t
<1> DEFINE k == IF Len(h) < MaxTopologies THEN Len(h) + 1 ELSE MaxTopologies
           a == AddFirst(t, h)
<1>1. Len(h) \in Nat /\ DOMAIN h = 1 .. Len(h) /\ \A i \in 1 .. Len(h) : h[i] \in Topology
  BY DEF IsHistory
<1>2. k \in Nat /\ 1 <= k /\ k <= MaxTopologies /\ k <= Len(h) + 1
  BY <1>1
<1>3. a = [i \in 1 .. k |-> IF i = 1 THEN t ELSE h[i - 1]]
  BY DEF AddFirst
<1> HIDE DEF k, a
<1>4. \A i \in 1 .. k : i = 1 \/ i - 1 \in 1 .. Len(h)
  BY <1>1, <1>2
<1>5. /\ \A i \in 1 .. k : a[i] \in Topology
      /\ a[1] = t
      /\ \A i \in 1 .. k : i # 1 => a[i] = h[i - 1]
  BY <1>1, <1>2, <1>3, <1>4
<1>6. a \in Seq(Topology) /\ Len(a) = k /\ DOMAIN a = 1 .. k
  BY <1>2, <1>3, <1>5
<1>7. Sorted(a)
  <2> SUFFICES ASSUME NEW i \in 1 .. k, NEW j \in 1 .. k, i < j
               PROVE  a[i].age <= a[j].age
    BY <1>6 DEF Sorted
  <2>1. CASE i = 1
    BY <2>1, <1>5, TopologyType DEF Age
  <2>2. CASE i # 1
    <3>1. i - 1 \in DOMAIN h /\ j - 1 \in DOMAIN h /\ i - 1 < j - 1 /\ j # 1
      BY <1>1, <1>2, <1>4, <2>2
    <3>2. h[i - 1].age <= h[j - 1].age
      BY <3>1 DEF IsHistory, Sorted
    <3>3. QED
      BY <1>5, <2>2, <3>1, <3>2
  <2>3. QED
    BY <2>1, <2>2
<1>8. QED
  BY <1>2, <1>5, <1>6, <1>7 DEF IsHistory, a

LEMMA SubSeqType ==
  ASSUME NEW h, IsHistory(h), NEW k \in 0 .. Len(h)
  PROVE  IsHistory(SubSeq(h, 1, k)) /\ (SubSeq(h, 1, k) # <<>> => SubSeq(h, 1, k)[1] = h[1])
<1> DEFINE s == SubSeq(h, 1, k)
<1>1. /\ s \in Seq(Topology) /\ Len(s) = k /\ DOMAIN s = 1 .. k /\ Len(h) \in Nat
      /\ \A i \in 1 .. k : s[i] = h[i]
      /\ DOMAIN h = 1 .. Len(h)
  BY DEF IsHistory
<1>2. Sorted(s)
  BY <1>1 DEF IsHistory, Sorted
<1>3. QED
  BY <1>1, <1>2 DEF IsHistory

SilentIn(t) == {n \in Nodes(t) : t.info[n].age >= Silence}

LEMMA PurgedIs ==
  ASSUME NEW h, IsHistory(h), h # <<>>
  PROVE  /\ IsHistory(Purged(h).history)
         /\ \/ /\ Purged(h).thread = "dead"
               /\ Purged(h).history = <<>>
               /\ h[1].age > Window
            \/ /\ Purged(h).thread = "alive"
               /\ Purged(h).history # <<>>
               /\ Purged(h).history[1].age <= h[1].age
               /\ Purged(h).silent = SilentIn(h[1])
               /\ Purged(h).history[1] = h[1] \/ Purged(h).silent # {}
               /\ Purged(h).history[1].info =
                    [m \in Nodes(h[1]) \ SilentIn(h[1]) |-> h[1].info[m]]
<1> DEFINE k == Cardinality({i \in DOMAIN h : h[i].age <= Window})
           kept == SubSeq(h, 1, k)
<1>1. Len(h) \in Nat /\ DOMAIN h = 1 .. Len(h) /\ 1 \in DOMAIN h /\ h[1] \in Topology
  BY DEF IsHistory
<1>2. k \in 0 .. Len(h)
  <2>1. IsFiniteSet(1 .. Len(h)) /\ Cardinality(1 .. Len(h)) = Len(h)
    BY <1>1, FS_Interval
  <2>2. {i \in DOMAIN h : h[i].age <= Window} \subseteq 1 .. Len(h)
    BY <1>1
  <2> DEFINE D == {i \in DOMAIN h : h[i].age <= Window}
  <2> HIDE DEF D
  <2>3. IsFiniteSet(D) /\ Cardinality(D) <= Cardinality(1 .. Len(h))
    BY <2>1, <2>2, FS_Subset DEF D
  <2>4. Cardinality(D) \in Nat
    BY <2>3, FS_CardinalityType
  <2>5. QED
    BY <1>1, <2>1, <2>3, <2>4 DEF D
<1>3. IsHistory(kept) /\ (kept # <<>> => kept[1] = h[1])
  BY <1>2, SubSeqType
<1> HIDE DEF k
<1>4. CASE kept = <<>>
  <2>1. Purged(h) = [history |-> kept, thread |-> "dead", silent |-> {}]
    BY <1>4 DEF Purged, k
  <2> DEFINE D == {i \in DOMAIN h : h[i].age <= Window}
  <2>2. IsFiniteSet(1 .. Len(h)) /\ D \subseteq 1 .. Len(h)
    <3>1. D \subseteq 1 .. Len(h)
      BY <1>1
    <3>2. IsFiniteSet(1 .. Len(h))
      BY <1>1, FS_Interval
    <3>3. QED
      BY <3>1, <3>2
  <2>3. IsFiniteSet(D) /\ Cardinality(D) = 0
    <3>1. k = 0
      BY <1>1, <1>2, <1>4
    <3> HIDE DEF D
    <3>2. QED
      BY <2>2, <3>1, FS_Subset DEF D, k
  <2>4. D = {}
    <3> HIDE DEF D
    <3>1. QED
      BY <2>3, FS_EmptySet
  <2>5. h[1].age \in Age /\ ~(h[1].age <= Window)
    BY <1>1, <2>4, TopologyType
  <2>6. QED
    BY <1>3, <1>4, <2>1, <2>5 DEF Age
<1>5. CASE kept # <<>>
  <2> DEFINE t == Without(h[1], SilentIn(h[1]))
  <2>1. Purged(h) = [history |-> IF SilentIn(h[1]) = {} THEN kept ELSE AddFirst(t, kept),
                     thread |-> "alive", silent |-> SilentIn(h[1])]
    BY <1>3, <1>5 DEF Purged, k, SilentIn
  <2>2. h[1].info \in Infos /\ h[1].info \in [Nodes(h[1]) -> Info] /\ Nodes(h[1]) \subseteq Node
    BY <1>1, TopologyType, InfosAre DEF Nodes
  <2>3. t \in Topology /\ t.age = 0
        /\ t.info = [m \in Nodes(h[1]) \ SilentIn(h[1]) |-> h[1].info[m]]
    <3>1. t = [age |-> 0, info |-> [m \in Nodes(h[1]) \ SilentIn(h[1]) |-> h[1].info[m]]]
      BY DEF Without
    <3> DEFINE D == Nodes(h[1]) \ SilentIn(h[1])
               i == [m \in D |-> h[1].info[m]]
    <3>2. i \in Infos
      <4>1. D \subseteq Node /\ \A m \in D : h[1].info[m] \in Info
        BY <2>2
      <4> HIDE DEF D
      <4>2. DOMAIN i = D /\ i \in [D -> Info]
        BY <4>1
      <4> HIDE DEF i
      <4>3. QED
        BY <4>1, <4>2, InfosAre
    <3>3. t = [age |-> 0, info |-> i]
      BY <3>1
    <3> HIDE DEF i, t
    <3>4. 0 \in Age
      BY DEF Age
    <3>5. t \in Topology /\ t.age = 0 /\ t.info = i
      BY <3>2, <3>3, <3>4, TopologyType
    <3>6. QED
      BY <3>5 DEF i
  <2> HIDE DEF t
  <2> HIDE DEF kept
  <2>4. CASE SilentIn(h[1]) = {}
    <3>1. h[1].info = [m \in Nodes(h[1]) \ SilentIn(h[1]) |-> h[1].info[m]]
      BY <2>2, <2>4
    <3>2. /\ Purged(h).history = kept /\ Purged(h).thread = "alive"
          /\ Purged(h).silent = SilentIn(h[1])
      BY <2>1, <2>4
    <3>3. kept[1] = h[1] /\ IsHistory(kept)
      BY <1>3, <1>5
    <3>4. Purged(h).history[1] = h[1] /\ IsHistory(Purged(h).history)
      BY <3>2, <3>3
    <3>5. Purged(h).history # <<>>
      BY <1>5, <3>2
    <3>6. Purged(h).history[1].info =
            [m \in Nodes(h[1]) \ SilentIn(h[1]) |-> h[1].info[m]]
      BY <3>1, <3>4
    <3>7. h[1].age <= h[1].age
      BY <1>1, TopologyType DEF Age
    <3>8. QED
      BY <3>2, <3>4, <3>5, <3>6, <3>7
  <2>5. CASE SilentIn(h[1]) # {}
    <3>1. IsHistory(AddFirst(t, kept)) /\ AddFirst(t, kept) # <<>> /\ AddFirst(t, kept)[1] = t
      BY <1>3, <2>3, AddFirstType
    <3>2. /\ Purged(h).history = AddFirst(t, kept) /\ Purged(h).thread = "alive"
          /\ Purged(h).silent = SilentIn(h[1])
      BY <2>1, <2>5
    <3>3. 0 <= h[1].age
      BY <1>1, TopologyType DEF Age
    <3>4. QED
      BY <2>3, <2>5, <3>1, <3>2, <3>3
  <2>6. QED
    BY <2>4, <2>5
<1>6. QED
  BY <1>4, <1>5

-----------------------------------------------------------------------------
(***************************************************************************)
(* The inductive invariant.  A thread that is past its test finds the      *)
(* history not empty, unless the purging thread has emptied it and died;   *)
(* the reader computes statistics of a tree, unless nodes were purged      *)
(* since its test; and no report is older than the first topology.         *)
(***************************************************************************)
Tested ==
  /\ history = <<>> /\ purger = "alive" =>
       /\ reader \notin {"logging", "first", "statistics", "printing", "finishing"}
       /\ trigger # "extracting"
  /\ reader = "statistics" =>
       cut \/ history = <<>> \/ IsConsistent(history[1])

Covered == history # <<>> => \A n \in DOMAIN heard : history[1].age <= heard[n].age

HistoryInv == TypeOK /\ Tested /\ LastReportKept /\ Covered

LEMMA TypesAre ==
  TypeOK <=> /\ IsHistory(history)
             /\ reader \in {"line", "logging", "first", "statistics", "print",
                            "printing", "finish", "finishing", "dead"}
             /\ trigger \in {"wait", "extract", "extracting", "dead"}
             /\ purger \in {"alive", "dead"}
             /\ heard \in Infos
             /\ cut \in BOOLEAN
BY DEF TypeOK, IsHistory, Sorted, Infos

LEMMA InitHolds == Init => HistoryInv
<1> SUFFICES ASSUME Init PROVE HistoryInv
  OBVIOUS
<1>1. IsHistory(history)
  BY DEF Init, IsHistory, Sorted
<1>2. heard \in Infos
  <2>1. DOMAIN heard = {} /\ heard \in [DOMAIN heard -> Info]
    BY DEF Init
  <2>2. QED
    BY <2>1, InfosAre
<1>3. TypeOK
  BY <1>1, <1>2, TypesAre DEF Init
<1>4. QED
  BY <1>3 DEF Init, HistoryInv, Tested, LastReportKept, Covered

LEMMA ReportKeeps ==
  ASSUME HistoryInv, NEW l \in Link, Report(l[1], l[2])
  PROVE  HistoryInv'
<1> DEFINE n == l[1]
           p == l[2]
           known == IF history = <<>> THEN [m \in {} |-> 0] ELSE history[1].info
           t == [age |-> 0, info |-> With(known, n, p)]
<1>1. TypeOK /\ IsHistory(history) /\ heard \in Infos
  BY TypesAre DEF HistoryInv
<1>2. n \in Node /\ p \in Node \cup {Sink}
  OBVIOUS
<1>3. history # <<>> => history[1] \in Topology /\ Len(history) \in Nat \ {0}
                        /\ DOMAIN history = 1 .. Len(history)
  BY <1>1 DEF IsHistory
<1>4. known = [m \in {} |-> 0] \/ known \in Infos
  BY <1>3, TopologyType
<1> HIDE DEF known, n, p
<1>5. t \in Topology /\ t.age = 0 /\ t.info = With(known, n, p)
  BY <1>2, <1>4, WithType, TopologyType DEF Age
<1>6. IsHistory(history') /\ history' # <<>> /\ history'[1] = t
  <2>1. CASE history = <<>>
    <3>1. history' = <<t>>
      BY <2>1 DEF Report, known, n, p
    <3> HIDE DEF t
    <3>2. <<t>> \in Seq(Topology) /\ Len(<<t>>) = 1 /\ Sorted(<<t>>)
      BY <1>5 DEF Sorted, Topology, Age
    <3>3. QED
      BY <3>1, <3>2 DEF IsHistory
  <2>2. CASE history # <<>> /\ history' = AddFirst(t, history)
    BY <1>1, <1>5, <2>2, AddFirstType
  <2>3. CASE history # <<>> /\ history' = [history EXCEPT ![1] = t]
    <3> HIDE DEF t
    <3>1. /\ history' \in Seq(Topology) /\ Len(history') = Len(history)
          /\ DOMAIN history' = DOMAIN history
          /\ history'[1] = t /\ \A i \in DOMAIN history : i # 1 => history'[i] = history[i]
      BY <1>1, <1>3, <1>5, <2>3 DEF IsHistory
    <3>2. Sorted(history')
      <4> SUFFICES ASSUME NEW i \in DOMAIN history, NEW j \in DOMAIN history, i < j
                   PROVE  history'[i].age <= history'[j].age
        BY <3>1 DEF Sorted
      <4>1. j # 1 /\ history[j] \in Topology
        BY <1>1, <1>3, <2>3 DEF IsHistory
      <4>2. CASE i = 1
        <5>1. history'[i].age = 0 /\ history'[j] = history[j]
          BY <1>5, <3>1, <4>1, <4>2
        <5>2. history[j].age \in Age
          BY <4>1, TopologyType
        <5>3. QED
          BY <5>1, <5>2 DEF Age
      <4>3. CASE i # 1
        BY <1>1, <3>1, <4>1, <4>3 DEF IsHistory, Sorted
      <4>4. QED
        BY <4>2, <4>3
    <3>3. history' # <<>> /\ Len(history') <= MaxTopologies
      BY <1>1, <1>3, <2>3, <3>1 DEF IsHistory
    <3>4. QED
      BY <3>1, <3>2, <3>3 DEF IsHistory
  <2>4. QED
    BY <2>1, <2>2, <2>3 DEF Report, known, n, p
<1>7. heard' = With(heard, n, p)
  BY DEF Report, n, p
<1>8. heard' \in Infos
  BY <1>1, <1>2, <1>7, WithType
<1>9. reader = "line" /\ UNCHANGED <<reader, trigger, purger, cut>>
  BY DEF Report
<1>10. TypeOK'
  <2>1. /\ reader \in {"line", "logging", "first", "statistics", "print", "printing",
                       "finish", "finishing", "dead"}
        /\ trigger \in {"wait", "extract", "extracting", "dead"}
        /\ purger \in {"alive", "dead"} /\ cut \in BOOLEAN
    BY <1>1, TypesAre
  <2>2. QED
    BY <1>6, <1>8, <1>9, <2>1 DEF TypeOK, IsHistory, Sorted, Infos
<1>11. Tested'
  BY <1>6, <1>9 DEF Tested
<1>12. Covered'
  <2>1. history'[1].age = 0
    BY <1>5, <1>6
  <2>2. \A m \in DOMAIN heard' : heard'[m].age \in Age
    BY <1>8, InfosAre DEF Info
  <2>3. QED
    BY <2>1, <2>2 DEF Covered, Age
<1>13. LastReportKept'
  <2> SUFFICES ASSUME purger' = "alive", NEW m \in DOMAIN heard'
               PROVE  LET known1 == IF history' = <<>> THEN [k \in {} |-> 0]
                                    ELSE history'[1].info
                      IN  IF m \in DOMAIN known1 THEN known1[m] = heard'[m]
                          ELSE heard'[m].age >= Silence
    BY DEF LastReportKept
  <2>1. history' # <<>> /\ history'[1].info = With(known, n, p)
    BY <1>5, <1>6
  <2>2. \A k \in DOMAIN heard : IF k \in DOMAIN known THEN known[k] = heard[k]
                                ELSE heard[k].age >= Silence
    BY <1>9 DEF HistoryInv, LastReportKept, known
  <2>3. QED
    BY <1>7, <2>1, <2>2 DEF With
<1>14. QED
  BY <1>10, <1>11, <1>12, <1>13 DEF HistoryInv

LEMMA PurgeKeeps == ASSUME HistoryInv, Purge PROVE HistoryInv'
<1> DEFINE r == Purged(history)
<1>1. TypeOK /\ IsHistory(history) /\ history # <<>> /\ purger = "alive" /\ heard \in Infos
  BY TypesAre DEF HistoryInv, Purge
<1>2. /\ IsHistory(r.history)
      /\ \/ /\ r.thread = "dead"
            /\ r.history = <<>>
            /\ history[1].age > Window
         \/ /\ r.thread = "alive"
            /\ r.history # <<>>
            /\ r.history[1].age <= history[1].age
            /\ r.silent = SilentIn(history[1])
            /\ r.history[1] = history[1] \/ r.silent # {}
            /\ r.history[1].info =
                 [m \in Nodes(history[1]) \ SilentIn(history[1]) |-> history[1].info[m]]
  BY <1>1, PurgedIs
<1>3. /\ history' = r.history /\ purger' = r.thread
      /\ cut' = (cut \/ (reader = "statistics" /\ r.silent # {}))
      /\ UNCHANGED <<reader, trigger, heard>>
  BY DEF Purge
<1> HIDE DEF r
<1>4. TypeOK'
  <2>1. /\ reader \in {"line", "logging", "first", "statistics", "print", "printing",
                       "finish", "finishing", "dead"}
        /\ trigger \in {"wait", "extract", "extracting", "dead"}
        /\ cut' \in BOOLEAN /\ purger' \in {"alive", "dead"}
    BY <1>1, <1>2, <1>3, TypesAre
  <2>2. IsHistory(history')
    BY <1>2, <1>3
  <2>3. QED
    BY <1>1, <1>3, <2>1, <2>2 DEF TypeOK, IsHistory, Sorted, Infos
<1>5. Tested'
  <2>1. reader = "statistics" => cut \/ IsConsistent(history[1])
    BY <1>1 DEF HistoryInv, Tested
  <2>2. QED
    BY <1>1, <1>2, <1>3, <2>1 DEF HistoryInv, Tested
<1>6. Covered'
  <2> SUFFICES ASSUME history' # <<>>, NEW n \in DOMAIN heard
               PROVE  history'[1].age <= heard[n].age
    BY <1>3 DEF Covered
  <2>1. history'[1].age <= history[1].age
    BY <1>2, <1>3
  <2>2. history[1].age <= heard[n].age
    BY <1>1 DEF HistoryInv, Covered
  <2>3. history[1].age \in Age /\ history'[1].age \in Age /\ heard[n].age \in Age
    <3>1. history[1] \in Topology /\ history'[1] \in Topology
      BY <1>1, <1>2, <1>3 DEF IsHistory
    <3>2. heard[n].age \in Age
      BY <1>1, InfosAre DEF Info
    <3>3. QED
      BY <3>1, <3>2, TopologyType
  <2>4. QED
    BY <2>1, <2>2, <2>3 DEF Age
<1>7. LastReportKept'
  <2> SUFFICES ASSUME purger' = "alive", NEW m \in DOMAIN heard'
               PROVE  LET known1 == IF history' = <<>> THEN [k \in {} |-> 0]
                                    ELSE history'[1].info
                      IN  IF m \in DOMAIN known1 THEN known1[m] = heard'[m]
                          ELSE heard'[m].age >= Silence
    BY DEF LastReportKept
  <2>1. /\ history' # <<>>
        /\ history'[1].info =
             [k \in Nodes(history[1]) \ SilentIn(history[1]) |-> history[1].info[k]]
    BY <1>2, <1>3
  <2>2. m \in DOMAIN heard
        /\ IF m \in Nodes(history[1]) THEN history[1].info[m] = heard[m]
           ELSE heard[m].age >= Silence
    BY <1>1, <1>3 DEF HistoryInv, LastReportKept, Nodes
  <2>3. QED
    BY <1>3, <2>1, <2>2 DEF SilentIn
<1>8. QED
  BY <1>4, <1>5, <1>6, <1>7 DEF HistoryInv

\* isConsistent() looks at parents only.
LEMMA ParentsDecide ==
  ASSUME NEW t, NEW u, Nodes(t) = Nodes(u),
         \A n \in Nodes(t) : t.info[n].parent = u.info[n].parent
  PROVE  IsConsistent(t) <=> IsConsistent(u)
<1>1. Parents(t) = Parents(u)
  BY DEF Parents
<1>2. QED
  BY <1>1 DEF IsConsistent

LEMMA TickKeeps == ASSUME HistoryInv, Tick PROVE HistoryInv'
<1>1. TypeOK /\ IsHistory(history) /\ heard \in Infos
  BY TypesAre DEF HistoryInv
<1>2. /\ Len(history) \in Nat /\ DOMAIN history = 1 .. Len(history)
      /\ \A i \in DOMAIN history : history[i] \in Topology /\ history[i].age \in Age
                                   /\ history[i].info \in Infos
  BY <1>1, TopologyType DEF IsHistory
<1>3. /\ history' = [i \in DOMAIN history |->
                       [age |-> Older(history[i].age), info |-> OlderInfo(history[i].info)]]
      /\ heard' = OlderInfo(heard)
      /\ UNCHANGED <<reader, trigger, purger, cut>>
  BY DEF Tick
<1>4. \A i \in DOMAIN history :
        /\ history'[i].age = Older(history[i].age)
        /\ history'[i].info = OlderInfo(history[i].info)
        /\ history'[i] \in Topology
  BY <1>2, <1>3, OlderType, OlderInfoType, TopologyType
<1>5. DOMAIN history' = 1 .. Len(history) /\ history' \in Seq(Topology)
      /\ Len(history') = Len(history)
  BY <1>2, <1>3, <1>4
<1>6. IsHistory(history')
  <2>1. Sorted(history')
    BY <1>1, <1>2, <1>4, <1>5, OlderType DEF Sorted, IsHistory
  <2>2. QED
    BY <1>1, <1>5, <2>1 DEF IsHistory
<1>7. history' = <<>> <=> history = <<>>
  BY <1>1, <1>5 DEF IsHistory
<1>8. TypeOK'
  <2>1. /\ reader \in {"line", "logging", "first", "statistics", "print", "printing",
                       "finish", "finishing", "dead"}
        /\ trigger \in {"wait", "extract", "extracting", "dead"}
        /\ cut \in BOOLEAN /\ purger \in {"alive", "dead"}
    BY <1>1, TypesAre
  <2>2. heard' \in Infos
    BY <1>1, <1>3, OlderInfoType
  <2>3. QED
    BY <1>3, <1>6, <2>1, <2>2 DEF TypeOK, IsHistory, Sorted, Infos
<1>9. Tested'
  <2>1. history # <<>> => (IsConsistent(history[1]) <=> IsConsistent(history'[1]))
    <3> SUFFICES ASSUME history # <<>>
                 PROVE  IsConsistent(history[1]) <=> IsConsistent(history'[1])
      OBVIOUS
    <3>1. 1 \in DOMAIN history
      BY <1>1 DEF IsHistory
    <3>2. /\ Nodes(history[1]) = Nodes(history'[1])
          /\ \A n \in Nodes(history[1]) :
               history[1].info[n].parent = history'[1].info[n].parent
      <4> DEFINE i == history[1].info
      <4>1. i \in Infos /\ history'[1].info = OlderInfo(i)
        BY <1>2, <1>4, <3>1
      <4> HIDE DEF i
      <4>2. /\ DOMAIN OlderInfo(i) = DOMAIN i
            /\ \A n \in DOMAIN i : OlderInfo(i)[n].parent = i[n].parent
        <5>1. \A n \in DOMAIN i : OlderInfo(i)[n] =
                                     [parent |-> i[n].parent, age |-> Older(i[n].age)]
          BY <4>1, OlderInfoType
        <5>2. DOMAIN OlderInfo(i) = DOMAIN i
          BY <4>1, OlderInfoType
        <5>3. QED
          BY <5>1, <5>2
      <4>3. QED
        BY <4>1, <4>2 DEF Nodes, i
    <3>3. QED
      <4> DEFINE t == history[1]
                 u == history'[1]
      <4>1. Nodes(t) = Nodes(u) /\ \A n \in Nodes(t) : t.info[n].parent = u.info[n].parent
        BY <3>2
      <4> HIDE DEF t, u
      <4>2. IsConsistent(t) <=> IsConsistent(u)
        BY <4>1, ParentsDecide
      <4>3. QED
        BY <4>2 DEF t, u
  <2>2. QED
    BY <1>3, <1>7, <2>1 DEF HistoryInv, Tested
<1>10. Covered'
  <2> SUFFICES ASSUME history' # <<>>, NEW m \in DOMAIN heard'
               PROVE  history'[1].age <= heard'[m].age
    BY DEF Covered
  <2>1. m \in DOMAIN heard /\ heard[m].age \in Age
        /\ heard'[m].age = Older(heard[m].age)
    <3>1. m \in DOMAIN heard
      BY <1>1, <1>3, OlderInfoType
    <3>2. heard'[m] = [parent |-> heard[m].parent, age |-> Older(heard[m].age)]
      BY <1>1, <1>3, <3>1, OlderInfoType
    <3>3. QED
      BY <1>1, <3>1, <3>2, OlderInfoType
  <2>2. history # <<>> /\ 1 \in DOMAIN history
    BY <1>1, <1>7 DEF IsHistory
  <2>3. history[1].age \in Age /\ history'[1].age = Older(history[1].age)
    BY <1>2, <1>4, <2>2
  <2>4. history[1].age <= heard[m].age
    BY <2>1, <2>2 DEF HistoryInv, Covered
  <2>5. QED
    BY <2>1, <2>3, <2>4, OlderType
<1>11. LastReportKept'
  <2> SUFFICES ASSUME purger' = "alive", NEW m \in DOMAIN heard'
               PROVE  LET known1 == IF history' = <<>> THEN [k \in {} |-> 0]
                                    ELSE history'[1].info
                      IN  IF m \in DOMAIN known1 THEN known1[m] = heard'[m]
                          ELSE heard'[m].age >= Silence
    BY DEF LastReportKept
  <2>1. m \in DOMAIN heard /\ heard[m].age \in Age
        /\ heard'[m] = [parent |-> heard[m].parent, age |-> Older(heard[m].age)]
    BY <1>1, <1>3, OlderInfoType
  <2>2. heard[m].age >= Silence => heard'[m].age >= Silence
    BY <2>1, OlderType DEF Age
  <2>3. CASE history = <<>>
    BY <1>3, <1>7, <2>1, <2>2, <2>3 DEF HistoryInv, LastReportKept
  <2>4. CASE history # <<>>
    <3> DEFINE i == history[1].info
    <3>1. 1 \in DOMAIN history
      BY <1>1, <2>4 DEF IsHistory
    <3>2. i \in Infos /\ history'[1].info = OlderInfo(i)
      BY <1>2, <1>4, <3>1
    <3>3. IF m \in DOMAIN i THEN i[m] = heard[m] ELSE heard[m].age >= Silence
      BY <1>3, <2>1, <2>4 DEF HistoryInv, LastReportKept
    <3> HIDE DEF i
    <3>4. /\ DOMAIN OlderInfo(i) = DOMAIN i
          /\ m \in DOMAIN i =>
               OlderInfo(i)[m] = [parent |-> i[m].parent, age |-> Older(i[m].age)]
      BY <3>2, OlderInfoType
    <3>5. QED
      BY <1>7, <2>1, <2>2, <2>4, <3>2, <3>3, <3>4
  <2>5. QED
    BY <2>3, <2>4
<1>12. QED
  BY <1>8, <1>9, <1>10, <1>11 DEF HistoryInv

LEMMA ThreadsKeep ==
  ASSUME HistoryInv,
         \/ PacketLine \/ LogTopology
         \/ PhaseOver \/ GetFirst \/ Statistics \/ TestPrint \/ PrintTopology
         \/ TestFinish \/ CollectionFinished \/ Trigger
  PROVE  HistoryInv'
<1>1. UNCHANGED <<history, purger, heard>>
  BY DEF PacketLine, LogTopology, PhaseOver, GetFirst, Statistics, TestPrint,
         PrintTopology, TestFinish, CollectionFinished, ReaderTests, ReaderGets,
         ReaderGoesTo, Trigger, Prepare, TestExtract, Extract, TriggerGoesTo
<1>2. TypeOK /\ purger \in {"alive", "dead"}
  BY TypesAre DEF HistoryInv
<1>3. TypeOK'
  BY <1>1, <1>2
     DEF TypeOK, PacketLine, LogTopology, PhaseOver, GetFirst, Statistics, TestPrint,
         PrintTopology, TestFinish, CollectionFinished, ReaderTests, ReaderGets,
         ReaderGoesTo, Trigger, Prepare, TestExtract, Extract, TriggerGoesTo
<1>4. Tested' /\ Covered'
  <2>1. CASE \/ PacketLine \/ LogTopology \/ PhaseOver \/ TestPrint \/ PrintTopology
             \/ TestFinish \/ CollectionFinished
    BY <1>1, <1>2, <2>1
       DEF HistoryInv, Tested, Covered, PacketLine, LogTopology, PhaseOver, TestPrint,
           PrintTopology, TestFinish, CollectionFinished, ReaderTests, ReaderGets,
           ReaderGoesTo
  <2>2. CASE GetFirst \/ Statistics
    BY <1>1, <1>2, <2>2
       DEF HistoryInv, Tested, Covered, GetFirst, Statistics, ReaderGoesTo
  <2>3. CASE Trigger
    BY <1>1, <1>2, <2>3
       DEF HistoryInv, Tested, Covered, Trigger, Prepare, TestExtract, Extract,
           TriggerGoesTo
  <2>4. QED
    BY <2>1, <2>2, <2>3
<1>5. LastReportKept'
  BY <1>1 DEF HistoryInv, LastReportKept
<1>6. QED
  BY <1>3, <1>4, <1>5 DEF HistoryInv

THEOREM Invariant == Spec => []HistoryInv
<1>1. HistoryInv /\ [Next]_vars => HistoryInv'
  <2> SUFFICES ASSUME HistoryInv, [Next]_vars PROVE HistoryInv'
    OBVIOUS
  <2>1. CASE Reader
    BY <2>1, ReportKeeps, ThreadsKeep DEF Reader
  <2>2. CASE Purge
    BY <2>2, PurgeKeeps
  <2>3. CASE Trigger
    BY <2>3, ThreadsKeep
  <2>4. CASE Tick
    BY <2>4, TickKeeps
  <2>5. CASE UNCHANGED vars
    BY <2>5 DEF HistoryInv, TypeOK, Tested, LastReportKept, Covered, vars
  <2>6. QED
    BY <2>1, <2>2, <2>3, <2>4, <2>5 DEF Next
<1>2. QED
  BY InitHolds, <1>1, PTL DEF Spec

\* Every variable has its type, and the first topology is the newest: what the purging
\* thread, which looks for the first outdated one, and getFirst() rely on.
THEOREM TypeCorrect == Spec => []TypeOK
BY Invariant, PTL DEF HistoryInv

\* Whatever the sizes and the times: while the purging thread lives, no report that is not
\* too old is lost from the first topology.
THEOREM LastReportKeptHolds == Spec => []LastReportKept
BY Invariant, PTL DEF HistoryInv

\* Whatever the times and the reports: the purging thread dies only of a network that was
\* silent for longer than the time window, a trigger's thread only after that, and the
\* reader only after that or when nodes were purged since its test for consistency.
THEOREM ThreadsSurviveHolds == Spec => ThreadsSurvive
<1> DEFINE Dies ==
      /\ purger' # purger => \A n \in DOMAIN heard : heard[n].age > Window
      /\ trigger' # trigger /\ trigger' = "dead" => purger = "dead" /\ history = <<>>
      /\ reader' # reader /\ reader' = "dead" =>
           cut \/ (purger = "dead" /\ history = <<>>)
<1>1. ASSUME HistoryInv, [Next]_vars PROVE Dies \/ UNCHANGED vars
  <2>1. CASE Purge
    <3>1. IsHistory(history) /\ history # <<>> /\ purger = "alive" /\ heard \in Infos
      BY <1>1, <2>1, TypesAre DEF HistoryInv, Purge
    <3>2. ASSUME purger' # purger, NEW n \in DOMAIN heard PROVE heard[n].age > Window
      <4>1. history[1].age > Window
        BY <2>1, <3>1, <3>2, PurgedIs DEF Purge
      <4>2. history[1].age <= heard[n].age
        BY <1>1, <3>1 DEF HistoryInv, Covered
      <4>3. history[1].age \in Age /\ heard[n].age \in Age
        <5>1. history[1] \in Topology
          BY <3>1 DEF IsHistory
        <5>2. heard[n].age \in Age
          BY <3>1, InfosAre DEF Info
        <5>3. QED
          BY <5>1, <5>2, TopologyType
      <4>4. QED
        BY <4>1, <4>2, <4>3 DEF Age
    <3>3. QED
      BY <2>1, <3>2 DEF Purge
  <2>2. CASE Trigger
    BY <1>1, <2>2, TypesAre
       DEF HistoryInv, Tested, Trigger, Prepare, TestExtract, Extract, TriggerGoesTo
  <2>3. CASE \/ Tick \/ \E l \in Link : Report(l[1], l[2])
    BY <2>3 DEF Tick, Report
  <2>4. CASE \/ PacketLine \/ LogTopology \/ PhaseOver \/ GetFirst \/ Statistics
             \/ TestPrint \/ PrintTopology \/ TestFinish \/ CollectionFinished
    BY <1>1, <2>4, TypesAre
       DEF HistoryInv, Tested, PacketLine, LogTopology, PhaseOver, GetFirst, Statistics,
           TestPrint, PrintTopology, TestFinish, CollectionFinished, ReaderTests,
           ReaderGets, ReaderGoesTo
  <2>5. QED
    BY <1>1, <2>1, <2>2, <2>3, <2>4 DEF Next, Reader
<1>2. QED
  BY <1>1, Invariant, PTL DEF Spec, ThreadsSurvive

\* All topologies handed over are trees, whatever the reports, and no tree is withheld.
THEOREM HandedOverAreTreesHolds == Spec => []HandedOverAreTrees
<1>1. TypeOK => HandedOverAreTrees
  <2> SUFFICES ASSUME TypeOK PROVE HandedOverAreTrees
    OBVIOUS
  <2>1. IsHistory(history)
    BY TypesAre
  <2>2. ASSUME NEW i \in DOMAIN history
        PROVE  IsConsistent(history[i]) <=> IsTree(history[i])
    <3>1. Nodes(history[i]) \subseteq Node
      BY <2>1, TopologyType, InfosAre DEF IsHistory, Nodes
    <3>2. IsFiniteSet(Nodes(history[i])) /\ Sink \notin Nodes(history[i])
      BY <3>1, FS_Subset
    <3>3. QED
      BY <3>2, ConsistentIsTree
  <2>3. history # <<>> => 1 \in DOMAIN history
    BY <2>1 DEF IsHistory
  <2>4. \A t \in HandedOver(history) :
          \E i \in DOMAIN history : t = history[i] /\ IsConsistent(history[i])
    BY DEF HandedOver
  <2>5. \A t \in HandedOver(history) : IsTree(t)
    BY <2>2, <2>4
  <2>6. history # <<>> /\ IsTree(history[1]) => history[1] \in HandedOver(history)
    BY <2>2, <2>3 DEF HandedOver
  <2>7. QED
    BY <2>5, <2>6 DEF HandedOverAreTrees
<1>2. QED
  BY <1>1, TypeCorrect, PTL
=============================================================================
