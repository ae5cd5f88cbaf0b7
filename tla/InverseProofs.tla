---------------------------- MODULE InverseProofs ----------------------------
(***************************************************************************)
(* From an archive to what decompress() returns, for any wiring, order of  *)
(* ports, explicit bindings, archive sizes and inverse kernels.            *)
(***************************************************************************)
EXTENDS InverseDag, DagProofs, SumLemmas, SequenceTheorems

-----------------------------------------------------------------------------
(***************************************************************************)
(* A finite set in the order of a relation.                                *)
(***************************************************************************)
StrictOrder(S, R) ==
    /\ \A x \in S : <<x, x>> \notin R
    /\ \A x, y, z \in S : <<x, y>> \in R /\ <<y, z>> \in R => <<x, z>> \in R
    /\ \A x, y \in S : x # y => <<x, y>> \in R \/ <<y, x>> \in R

\* q lists S once, in the order R.
Lists(q, S, R) ==
    /\ q \in Seq(S) /\ Len(q) = Cardinality(S)
    /\ \A x \in S : \E i \in 1..Len(q) : q[i] = x
    /\ \A i, j \in 1..Len(q) : i < j => <<q[i], q[j]>> \in R

LEMMA ArrangedLists ==
    ASSUME NEW S, IsFiniteSet(S), NEW R, StrictOrder(S, R)
    PROVE  Lists(Arranged(S, R), S, R)
<1> DEFINE n == Cardinality(S)
           Before(x) == {y \in S : <<y, x>> \in R}
           rank == [x \in S |-> Cardinality(Before(x))]
           q == Arranged(S, R)
<1>1. n \in Nat
  BY FS_CardinalityType
<1>2. ASSUME NEW x \in S
      PROVE  IsFiniteSet(Before(x)) /\ rank[x] \in 0..(n - 1)
  <2>1. Before(x) \in SUBSET S /\ x \notin Before(x)
    BY DEF StrictOrder
  <2>2. IsFiniteSet(Before(x)) /\ Cardinality(Before(x)) <= n
        /\ (n = Cardinality(Before(x)) => S = Before(x))
    BY <2>1, FS_Subset
  <2>3. Cardinality(Before(x)) \in Nat
    BY <2>2, FS_CardinalityType
  <2>4. n # Cardinality(Before(x))
    BY <2>1, <2>2
  <2> QED
    BY <1>1, <2>2, <2>3, <2>4
<1>3. ASSUME NEW x \in S, NEW z \in S, <<x, z>> \in R
      PROVE  rank[x] < rank[z]
  <2>1. Before(x) \in SUBSET Before(z) /\ x \in Before(z) /\ x \notin Before(x)
    BY <1>3 DEF StrictOrder
  <2>2. IsFiniteSet(Before(z)) /\ IsFiniteSet(Before(x))
    BY <1>2
  <2> HIDE DEF Before
  <2>3. Cardinality(Before(x)) <= Cardinality(Before(z))
        /\ (Cardinality(Before(z)) = Cardinality(Before(x)) => Before(z) = Before(x))
    BY <2>1, <2>2, FS_Subset
  <2>4. Cardinality(Before(x)) \in Nat /\ Cardinality(Before(z)) \in Nat
    BY <2>2, FS_CardinalityType
  <2>5. Cardinality(Before(z)) # Cardinality(Before(x))
    BY <2>1, <2>3
  <2>6. rank[x] = Cardinality(Before(x)) /\ rank[z] = Cardinality(Before(z))
    OBVIOUS
  <2> QED
    BY <2>3, <2>4, <2>5, <2>6
<1>4. \A x \in S : rank[x] \in Int
  BY <1>1, <1>2
<1>5. rank \in [S -> 0..(n - 1)]
  <2>1. rank = [x \in S |-> rank[x]]
    OBVIOUS
  <2> HIDE DEF rank
  <2> QED
    BY <1>2, <2>1
<1>6. q = [i \in 1..n |-> CHOOSE x \in S : Cardinality(Before(x)) = i - 1]
  BY DEF Arranged
<1>6a. \A x \in S : rank[x] = Cardinality(Before(x))
  <2> HIDE DEF Before
  <2> QED
    OBVIOUS
<1> HIDE DEF rank, q, n, Before
<1>7. \A x, z \in S : rank[x] = rank[z] => x = z
  <2> SUFFICES ASSUME NEW x \in S, NEW z \in S, x # z PROVE rank[x] # rank[z]
    OBVIOUS
  <2>1. <<x, z>> \in R \/ <<z, x>> \in R
    BY DEF StrictOrder
  <2>2. rank[x] < rank[z] \/ rank[z] < rank[x]
    BY <1>3, <2>1
  <2> QED
    BY <1>4, <2>2
<1>8. \A k \in 0..(n - 1) : \E x \in S : rank[x] = k
  <2> DEFINE T == 0..(n - 1)
  <2>1. IsFiniteSet(T) /\ Cardinality(T) = n
    <3>1. IsFiniteSet(T) /\ Cardinality(T) = IF 0 > n - 1 THEN 0 ELSE (n - 1) - 0 + 1
      BY <1>1, FS_Interval
    <3> QED
      BY <1>1, <3>1
  <2>2. rank \in Injection(S, T)
    BY <1>5, <1>7 DEF Injection, IsInjective
  <2> HIDE DEF T
  <2>3. rank \in Surjection(S, T)
    BY <2>1, <2>2, FS_Injection DEF n
  <2> QED
    BY <2>3 DEF Surjection, T
<1>9. ASSUME NEW i \in 1..n PROVE q[i] \in S /\ rank[q[i]] = i - 1
  <2>1. i - 1 \in 0..(n - 1)
    BY <1>1
  <2>2. \E x \in S : Cardinality(Before(x)) = i - 1
    BY <1>6a, <1>8, <2>1
  <2>3. q[i] = CHOOSE x \in S : Cardinality(Before(x)) = i - 1
    BY <1>6
  <2>4. q[i] \in S /\ Cardinality(Before(q[i])) = i - 1
    BY <2>2, <2>3
  <2> QED
    BY <1>6a, <2>4
<1>10. q \in Seq(S) /\ Len(q) = n
  <2>1. q = [i \in 1..n |-> q[i]]
    BY <1>6
  <2>2. q \in [1..n -> S]
    BY <1>9, <2>1
  <2> QED
    BY <1>1, <2>2
<1>11. ASSUME NEW x \in S PROVE \E i \in 1..n : q[i] = x
  <2>1. rank[x] + 1 \in 1..n /\ (rank[x] + 1) - 1 = rank[x]
    BY <1>1, <1>5
  <2> QED
    BY <1>7, <1>9, <2>1
<1>12. ASSUME NEW i \in 1..n, NEW j \in 1..n, i < j PROVE <<q[i], q[j]>> \in R
  <2>1. rank[q[i]] < rank[q[j]]
    BY <1>1, <1>9, <1>12
  <2>2. ~(<<q[j], q[i]>> \in R) /\ q[i] # q[j]
    BY <1>3, <1>4, <1>9, <2>1
  <2> QED
    BY <1>9, <2>2 DEF StrictOrder
<1>13. Lists(q, S, R)
  BY <1>10, <1>11, <1>12 DEF Lists, n
<1> QED
  BY <1>13 DEF q

Smaller(S) == {p \in S \X S : p[1] < p[2]}

LEMMA AscendingLists ==
    ASSUME NEW S, IsFiniteSet(S), S \subseteq Int
    PROVE  Lists(Ascending(S), S, Smaller(S)) /\ ToSet(Ascending(S)) = S
<1>1. StrictOrder(S, Smaller(S))
  BY DEF StrictOrder, Smaller
<1>2. Lists(Arranged(S, Smaller(S)), S, Smaller(S))
  BY <1>1, ArrangedLists
<1>3. Lists(Ascending(S), S, Smaller(S))
  BY <1>2 DEF Ascending, Smaller
<1> DEFINE q == Ascending(S)
<1>4. q \in Seq(S) /\ \A x \in S : \E i \in 1..Len(q) : q[i] = x
  BY <1>3 DEF Lists
<1> HIDE DEF q
<1>5. DOMAIN q = 1..Len(q) /\ \A i \in 1..Len(q) : q[i] \in S
  BY <1>4
<1>6. ToSet(q) = S
  BY <1>4, <1>5 DEF ToSet
<1> QED
  BY <1>3, <1>6 DEF q

-----------------------------------------------------------------------------
(***************************************************************************)
(* A planned wiring, and the descriptions of it that the inverse is built  *)
(* from.                                                                   *)
(***************************************************************************)
ReadyPlan ==
    /\ g \in Graphs /\ "ports" \in DOMAIN g
    /\ level \in [Nodes -> Int]
    /\ Acyclic

LEMMA PortedWiring ==
    ASSUME ReadyPlan
    PROVE  IsWiring(g) /\ IsPorted(g)
  BY DagAssumption, InverseDagAssumption DEF ReadyPlan

LEMMA PortFacts ==
    ASSUME ReadyPlan, NEW n \in Nodes
    PROVE  /\ g.ports[n] \in Seq(g.bufs) /\ Len(g.ports[n]) \in Nat \ {0}
           /\ \A j \in 1..Len(g.ports[n]) : g.ports[n][j] \in g.bufs /\ n \in g.cons[g.ports[n][j]]
           /\ \A b \in g.bufs : n \in g.cons[b] => \E j \in 1..Len(g.ports[n]) : g.ports[n][j] = b
<1>1. IsPorted(g)
  BY PortedWiring
<1>2. g.ports[n] \in Seq(g.bufs) /\ Len(g.ports[n]) >= 1
      /\ \A b \in g.bufs : n \in g.cons[b] <=> Contains(g.ports[n], b)
  BY <1>1 DEF IsPorted, Nodes
<1>3. Len(g.ports[n]) \in Nat \ {0}
  BY <1>2
<1>4. \A j \in 1..Len(g.ports[n]) : g.ports[n][j] \in g.bufs
  BY <1>2
<1>5. \A b : Contains(g.ports[n], b) <=> \E j \in 1..Len(g.ports[n]) : g.ports[n][j] = b
  BY DEF Contains
<1> QED
  BY <1>2, <1>3, <1>4, <1>5

LEMMA OutputFacts ==
    ASSUME ReadyPlan, NEW n \in Nodes
    PROVE  /\ Lists(OutputIds(n), Outputs(n), Smaller(Outputs(n)))
           /\ ToSet(OutputIds(n)) = Outputs(n)
           /\ Outputs(n) \subseteq g.bufs \ External
<1>1. IsFiniteSet(Outputs(n)) /\ Outputs(n) \subseteq Int
  <2>1. IsFiniteSet(g.bufs) /\ g.bufs \subseteq Nat
    BY PortedWiring DEF IsWiring, IsPorted
  <2>2. Outputs(n) \in SUBSET g.bufs
    BY DEF Outputs
  <2> QED
    BY <2>1, <2>2, FS_Subset
<1>2. Outputs(n) \subseteq g.bufs \ External
  BY DEF Outputs, External, Nodes
<1> QED
  BY <1>1, <1>2, AscendingLists DEF OutputIds

\* The buffers that no stage reads.
Kept == {b \in g.bufs \ External : g.cons[b] = {}}

LEMMA PipelineOutputFacts ==
    ASSUME ReadyPlan
    PROVE  Lists(OutputBufferIds, Kept, Smaller(Kept)) /\ ToSet(OutputBufferIds) = Kept
<1>1. IsFiniteSet(Kept) /\ Kept \subseteq Int
  <2>1. IsFiniteSet(g.bufs) /\ g.bufs \subseteq Nat
    BY PortedWiring DEF IsWiring, IsPorted
  <2>2. Kept \in SUBSET g.bufs
    BY DEF Kept
  <2> QED
    BY <2>1, <2>2, FS_Subset
<1>2. OutputBufferIds = Ascending(Kept)
  BY DEF OutputBufferIds, Kept
<1> QED
  BY <1>1, <1>2, AscendingLists

Earlier ==
    {p \in Nodes \X Nodes :
        \/ level[p[1]] < level[p[2]]
        \/ level[p[1]] = level[p[2]] /\ p[1] < p[2]}

LEMMA LevelOrderLists ==
    ASSUME ReadyPlan
    PROVE  Lists(LevelOrder, Nodes, Earlier) /\ Len(LevelOrder) = g.nodes
<1>1. g.nodes \in Nat /\ Nodes \subseteq Int /\ IsFiniteSet(Nodes) /\ Cardinality(Nodes) = g.nodes
  <2>1. g.nodes \in Nat \ {0}
    BY PortedWiring DEF IsWiring
  <2>2. IsFiniteSet(1..g.nodes) /\ Cardinality(1..g.nodes) = IF 1 > g.nodes THEN 0 ELSE g.nodes - 1 + 1
    BY SMTT(60), <2>1, FS_Interval
  <2> QED
    BY <2>1, <2>2 DEF Nodes
<1>2. \A n \in Nodes : level[n] \in Int /\ n \in Int
  BY <1>1 DEF ReadyPlan
<1>3. StrictOrder(Nodes, Earlier)
  <2>1. \A x, y \in Nodes : <<x, y>> \in Earlier <=>
           (level[x] < level[y] \/ (level[x] = level[y] /\ x < y))
    BY DEF Earlier
  <2>2. \A x \in Nodes : <<x, x>> \notin Earlier
    BY <1>2, <2>1
  <2>3. \A x, y, z \in Nodes : <<x, y>> \in Earlier /\ <<y, z>> \in Earlier => <<x, z>> \in Earlier
    BY <1>2, <2>1
  <2>4. \A x, y \in Nodes : x # y => <<x, y>> \in Earlier \/ <<y, x>> \in Earlier
    BY <1>2, <2>1
  <2> QED
    BY <2>2, <2>3, <2>4 DEF StrictOrder
<1>4. LevelOrder = Arranged(Nodes, Earlier)
  BY DEF LevelOrder, Earlier
<1> QED
  BY <1>1, <1>3, <1>4, ArrangedLists DEF Lists

\* q begins with p; it is p unless it has no room.
Shortened(p, q, room, limited) ==
    /\ Len(p) \in Nat /\ Len(p) <= Len(q)
    /\ \A k \in 1..Len(p) : p[k] = q[k]
    /\ Len(p) = Len(q) \/ (limited /\ Len(p) = room /\ Len(q) > room)

LEMMA UptoShortened ==
    ASSUME NEW S, NEW q \in Seq(S), NEW room \in Nat
    PROVE  Shortened(Upto(q, room), q, room, TRUE) /\ Upto(q, room) \in Seq(S)
<1>1. Len(q) \in Nat
  OBVIOUS
<1> DEFINE m == Min({Len(q), room})
<1>2. m \in {Len(q), room} /\ m <= Len(q) /\ m <= room
  <2>1. {Len(q), room} \subseteq Nat /\ {Len(q), room} # {}
    BY <1>1
  <2> QED
    BY <2>1, MinIsLeast
<1> HIDE DEF m
<1>3. m \in 0..Len(q)
  BY <1>1, <1>2
<1>4. /\ SubSeq(q, 1, m) \in Seq(S) /\ Len(SubSeq(q, 1, m)) = m
      /\ \A k \in 1..m : SubSeq(q, 1, m)[k] = q[k]
  BY <1>1, <1>3
<1>5. Upto(q, room) = SubSeq(q, 1, m)
  BY DEF Upto, m
<1> QED
  BY <1>1, <1>2, <1>3, <1>4, <1>5 DEF Shortened

\* The outputs of every stage, in the order of its ports.
Outs == [n \in Nodes |-> OutputIds(n)]

\* desc describes every stage once, in the order of levels; limited: as far as
\* the entries of a file header have room.
DescribesWiring(desc, limited, h, order, outs) ==
    /\ Len(desc) = h.nodes
    /\ \A i \in 1..Len(desc) : desc[i].stage = order[i]
    /\ \A i \in 1..Len(desc) :
          Shortened(desc[i].ins, h.ports[desc[i].stage], MaxStageInputs, limited)
    /\ \A i \in 1..Len(desc) :
          Shortened(desc[i].outs, outs[desc[i].stage], MaxStageOutputs, limited)

Describes(desc, limited) == DescribesWiring(desc, limited, g, LevelOrder, Outs)

LEMMA DescribesParts ==
    ASSUME ReadyPlan, NEW desc, NEW limited
    PROVE  Describes(desc, limited) <=>
              /\ Len(desc) = g.nodes
              /\ \A i \in 1..Len(desc) : desc[i].stage = LevelOrder[i]
              /\ \A i \in 1..Len(desc) :
                    Shortened(desc[i].ins, g.ports[desc[i].stage], MaxStageInputs, limited)
              /\ \A i \in 1..Len(desc) :
                    Shortened(desc[i].outs, OutputIds(desc[i].stage), MaxStageOutputs, limited)
<1>1. \A i \in 1..g.nodes : LevelOrder[i] \in Nodes
  <2>1. LevelOrder \in Seq(Nodes) /\ Len(LevelOrder) = g.nodes
    BY LevelOrderLists DEF Lists
  <2> QED
    BY <2>1
<1>2. \A n \in Nodes : Outs[n] = OutputIds(n)
  BY DEF Outs
<1> QED
  BY <1>1, <1>2 DEF Describes, DescribesWiring

LEMMA ForwardDescribes ==
    ASSUME ReadyPlan
    PROVE  Describes(ForwardTopology, FALSE)
<1>1. Len(LevelOrder) = g.nodes /\ g.nodes \in Nat /\ \A i \in 1..g.nodes : LevelOrder[i] \in Nodes
  <2>1. LevelOrder \in Seq(Nodes) /\ Len(LevelOrder) = g.nodes
    BY LevelOrderLists DEF Lists
  <2> QED
    BY <2>1
<1> DEFINE d == ForwardTopology
<1>2. Len(d) = g.nodes
  BY <1>1 DEF ForwardTopology
<1>3. ASSUME NEW i \in 1..g.nodes
      PROVE  /\ d[i].stage = LevelOrder[i] /\ d[i].ins = g.ports[LevelOrder[i]]
             /\ d[i].outs = OutputIds(LevelOrder[i])
  BY <1>1 DEF ForwardTopology
<1> HIDE DEF d
<1>4. \A q : Len(q) \in Nat => \A room : Shortened(q, q, room, FALSE)
  BY DEF Shortened
<1>5. \A n \in Nodes : Len(g.ports[n]) \in Nat /\ Len(OutputIds(n)) \in Nat
  BY PortFacts, OutputFacts DEF Lists
<1>6. Describes(d, FALSE)
  BY <1>1, <1>2, <1>3, <1>4, <1>5, DescribesParts
<1> QED
  BY <1>6 DEF d

LEMMA HeaderDescribes ==
    ASSUME ReadyPlan
    PROVE  Describes(HeaderStages, TRUE)
<1>1. MaxStageInputs \in Nat /\ MaxStageOutputs \in Nat /\ g.nodes \in Nat
  BY InverseDagAssumption, PortedWiring DEF IsWiring
<1>2. Describes(ForwardTopology, FALSE)
  BY ForwardDescribes
<1> DEFINE f == ForwardTopology
           d == HeaderStages
<1>3. Len(f) = g.nodes /\ \A i \in 1..g.nodes :
         f[i].stage = LevelOrder[i] /\ f[i].ins = g.ports[LevelOrder[i]]
         /\ f[i].outs = OutputIds(LevelOrder[i])
  <2>1. Len(f) = g.nodes
    BY <1>2, DescribesParts
  <2>2. Len(LevelOrder) = g.nodes
    BY LevelOrderLists
  <2> QED
    BY <1>1, <2>1, <2>2 DEF ForwardTopology
<1>4. Len(d) = g.nodes /\ \A i \in 1..g.nodes :
         /\ d[i].stage = f[i].stage /\ d[i].ins = Upto(f[i].ins, MaxStageInputs)
         /\ d[i].outs = Upto(f[i].outs, MaxStageOutputs)
  BY <1>1, <1>3 DEF HeaderStages
<1> HIDE DEF f, d
<1>5. ASSUME NEW n \in Nodes
      PROVE  /\ Shortened(Upto(g.ports[n], MaxStageInputs), g.ports[n], MaxStageInputs, TRUE)
             /\ Shortened(Upto(OutputIds(n), MaxStageOutputs), OutputIds(n), MaxStageOutputs, TRUE)
  <2>1. g.ports[n] \in Seq(g.bufs) /\ OutputIds(n) \in Seq(Outputs(n))
    BY PortFacts, OutputFacts DEF Lists
  <2> QED
    BY <1>1, <2>1, UptoShortened
<1>6. \A i \in 1..g.nodes : LevelOrder[i] \in Nodes
  <2>1. LevelOrder \in Seq(Nodes) /\ Len(LevelOrder) = g.nodes
    BY LevelOrderLists DEF Lists
  <2> QED
    BY <2>1
<1>7. Describes(d, TRUE)
  <2>1. ASSUME NEW i \in 1..g.nodes
        PROVE  /\ d[i].stage = LevelOrder[i]
               /\ Shortened(d[i].ins, g.ports[d[i].stage], MaxStageInputs, TRUE)
               /\ Shortened(d[i].outs, OutputIds(d[i].stage), MaxStageOutputs, TRUE)
    <3>1. LevelOrder[i] \in Nodes
      BY <1>6
    <3>2. f[i].stage = LevelOrder[i] /\ f[i].ins = g.ports[LevelOrder[i]]
          /\ f[i].outs = OutputIds(LevelOrder[i])
      BY <1>3
    <3>3. d[i].stage = f[i].stage /\ d[i].ins = Upto(f[i].ins, MaxStageInputs)
          /\ d[i].outs = Upto(f[i].outs, MaxStageOutputs)
      BY <1>4
    <3> QED
      BY <1>5, <3>1, <3>2, <3>3
  <2> QED
    BY <1>4, <2>1, DescribesParts
<1> QED
  BY <1>7 DEF d

LEMMA DescribedOnce ==
    ASSUME ReadyPlan, NEW desc, NEW limited, Describes(desc, limited), NEW s \in Nodes
    PROVE  \E i \in 1..Len(desc) : desc[i].stage = s /\ \A j \in 1..Len(desc) : desc[j].stage = s => j = i
<1>1. Len(desc) = g.nodes /\ \A i \in 1..Len(desc) : desc[i].stage = LevelOrder[i]
  BY DescribesParts
<1>2. /\ Len(LevelOrder) = g.nodes /\ g.nodes \in Nat
      /\ \E i \in 1..Len(LevelOrder) : LevelOrder[i] = s
      /\ \A i, j \in 1..Len(LevelOrder) : i < j => <<LevelOrder[i], LevelOrder[j]>> \in Earlier
  BY LevelOrderLists, PortedWiring DEF Lists, IsWiring
<1>3. PICK i \in 1..g.nodes : LevelOrder[i] = s
  BY <1>2
<1>4. ASSUME NEW j \in 1..g.nodes, LevelOrder[j] = s PROVE j = i
  <2>1. <<s, s>> \notin Earlier
    <3>1. level[s] \in Int
      BY DEF ReadyPlan
    <3>2. s \in Int
      BY <1>2 DEF Nodes
    <3> QED
      BY <3>1, <3>2 DEF Earlier
  <2>2. ~(i < j) /\ ~(j < i)
    BY <1>2, <1>3, <1>4, <2>1
  <2> QED
    BY <1>2, <2>2
<1>5. i \in 1..Len(desc) /\ desc[i].stage = s
  BY <1>1, <1>3
<1>6. ASSUME NEW j \in 1..Len(desc), desc[j].stage = s PROVE j = i
  <2>1. j \in 1..g.nodes /\ LevelOrder[j] = s
    BY <1>1, <1>6
  <2> QED
    BY <1>4, <2>1
<1> QED
  BY <1>5, <1>6

\* What the inverse of stage s reads.
LEMMA InverseInputsAt ==
    ASSUME ReadyPlan, NEW limited, Describes(arDesc, limited), NEW s \in Nodes
    PROVE  \E i \in 1..Len(arDesc) :
              /\ arDesc[i].stage = s
              /\ InverseInputs[s] = [k \in 1..Len(arDesc[i].outs) |-> InverseInput(arDesc[i].outs[k])]
<1> DEFINE i == CHOOSE i \in 1..Len(arDesc) : arDesc[i].stage = s
<1>1. i \in 1..Len(arDesc) /\ arDesc[i].stage = s
  BY DescribedOnce
<1>2. InverseInputs[s] = [k \in 1..Len(arDesc[i].outs) |-> InverseInput(arDesc[i].outs[k])]
  BY DEF InverseInputs
<1> QED
  BY <1>1, <1>2

-----------------------------------------------------------------------------
(***************************************************************************)
(* Archives that are refused.                                              *)
(***************************************************************************)
LEMMA SourceExists ==
    ASSUME ReadyPlan
    PROVE  \E n \in Nodes : Deps(n) = {}
<1>1. Nodes # {}
  BY PortedWiring DEF Nodes, IsWiring
<1>2. PICK n \in Nodes : Deps(n) \cap Nodes = {}
  BY <1>1 DEF ReadyPlan, Acyclic
<1> QED
  BY <1>2, PortedWiring, DepsAreNodes

LEMMA InputNodeFacts ==
    ASSUME ReadyPlan
    PROVE  /\ InputNodes \in Seq(Nodes) /\ Len(InputNodes) \in Nat \ {0}
           /\ \A n \in Nodes : Deps(n) = {} => Contains(InputNodes, n)
           /\ \A n \in Nodes : Contains(g.bound, n) => Contains(InputNodes, n)
           /\ \A n \in Nodes : Contains(InputNodes, n) => Deps(n) = {} \/ Contains(g.bound, n)
<1> DEFINE S == {n \in Nodes : Deps(n) = {} /\ ~Contains(g.bound, n)}
           a == Ascending(S)
           c == g.bound
<1>1. c \in Seq(Nodes)
  BY PortedWiring DEF IsPorted, Nodes
<1>2. a \in Seq(S) /\ \A x \in S : \E i \in 1..Len(a) : a[i] = x
  <2>1. S \in SUBSET Nodes
    OBVIOUS
  <2>2. IsFiniteSet(S) /\ S \subseteq Int
    BY <2>1, PortedWiring, FiniteParts DEF Nodes, IsWiring
  <2> HIDE DEF S
  <2> QED
    BY <2>2, AscendingLists DEF Lists
<1>3. a \in Seq(Nodes) /\ \A i \in 1..Len(a) : a[i] \in S
  <2>1. \A x \in S : x \in Nodes
    OBVIOUS
  <2> HIDE DEF a, S
  <2>2. \A i \in 1..Len(a) : a[i] \in S
    BY <1>2
  <2>3. a \in Seq(Nodes)
    BY <1>2, <2>1, <2>2
  <2> QED
    BY <2>2, <2>3
<1>4. InputNodes = a \o c
  BY DEF InputNodes
<1>5. \A x : x \in S <=> x \in Nodes /\ Deps(x) = {} /\ ~Contains(c, x)
  OBVIOUS
<1> HIDE DEF a, c, S
<1>6. /\ a \o c \in Seq(Nodes) /\ Len(a \o c) = Len(a) + Len(c) /\ Len(a) \in Nat /\ Len(c) \in Nat
      /\ \A i \in 1..(Len(a) + Len(c)) : (a \o c)[i] = IF i <= Len(a) THEN a[i] ELSE c[i - Len(a)]
  BY <1>1, <1>3, ConcatProperties
<1>7. ASSUME NEW n \in Nodes, Deps(n) = {} \/ Contains(c, n)
      PROVE  \E i \in 1..(Len(a) + Len(c)) : (a \o c)[i] = n
  <2>1. CASE Contains(c, n)
    <3>1. PICK j \in 1..Len(c) : c[j] = n
      BY <2>1 DEF Contains
    <3>2. Len(a) + j \in 1..(Len(a) + Len(c)) /\ (Len(a) + j) - Len(a) = j /\ ~(Len(a) + j <= Len(a))
      BY <1>6
    <3> QED
      BY <1>6, <3>1, <3>2
  <2>2. CASE ~Contains(c, n)
    <3>1. PICK j \in 1..Len(a) : a[j] = n
      BY <1>2, <1>5, <1>7, <2>2
    <3>2. j \in 1..(Len(a) + Len(c)) /\ j <= Len(a)
      BY <1>6
    <3> QED
      BY <1>6, <3>1, <3>2
  <2> QED
    BY <2>1, <2>2
<1>8. ASSUME NEW i \in 1..(Len(a) + Len(c))
      PROVE  Deps((a \o c)[i]) = {} \/ Contains(c, (a \o c)[i])
  <2>1. CASE i <= Len(a)
    <3>1. i \in 1..Len(a)
      BY <1>6, <2>1
    <3> QED
      BY <1>3, <1>5, <1>6, <2>1, <3>1
  <2>2. CASE ~(i <= Len(a))
    <3>1. i - Len(a) \in 1..Len(c) /\ (a \o c)[i] = c[i - Len(a)]
      BY <1>6, <2>2
    <3> QED
      BY <3>1 DEF Contains
  <2> QED
    BY <2>1, <2>2
<1>9. Len(a \o c) \in Nat \ {0}
  BY <1>6, <1>7, SourceExists
<1>10. \A n : Contains(InputNodes, n) <=> \E i \in 1..(Len(a) + Len(c)) : (a \o c)[i] = n
  BY <1>4, <1>6 DEF Contains
<1> QED
  BY <1>4, <1>6, <1>7, <1>8, <1>9, <1>10 DEF c

\* Without setPrimarySource() the primary source is a source.
LEMMA DefaultPrimary ==
    ASSUME ReadyPlan, ~Contains(InputNodes, PrimarySource)
    PROVE  g.primary # 0 /\ ~Contains(InputNodes, g.primary)
<1>1. Contains(InputNodes, InputNodes[1])
  <2>1. 1 \in 1..Len(InputNodes)
    BY InputNodeFacts
  <2> QED
    BY <2>1 DEF Contains
<1> QED
  BY <1>1 DEF PrimarySource

\* A header without the flag still shows a source.
LEMMA HeaderSource ==
    ASSUME ReadyPlan, NEW desc, NEW limited, Describes(desc, limited)
    PROVE  /\ TopologySources(desc) # <<>>
           /\ \E i \in 1..Len(desc) :
                 /\ TopologySources(desc)[1] = desc[i].stage
                 /\ \A j \in 1..Len(desc) : ToSet(desc[i].ins) \cap ToSet(desc[j].outs) = {}
<1> DEFINE produced == UNION {ToSet(desc[i].outs) : i \in 1..Len(desc)}
           S == {i \in 1..Len(desc) : ToSet(desc[i].ins) \cap produced = {}}
           q == Ascending(S)
<1>1. Len(desc) = g.nodes /\ g.nodes \in Nat
  BY PortedWiring, DescribesParts DEF IsWiring
<1>2. PICK n \in Nodes : Deps(n) = {}
  BY SourceExists
<1>3. PICK i \in 1..Len(desc) : desc[i].stage = n
  BY DescribedOnce
<1>4. ASSUME NEW b \in ToSet(desc[i].ins), NEW j \in 1..Len(desc), b \in ToSet(desc[j].outs)
      PROVE  FALSE
  <2>1. Shortened(desc[i].ins, g.ports[n], MaxStageInputs, limited)
    BY <1>3, DescribesParts
  <2>2. desc[j].stage \in Nodes
    <3>1. desc[j].stage = LevelOrder[j] /\ j \in 1..Len(LevelOrder) /\ LevelOrder \in Seq(Nodes)
      BY <1>1, LevelOrderLists, DescribesParts DEF Lists
    <3> QED
      BY <3>1
  <2>3. Shortened(desc[j].outs, OutputIds(desc[j].stage), MaxStageOutputs, limited)
    BY DescribesParts
  <2>4. b \in g.bufs /\ n \in g.cons[b]
    <3>1. PICK k \in DOMAIN desc[i].ins : b = desc[i].ins[k]
      BY DEF ToSet
    <3>2. k \in 1..Len(desc[i].ins)
      BY SMTT(60), <3>1
    <3> QED
      BY <2>1, <3>1, <3>2, PortFacts DEF Shortened
  <2>5. b \in g.bufs \ External
    <3>1. PICK k \in DOMAIN desc[j].outs : b = desc[j].outs[k]
      BY <1>4 DEF ToSet
    <3> QED
      BY <2>2, <2>3, <3>1, OutputFacts DEF Shortened, ToSet
  <2>6. g.prod[b] \in Deps(n)
    BY <2>4, <2>5 DEF Deps, Inputs
  <2> QED
    BY <1>2, <2>6
<1>5. i \in S
  BY <1>4
<1>6. S \in SUBSET (1..Len(desc))
  OBVIOUS
<1>7. IsFiniteSet(1..Len(desc))
  BY <1>1, FS_Interval
<1> HIDE DEF S
<1>8. IsFiniteSet(S) /\ S \subseteq Int
  <2>1. IsFiniteSet(S)
    BY <1>6, <1>7, FS_Subset
  <2>2. 1..Len(desc) \subseteq Int
    OBVIOUS
  <2> QED
    BY <1>6, <2>1, <2>2
<1>9. Len(q) \in Nat \ {0}
  <2>1. q \in Seq(S) /\ \E k \in 1..Len(q) : q[k] = i
    BY <1>5, <1>8, AscendingLists DEF Lists
  <2> HIDE DEF q
  <2> QED
    BY <2>1
<1>10. TopologySources(desc) = [k \in 1..Len(q) |-> desc[q[k]].stage]
  BY DEF TopologySources, S
<1>11. q[1] \in S
  <2>1. q \in Seq(S)
    BY <1>8, AscendingLists DEF Lists
  <2> HIDE DEF q
  <2> QED
    BY <1>9, <2>1
<1>12. q[1] \in 1..Len(desc) /\ \A j \in 1..Len(desc) : ToSet(desc[q[1]].ins) \cap ToSet(desc[j].outs) = {}
  <2> HIDE DEF q
  <2> QED
    BY <1>11 DEF S
<1> HIDE DEF q
<1>13. TopologySources(desc)[1] = desc[q[1]].stage /\ TopologySources(desc) # <<>>
  BY <1>9, <1>10
<1> QED
  BY <1>12, <1>13

\* An output that is nowhere is read behind the end of a header entry.
LEMMA NothingMissing ==
    ASSUME ReadyPlan, NEW limited, Describes(arDesc, limited), DOMAIN arStore = Kept,
           NEW s \in Nodes, Contains(InverseInputs[s], <<>>)
    PROVE  limited /\ \E n \in Nodes : Len(g.ports[n]) > MaxStageInputs
<1>1. PICK i \in 1..Len(arDesc) :
         /\ arDesc[i].stage = s
         /\ InverseInputs[s] = [k \in 1..Len(arDesc[i].outs) |-> InverseInput(arDesc[i].outs[k])]
  BY InverseInputsAt
<1>2. Shortened(arDesc[i].outs, OutputIds(s), MaxStageOutputs, limited)
  BY <1>1, DescribesParts
<1>3. PICK k \in 1..Len(arDesc[i].outs) : InverseInput(arDesc[i].outs[k]) = <<>>
  <2>1. Len(InverseInputs[s]) = Len(arDesc[i].outs)
    BY <1>1, <1>2 DEF Shortened
  <2> QED
    BY <1>1, <2>1 DEF Contains
<1> DEFINE b == arDesc[i].outs[k]
<1>4. b \in g.bufs \ External
  <2>1. b = OutputIds(s)[k] /\ k \in 1..Len(OutputIds(s))
    BY <1>2 DEF Shortened
  <2>2. OutputIds(s) \in Seq(Outputs(s)) /\ Outputs(s) \subseteq g.bufs \ External
    BY OutputFacts DEF Lists
  <2> QED
    BY <2>1, <2>2
<1> HIDE DEF b
<1>5. ConsumersOf(b) = {} /\ b \notin Kept
  <2>1. InverseInput(b) = <<>>
    BY <1>3 DEF b
  <2> QED
    BY <2>1 DEF InverseInput
<1>6. PICK n \in Nodes : n \in g.cons[b]
  <2>1. g.cons[b] # {}
    BY <1>4, <1>5 DEF Kept
  <2>2. g.cons[b] \subseteq Nodes
    BY <1>4, PortedWiring DEF IsWiring, Nodes
  <2> QED
    BY <2>1, <2>2
<1>7. PICK j \in 1..Len(g.ports[n]) : g.ports[n][j] = b
  BY <1>4, <1>6, PortFacts
<1>8. PICK m \in 1..Len(arDesc) : arDesc[m].stage = n
  BY DescribedOnce
<1>9. Shortened(arDesc[m].ins, g.ports[n], MaxStageInputs, limited)
  BY <1>8, DescribesParts
<1>10. CASE Len(arDesc[m].ins) = Len(g.ports[n])
  <2>1. j \in 1..Len(arDesc[m].ins) /\ arDesc[m].ins[j] = b
    BY <1>7, <1>9, <1>10 DEF Shortened
  <2>2. <<m, j>> \in ConsumersOf(b)
    <3>1. <<m, j>> \in {m} \X (1..Len(arDesc[m].ins))
      BY <2>1
    <3>2. <<m, j>> \in UNION {{a} \X (1..Len(arDesc[a].ins)) : a \in 1..Len(arDesc)}
      BY <3>1
    <3> QED
      BY <2>1, <3>2 DEF ConsumersOf
  <2> QED
    BY <1>5, <2>2
<1> QED
  BY <1>9, <1>10 DEF Shortened

-----------------------------------------------------------------------------
(***************************************************************************)
(* The archive from compress() to the inverse DAG.                         *)
(***************************************************************************)
LEMMA Unmoved ==
    ASSUME g' = g, level' = level
    PROVE  /\ Nodes' = Nodes /\ Kept' = Kept /\ LevelOrder' = LevelOrder /\ Outs' = Outs
           /\ OutputBufferIds' = OutputBufferIds /\ InputNodes' = InputNodes
           /\ PrimarySource' = PrimarySource /\ HeaderRefused' = HeaderRefused
           /\ \A n : Outputs(n)' = Outputs(n)
<1>1. Nodes' = Nodes /\ External' = External /\ \A n : Deps(n)' = Deps(n)
  BY WiringFixed
<1>2. Kept' = Kept
  BY <1>1 DEF Kept
<1>3. Earlier' = Earlier
  BY <1>1 DEF Earlier
<1>4. LevelOrder' = LevelOrder
  <2>1. LevelOrder = Arranged(Nodes, Earlier)
    BY DEF LevelOrder, Earlier
  <2>2. LevelOrder' = Arranged(Nodes', Earlier')
    BY DEF LevelOrder, Earlier
  <2> QED
    BY <1>1, <1>3, <2>1, <2>2
<1>5. \A n : Outputs(n)' = Outputs(n)
  BY DEF Outputs
<1>6. \A n : OutputIds(n)' = OutputIds(n)
  BY <1>5 DEF OutputIds
<1>7. Outs' = Outs
  BY <1>1, <1>6 DEF Outs
<1>8. OutputBufferIds' = OutputBufferIds
  <2>1. OutputBufferIds = Ascending(Kept)
    BY DEF OutputBufferIds, Kept
  <2>2. OutputBufferIds' = Ascending(Kept')
    BY DEF OutputBufferIds, Kept
  <2> QED
    BY <1>2, <2>1, <2>2
<1>9. InputNodes' = InputNodes
  <2> DEFINE S == {n \in Nodes : Deps(n) = {} /\ ~Contains(g.bound, n)}
  <2>1. S' = S
    BY <1>1
  <2>2. InputNodes = Ascending(S) \o g.bound
    BY DEF InputNodes
  <2>3. InputNodes' = Ascending(S') \o g'.bound
    BY DEF InputNodes
  <2> HIDE DEF S
  <2> QED
    BY <2>1, <2>2, <2>3
<1>10. PrimarySource' = PrimarySource
  BY <1>9 DEF PrimarySource
<1>11. HeaderRefused' = HeaderRefused
  BY <1>8 DEF HeaderRefused
<1> QED
  BY <1>1, <1>2, <1>4, <1>5, <1>7, <1>8, <1>9, <1>10, <1>11

\* A file: what is decoded went through a header.
Filed == arKind \in {"file", "preflag"}

\* Room in the entries of a header for the outputs of every stage.
OutputsFit == \A n \in Nodes : Cardinality(Outputs(n)) <= MaxStageOutputs

\* The first source a header without the flag shows, when there is only one.
LEMMA OnlySource ==
    ASSUME ReadyPlan, NEW desc, NEW limited, Describes(desc, limited), OutputsFit,
           Len(InputNodes) = 1, Contains(InputNodes, PrimarySource)
    PROVE  TopologySources(desc)[1] = PrimarySource
<1>1. PICK i \in 1..Len(desc) :
         /\ TopologySources(desc)[1] = desc[i].stage
         /\ \A j \in 1..Len(desc) : ToSet(desc[i].ins) \cap ToSet(desc[j].outs) = {}
  BY HeaderSource
<1> DEFINE n == desc[i].stage
<1>2. n \in Nodes
  <2>1. Len(desc) = g.nodes /\ n = LevelOrder[i]
    BY DescribesParts
  <2>2. LevelOrder \in Seq(Nodes) /\ Len(LevelOrder) = g.nodes
    BY LevelOrderLists DEF Lists
  <2> QED
    BY <2>1, <2>2
<1>3. Shortened(desc[i].ins, g.ports[n], MaxStageInputs, limited)
  BY DescribesParts
<1> HIDE DEF n
<1> DEFINE b == g.ports[n][1]
<1>4. b \in ToSet(desc[i].ins) /\ b \in g.bufs
  <2>1. Len(g.ports[n]) \in Nat \ {0} /\ MaxStageInputs \in Nat \ {0}
    BY <1>2, PortFacts, InverseDagAssumption
  <2>2. Len(desc[i].ins) >= 1
    BY <1>3, <2>1 DEF Shortened
  <2>3. 1 \in 1..Len(desc[i].ins) /\ 1 \in 1..Len(g.ports[n])
    BY <1>3, <2>1, <2>2 DEF Shortened
  <2>4. desc[i].ins[1] = b /\ b \in g.bufs
    BY <1>2, <1>3, <2>3, PortFacts DEF Shortened
  <2> QED
    BY <2>3, <2>4 DEF ToSet
<1> HIDE DEF b
<1>5. b \in External
  <2> SUFFICES ASSUME b \notin External PROVE FALSE
    OBVIOUS
  <2>1. PICK s \in Nodes : b \in Outputs(s)
    BY <1>4, PortedWiring DEF Outputs, External, Nodes, IsWiring
  <2>2. PICK j \in 1..Len(desc) : desc[j].stage = s
    BY DescribedOnce
  <2>3. Shortened(desc[j].outs, OutputIds(s), MaxStageOutputs, limited)
    BY <2>2, DescribesParts
  <2>4. /\ OutputIds(s) \in Seq(Outputs(s)) /\ Len(OutputIds(s)) = Cardinality(Outputs(s))
        /\ \E k \in 1..Len(OutputIds(s)) : OutputIds(s)[k] = b
    BY <2>1, OutputFacts DEF Lists
  <2>5. Len(OutputIds(s)) <= MaxStageOutputs /\ MaxStageOutputs \in Nat
    BY <2>4, InverseDagAssumption DEF OutputsFit
  <2>6. Len(desc[j].outs) = Len(OutputIds(s))
    BY <2>3, <2>4, <2>5 DEF Shortened
  <2>7. PICK k \in 1..Len(desc[j].outs) : desc[j].outs[k] = b
    BY <2>3, <2>4, <2>6 DEF Shortened
  <2>8. b \in ToSet(desc[j].outs)
    BY <2>7 DEF ToSet
  <2> QED
    BY <1>1, <1>4, <2>8
<1>6. Contains(InputNodes, n)
  <2>1. \/ Contains(g.bound, n)
        \/ \A j \in 1..Len(g.ports[n]) : g.prod[g.ports[n][j]] = 0
    BY <1>2, <1>5, PortedWiring DEF IsPorted, External, Nodes, b
  <2>2. CASE Contains(g.bound, n)
    BY <1>2, <2>2, InputNodeFacts
  <2>3. CASE \A j \in 1..Len(g.ports[n]) : g.prod[g.ports[n][j]] = 0
    <3>1. Deps(n) = {}
      <4>1. \A x \in Inputs(n) : x \in External
        BY <1>2, <2>3, PortFacts DEF Inputs, External
      <4> QED
        BY <4>1 DEF Deps
    <3> QED
      BY <1>2, <3>1, InputNodeFacts
  <2> QED
    BY <2>1, <2>2, <2>3
<1>7. n = PrimarySource
  BY <1>6 DEF Contains
<1> QED
  BY <1>1, <1>7 DEF n

LEMMA FoundWhereWritten ==
    ASSUME NEW base, NEW i
    PROVE  FoundAt(base, i) = OutputBufferIds[i]
<1>1. SlotOffset(base, SegmentBytes, i) = WrittenAt(base, SegmentBytes, i)
  BY DEF SlotOffset, WrittenAt
<1> QED
  BY <1>1 DEF FoundAt

\* What is found for the pipeline outputs is the pipeline outputs.
Intact == [b \in Kept |-> b]

LEMMA StoreIntact ==
    ASSUME ReadyPlan, NEW base
    PROVE  StoreFrom(base) = Intact
<1>1. /\ OutputBufferIds \in Seq(Kept) /\ ToSet(OutputBufferIds) = Kept
      /\ \A x \in Kept : \E i \in 1..Len(OutputBufferIds) : OutputBufferIds[i] = x
  BY PipelineOutputFacts DEF Lists
<1> DEFINE pos(b) == CHOOSE i \in 1..Len(OutputBufferIds) : OutputBufferIds[i] = b
<1>2. \A b \in Kept : OutputBufferIds[pos(b)] = b
  BY <1>1
<1>3. StoreFrom(base) = [b \in ToSet(OutputBufferIds) |-> FoundAt(base, pos(b))]
  BY DEF StoreFrom
<1> HIDE DEF pos
<1>4. \A b \in Kept : FoundAt(base, pos(b)) = b
  BY <1>2, FoundWhereWritten
<1> QED
  BY <1>1, <1>3, <1>4 DEF Intact

-----------------------------------------------------------------------------
\* What the archive is decoded from is the plan's, and so is the source whose
\* input is the answer.
Opened ==
    /\ Describes(arDesc, Filed)
    /\ arStore = Intact
    /\ (arKind = "preflag" => Len(InputNodes) = 1) /\ Contains(InputNodes, PrimarySource)
         /\ (Filed => OutputsFit) => arSource[1] = PrimarySource

ArchiveInv ==
    /\ g \in Graphs
    /\ arPhase \in {"idle", "compressed", "open", "refused", "running", "done"}
    /\ arPhase # "idle" => phase = "ready" /\ "ports" \in DOMAIN g
    /\ arPhase \in {"open", "running", "done"} => Opened
    /\ DecodableWhenItFits

PlanInv == PlanTypeOK /\ CycleCheckExact /\ LevelsTopologicalInOrder

LEMMA Planned == InverseSpec => []PlanInv
<1>1. InverseInit => Init
  BY DEF InverseInit
<1>2. [InverseNext]_<<planVars, invVars>> => [PlanStep]_planVars
  BY DEF InverseNext
<1>3. InverseSpec => PlanSpec
  BY <1>1, <1>2, PTL DEF InverseSpec, PlanSpec
<1> QED
  BY <1>3, PlanTypeCorrect, CycleCheckCorrect, LevelsCorrect, PTL DEF PlanInv

LEMMA ArchivePlanned ==
    ASSUME PlanInv, ArchiveInv, arPhase # "idle"
    PROVE  ReadyPlan
  BY DEF PlanInv, ArchiveInv, ReadyPlan, PlanTypeOK, CycleCheckExact

LEMMA ArchiveInit == InverseInit => ArchiveInv
  BY DEF InverseInit, Init, ArchiveInv, DecodableWhenItFits

\* A step that leaves the plan and what was opened.
LEMMA OpenedKept ==
    ASSUME Opened, g' = g, level' = level, UNCHANGED <<arKind, arDesc, arStore, arSource>>
    PROVE  Opened'
<1>1. /\ Kept' = Kept /\ LevelOrder' = LevelOrder /\ Outs' = Outs /\ InputNodes' = InputNodes
      /\ PrimarySource' = PrimarySource /\ Nodes' = Nodes /\ \A n : Outputs(n)' = Outputs(n)
  BY Unmoved
<1>2. Describes(arDesc, Filed)'
  <2>1. DescribesWiring(arDesc, Filed, g, LevelOrder, Outs)
    BY DEF Opened, Describes
  <2>2. Filed' = Filed
    BY DEF Filed
  <2>3. DescribesWiring(arDesc', Filed', g', LevelOrder', Outs')
    BY <1>1, <2>1, <2>2
  <2> QED
    BY <2>3 DEF Describes
<1>3. arStore' = Intact'
  BY <1>1 DEF Opened, Intact
<1>4. OutputsFit' = OutputsFit
  BY <1>1 DEF OutputsFit
<1> QED
  BY <1>1, <1>2, <1>3, <1>4 DEF Opened, Filed

LEMMA OpenLiveOpens ==
    ASSUME ReadyPlan, OpenLive, g' = g, level' = level
    PROVE  Opened'
<1>1. /\ Kept' = Kept /\ LevelOrder' = LevelOrder /\ Outs' = Outs /\ InputNodes' = InputNodes
      /\ PrimarySource' = PrimarySource
  BY Unmoved
<1>2. Describes(arDesc, Filed)'
  <2>1. DescribesWiring(ForwardTopology, FALSE, g, LevelOrder, Outs)
    BY ForwardDescribes DEF Describes
  <2>2. Filed' = FALSE /\ arDesc' = ForwardTopology
    BY DEF Filed, OpenLive
  <2>3. DescribesWiring(arDesc', Filed', g', LevelOrder', Outs')
    BY <1>1, <2>1, <2>2
  <2> QED
    BY <2>3 DEF Describes
<1>3. arStore' = Intact'
  <2>1. ToSet(OutputBufferIds) = Kept
    BY PipelineOutputFacts
  <2>2. StoreFrom(headerSize(Len(OutputBufferIds))) = Intact
    BY StoreIntact
  <2>3. arStore' = Intact
    BY <2>1, <2>2 DEF OpenLive, Intact
  <2>4. Intact' = Intact
    BY <1>1 DEF Intact
  <2> QED
    BY <2>3, <2>4
<1>4. arSource'[1] = PrimarySource
  BY DEF OpenLive
<1> QED
  BY <1>1, <1>2, <1>3, <1>4 DEF Opened

LEMMA OpenFileOpens ==
    ASSUME ReadyPlan, OpenFile, g' = g, level' = level
    PROVE  Opened'
<1>1. /\ Kept' = Kept /\ LevelOrder' = LevelOrder /\ Outs' = Outs /\ InputNodes' = InputNodes
      /\ PrimarySource' = PrimarySource /\ Nodes' = Nodes /\ \A n : Outputs(n)' = Outputs(n)
  BY Unmoved
<1>2. Filed' = TRUE /\ arDesc' = HeaderStages
  BY DEF Filed, OpenFile
<1>3. Describes(arDesc, Filed)'
  <2>1. DescribesWiring(HeaderStages, TRUE, g, LevelOrder, Outs)
    BY HeaderDescribes DEF Describes
  <2>2. DescribesWiring(arDesc', Filed', g', LevelOrder', Outs')
    BY <1>1, <1>2, <2>1
  <2> QED
    BY <2>2 DEF Describes
<1>4. arStore' = Intact'
  <2>1. arStore' = Intact
    BY StoreIntact DEF OpenFile
  <2>2. Intact' = Intact
    BY <1>1 DEF Intact
  <2> QED
    BY <2>1, <2>2
<1>5. OutputsFit' = OutputsFit
  BY <1>1 DEF OutputsFit
<1>6. ASSUME arKind' = "preflag" => Len(InputNodes) = 1, Contains(InputNodes, PrimarySource), OutputsFit
      PROVE  arSource'[1] = PrimarySource
  <2>1. CASE arKind' = "file"
    BY <2>1 DEF OpenFile
  <2>2. CASE arKind' = "preflag"
    <3>1. arSource' = TopologySources(HeaderStages)
      BY <2>2 DEF OpenFile
    <3>2. TopologySources(HeaderStages)[1] = PrimarySource
      BY <1>6, <2>2, HeaderDescribes, OnlySource
    <3> QED
      BY <3>1, <3>2
  <2> QED
    BY <2>1, <2>2 DEF OpenFile
<1> QED
  BY <1>1, <1>2, <1>3, <1>4, <1>5, <1>6 DEF Opened

\* The refusal of a step that leaves the plan.
LEMMA RefusedFor ==
    ASSUME g' = g, level' = level,
           \/ g.primary # 0 /\ ~Contains(InputNodes, g.primary)
           \/ /\ arKind' \in {"file", "preflag"}
              /\ \/ HeaderRefused
                 \/ \E n \in Nodes : Len(g.ports[n]) > MaxStageInputs
                 \/ \E n \in Nodes : Cardinality(Outputs(n)) > MaxStageOutputs
    PROVE  DecodableWhenItFits'
<1>1. /\ InputNodes' = InputNodes /\ HeaderRefused' = HeaderRefused /\ Nodes' = Nodes
      /\ \A n : Outputs(n)' = Outputs(n)
  BY Unmoved
<1> QED
  BY <1>1 DEF DecodableWhenItFits

LEMMA ArchiveStep ==
    PlanInv /\ ArchiveInv /\ [InverseNext]_<<planVars, invVars>> => ArchiveInv'
<1> SUFFICES ASSUME PlanInv, ArchiveInv, [InverseNext]_<<planVars, invVars>>
             PROVE  ArchiveInv'
  OBVIOUS
<1>1. CASE PlanStep /\ UNCHANGED invVars
  <2>1. g' = g /\ phase # "ready"
    BY <1>1 DEF PlanStep, KahnVisit, KahnDone, AssignLevel, LevelsDone, AssignStreams,
                ColorBuffer, ColoringGuard, inputVars
  <2>2. arPhase = "idle" /\ arPhase' = "idle"
    BY <1>1, <2>1 DEF ArchiveInv, invVars
  <2> QED
    BY <2>1, <2>2 DEF ArchiveInv, DecodableWhenItFits
<1>2. CASE UNCHANGED <<planVars, invVars>>
  <2>1. g' = g /\ level' = level /\ phase' = phase /\ arPhase' = arPhase /\ arKind' = arKind
        /\ UNCHANGED <<arKind, arDesc, arStore, arSource>>
    BY <1>2 DEF planVars, invVars
  <2>2. Opened => Opened'
    BY <2>1, OpenedKept
  <2>3. DecodableWhenItFits'
    <3>1. CASE arPhase = "refused"
      BY <2>1, <3>1, RefusedFor DEF ArchiveInv, DecodableWhenItFits
    <3>2. CASE arPhase # "refused"
      BY <2>1, <3>2 DEF DecodableWhenItFits
    <3> QED
      BY <3>1, <3>2
  <2> QED
    BY <2>1, <2>2, <2>3 DEF ArchiveInv
<1>3. ASSUME UNCHANGED planVars, InverseStep PROVE ArchiveInv'
  <2>1. g' = g /\ level' = level /\ phase' = phase
    BY <1>3 DEF planVars
  <2>2. CASE CompressPlanned
    BY <2>1, <2>2 DEF CompressPlanned, ArchiveInv, DecodableWhenItFits
  <2>3. CASE OpenLive
    <3>1. arPhase = "compressed" /\ ReadyPlan
      BY <2>3, ArchivePlanned DEF OpenLive
    <3>2. Opened'
      BY <2>1, <2>3, <3>1, OpenLiveOpens
    <3>3. DecodableWhenItFits'
      <4>1. CASE Contains(InputNodes, PrimarySource)
        BY <2>3, <4>1 DEF OpenLive, DecodableWhenItFits
      <4>2. CASE ~Contains(InputNodes, PrimarySource)
        BY <2>1, <3>1, <4>2, DefaultPrimary, RefusedFor
      <4> QED
        BY <4>1, <4>2
    <3>4. arPhase' \in {"open", "refused"}
      BY <2>3 DEF OpenLive
    <3> QED
      BY <2>1, <3>1, <3>2, <3>3, <3>4 DEF ArchiveInv
  <2>4. CASE OpenFile
    <3>1. arPhase = "compressed" /\ ReadyPlan
      BY <2>4, ArchivePlanned DEF OpenFile
    <3>2. Opened'
      BY <2>1, <2>4, <3>1, OpenFileOpens
    <3>3. arSource' # <<>>
      <4>1. CASE arKind' = "file"
        BY <2>4, <4>1 DEF OpenFile
      <4>2. CASE arKind' = "preflag"
        <5>1. arSource' = TopologySources(HeaderStages)
          BY <2>4, <4>2 DEF OpenFile
        <5> QED
          BY <3>1, <5>1, HeaderDescribes, HeaderSource
      <4> QED
        BY <2>4, <4>1, <4>2 DEF OpenFile
    <3>4. DecodableWhenItFits'
      <4>1. CASE HeaderRefused
        BY <2>1, <2>4, <4>1, RefusedFor DEF OpenFile
      <4>2. CASE ~HeaderRefused
        BY <2>4, <3>3, <4>2 DEF OpenFile, DecodableWhenItFits
      <4> QED
        BY <4>1, <4>2
    <3>5. arPhase' \in {"open", "refused"}
      BY <2>4 DEF OpenFile
    <3> QED
      BY <2>1, <3>1, <3>2, <3>4, <3>5 DEF ArchiveInv
  <2>5. CASE BuildInverse
    <3>1. arPhase = "open" /\ ReadyPlan /\ Opened
      BY <2>5, ArchivePlanned DEF BuildInverse, ArchiveInv
    <3>2. UNCHANGED <<arKind, arDesc, arStore, arSource>> /\ arPhase' \in {"refused", "running"}
      BY <2>5 DEF BuildInverse
    <3>3. Opened'
      BY <2>1, <3>1, <3>2, OpenedKept
    <3>4. DecodableWhenItFits'
      <4>1. CASE arPhase' = "refused"
        <5>1. PICK s \in Nodes : Contains(InverseInputs[s], <<>>)
          BY <2>5, <4>1 DEF BuildInverse
        <5>2. DOMAIN arStore = Kept /\ Describes(arDesc, Filed)
          BY <3>1 DEF Opened, Intact
        <5>3. Filed /\ \E n \in Nodes : Len(g.ports[n]) > MaxStageInputs
          BY <3>1, <5>1, <5>2, NothingMissing
        <5> QED
          BY <2>1, <3>2, <5>3, RefusedFor DEF Filed
      <4>2. CASE arPhase' # "refused"
        BY <4>2 DEF DecodableWhenItFits
      <4> QED
        BY <4>1, <4>2
    <3> QED
      BY <2>1, <3>1, <3>2, <3>3, <3>4 DEF ArchiveInv
  <2>6. ASSUME NEW s \in Nodes, RunInverse(s) PROVE ArchiveInv'
    <3>1. arPhase = "running" /\ Opened
      BY <2>6 DEF RunInverse, ArchiveInv
    <3>2. UNCHANGED <<arKind, arDesc, arStore, arSource>> /\ arPhase' \in {"done", "running"}
      BY <2>6 DEF RunInverse
    <3>3. Opened'
      BY <2>1, <3>1, <3>2, OpenedKept
    <3> QED
      BY <2>1, <3>1, <3>2, <3>3 DEF ArchiveInv, DecodableWhenItFits
  <2> QED
    BY <1>3, <2>2, <2>3, <2>4, <2>5, <2>6 DEF InverseStep
<1> QED
  BY <1>1, <1>2, <1>3 DEF InverseNext

LEMMA ArchiveCorrect == InverseSpec => []ArchiveInv
<1>1. InverseInit => ArchiveInv
  BY ArchiveInit
<1>2. PlanInv /\ ArchiveInv /\ [InverseNext]_<<planVars, invVars>> => ArchiveInv'
  BY ArchiveStep
<1> QED
  BY <1>1, <1>2, Planned, PTL DEF InverseSpec

\* buildInverseDAG() and readHeader() refuse an archive only for the reasons
\* the format has: a primary source that is none, a topology too large for the
\* header, or a stage with more ports than an entry has room for.
THEOREM DecodableCorrect == InverseSpec => []DecodableWhenItFits
<1>1. ArchiveInv => DecodableWhenItFits
  BY DEF ArchiveInv
<1> QED
  BY <1>1, ArchiveCorrect, PTL

-----------------------------------------------------------------------------
(***************************************************************************)
(* What the nodes of the inverse DAG read.                                 *)
(***************************************************************************)
\* A set of pairs of numbers, both bounded, has a last one.
LEMMA LastPair ==
    ASSUME NEW C, C # {}, NEW m \in Nat, NEW w, 
           \A p \in C : p[1] \in 1..m /\ w[p[1]] \in Nat /\ p[2] \in 1..w[p[1]]
    PROVE  \E p \in C : \A q \in C : p[1] > q[1] \/ (p[1] = q[1] /\ p[2] >= q[2])
<1> DEFINE A == {p[1] : p \in C}
<1>1. Max(A) \in A /\ \A x \in A : x <= Max(A)
  <2>1. A \subseteq Int /\ A # {} /\ m \in Int /\ \A x \in A : x <= m
    OBVIOUS
  <2> HIDE DEF A
  <2> QED
    BY <2>1, MaxIsGreatest
<1> DEFINE a == Max(A)
           B == {p[2] : p \in {q \in C : q[1] = a}}
<1>2. PICK r \in C : r[1] = a
  BY <1>1
<1>3. \A p \in C : p[1] <= a
  BY <1>1
<1> HIDE DEF a
<1>4. Max(B) \in B /\ \A x \in B : x <= Max(B)
  <2>1. B \subseteq Int /\ B # {} /\ w[a] \in Int /\ \A x \in B : x <= w[a]
    BY <1>2
  <2> HIDE DEF B
  <2> QED
    BY <2>1, MaxIsGreatest
<1>5. PICK p \in C : p[1] = a /\ p[2] = Max(B)
  BY <1>4
<1>6. ASSUME NEW q \in C PROVE p[1] > q[1] \/ (p[1] = q[1] /\ p[2] >= q[2])
  <2>1. q[1] \in Int /\ p[1] \in Int /\ p[2] \in Int /\ q[2] \in Int /\ q[1] <= p[1]
    BY <1>3, <1>5
  <2>2. CASE q[1] = p[1]
    <3>1. q[2] \in B
      BY <1>5, <2>2
    <3> HIDE DEF B
    <3> QED
      BY <1>4, <1>5, <2>1, <2>2, <3>1
  <2> QED
    BY <2>1, <2>2
<1> QED
  BY <1>6

LEMMA ConsumerFacts ==
    ASSUME ReadyPlan, NEW limited, Describes(arDesc, limited), NEW b, ConsumersOf(b) # {}
    PROVE  \E t \in Nodes : \E j \in 1..Len(g.ports[t]) :
              InverseInput(b) = <<t, j>> /\ g.ports[t][j] = b
<1> DEFINE C == ConsumersOf(b)
           w == [i \in 1..Len(arDesc) |-> Len(arDesc[i].ins)]
<1>1. Len(arDesc) = g.nodes /\ g.nodes \in Nat
  BY DescribesParts, PortedWiring DEF IsWiring
<1>2. ASSUME NEW p \in C
      PROVE  /\ p[1] \in 1..Len(arDesc) /\ p[2] \in 1..Len(arDesc[p[1]].ins)
             /\ arDesc[p[1]].ins[p[2]] = b
  <2>1. PICK i \in 1..Len(arDesc) : p \in {i} \X (1..Len(arDesc[i].ins))
    BY DEF ConsumersOf
  <2>2. arDesc[p[1]].ins[p[2]] = b
    BY DEF ConsumersOf
  <2> QED
    BY <2>1, <2>2
<1>3. \A i \in 1..Len(arDesc) : Len(arDesc[i].ins) \in Nat
  BY DescribesParts DEF Shortened
<1> HIDE DEF C
<1>4. \A p \in C : p[1] \in 1..Len(arDesc) /\ w[p[1]] \in Nat /\ p[2] \in 1..w[p[1]]
  BY <1>2, <1>3
<1>5. \E p \in C : \A q \in C : p[1] > q[1] \/ (p[1] = q[1] /\ p[2] >= q[2])
  <2> HIDE DEF w
  <2>1. C # {} /\ Len(arDesc) \in Nat
    BY <1>1 DEF C
  <2> QED
    BY <1>4, <2>1, LastPair
<1>6. LastConsumer(b) \in C
  BY <1>5 DEF LastConsumer, C
<1> DEFINE p == LastConsumer(b)
           t == arDesc[p[1]].stage
<1>7. p[1] \in 1..Len(arDesc) /\ p[2] \in 1..Len(arDesc[p[1]].ins) /\ arDesc[p[1]].ins[p[2]] = b
  BY <1>2, <1>6
<1>8. InverseInput(b) = <<t, p[2]>>
  BY DEF InverseInput
<1> HIDE DEF p
<1>9. t \in Nodes
  <2>1. t = LevelOrder[p[1]]
    BY <1>7, DescribesParts
  <2>2. LevelOrder \in Seq(Nodes) /\ Len(LevelOrder) = g.nodes
    BY LevelOrderLists DEF Lists
  <2> QED
    BY <1>1, <1>7, <2>1, <2>2
<1>10. Shortened(arDesc[p[1]].ins, g.ports[t], MaxStageInputs, limited)
  BY <1>7, DescribesParts
<1> HIDE DEF t
<1>11. p[2] \in 1..Len(g.ports[t]) /\ g.ports[t][p[2]] = b
  <2>1. Len(g.ports[t]) \in Nat
    BY <1>9, PortFacts
  <2> DEFINE x == arDesc[p[1]].ins
             k == p[2]
  <2>2. k \in 1..Len(x) /\ x[k] = b
    BY <1>7
  <2>3. Len(x) \in Nat /\ Len(x) <= Len(g.ports[t]) /\ \A j \in 1..Len(x) : x[j] = g.ports[t][j]
    BY <1>10 DEF Shortened
  <2> HIDE DEF x, k
  <2>4. k \in 1..Len(g.ports[t]) /\ g.ports[t][k] = b
    BY <2>1, <2>2, <2>3
  <2> QED
    BY <2>4 DEF k
<1> QED
  BY <1>8, <1>9, <1>11

\* Every input of the inverse of stage s is where that output of s is restored:
\* in the archive, or at the port of a stage that read it.
Reads(ins, h, outs, kept) ==
    \A s \in 1..h.nodes :
        /\ Len(ins[s]) = Len(outs[s])
        /\ \A k \in 1..Len(ins[s]) :
              \/ ins[s][k] = <<0, outs[s][k]>> /\ outs[s][k] \in kept
              \/ \E t \in 1..h.nodes : \E j \in 1..Len(h.ports[t]) :
                    ins[s][k] = <<t, j>> /\ h.ports[t][j] = outs[s][k]

LEMMA InputsRead ==
    ASSUME ReadyPlan, NEW limited, Describes(arDesc, limited), DOMAIN arStore = Kept,
           limited => OutputsFit, \A s \in Nodes : ~Contains(InverseInputs[s], <<>>)
    PROVE  Reads(InverseInputs, g, Outs, Kept)
<1> SUFFICES ASSUME NEW s \in Nodes
             PROVE  /\ Len(InverseInputs[s]) = Len(Outs[s])
                    /\ \A k \in 1..Len(InverseInputs[s]) :
                          \/ InverseInputs[s][k] = <<0, Outs[s][k]>> /\ Outs[s][k] \in Kept
                          \/ \E t \in Nodes : \E j \in 1..Len(g.ports[t]) :
                                InverseInputs[s][k] = <<t, j>> /\ g.ports[t][j] = Outs[s][k]
  BY DEF Reads, Nodes
<1>1. PICK i \in 1..Len(arDesc) :
         /\ arDesc[i].stage = s
         /\ InverseInputs[s] = [k \in 1..Len(arDesc[i].outs) |-> InverseInput(arDesc[i].outs[k])]
  BY InverseInputsAt
<1>2. Shortened(arDesc[i].outs, OutputIds(s), MaxStageOutputs, limited)
  BY <1>1, DescribesParts
<1>3. Outs[s] = OutputIds(s)
  BY DEF Outs
<1>4. Len(OutputIds(s)) = Cardinality(Outputs(s)) /\ Len(OutputIds(s)) \in Nat
  <2>1. OutputIds(s) \in Seq(Outputs(s)) /\ Len(OutputIds(s)) = Cardinality(Outputs(s))
    BY OutputFacts DEF Lists
  <2> QED
    BY <2>1
<1>5. Len(arDesc[i].outs) = Len(Outs[s]) /\ \A k \in 1..Len(Outs[s]) : arDesc[i].outs[k] = Outs[s][k]
  <2>1. MaxStageOutputs \in Nat
    BY InverseDagAssumption
  <2>2. limited => Len(OutputIds(s)) <= MaxStageOutputs
    BY <1>4 DEF OutputsFit
  <2> QED
    BY <1>2, <1>3, <1>4, <2>1, <2>2 DEF Shortened
<1>6. Len(InverseInputs[s]) = Len(Outs[s])
      /\ \A k \in 1..Len(Outs[s]) : InverseInputs[s][k] = InverseInput(Outs[s][k])
  BY <1>1, <1>3, <1>4, <1>5
<1>7. ASSUME NEW k \in 1..Len(Outs[s])
      PROVE  \/ InverseInputs[s][k] = <<0, Outs[s][k]>> /\ Outs[s][k] \in Kept
             \/ \E t \in Nodes : \E j \in 1..Len(g.ports[t]) :
                   InverseInputs[s][k] = <<t, j>> /\ g.ports[t][j] = Outs[s][k]
  <2> DEFINE b == Outs[s][k]
  <2>1. InverseInputs[s][k] = InverseInput(b)
    BY <1>6
  <2>2. InverseInput(b) # <<>>
    <3>1. k \in 1..Len(InverseInputs[s])
      BY <1>6
    <3> QED
      BY <2>1, <3>1 DEF Contains
  <2> HIDE DEF b
  <2>3. CASE ConsumersOf(b) # {}
    BY <2>1, <2>3, ConsumerFacts DEF b
  <2>4. CASE ConsumersOf(b) = {}
    <3>1. b \in Kept /\ InverseInput(b) = <<0, b>>
      BY <2>2, <2>4 DEF InverseInput
    <3> QED
      BY <2>1, <3>1 DEF b
  <2> QED
    BY <2>3, <2>4
<1> QED
  BY <1>6, <1>7

\* An input of an inverse node that is not in the archive comes from a stage
\* that reads from the node's stage.
LEMMA ReadFromConsumer ==
    ASSUME ReadyPlan, NEW ins, Reads(ins, g, Outs, Kept), NEW s \in Nodes,
           NEW k \in 1..Len(ins[s]), ins[s][k][1] # 0
    PROVE  /\ ins[s][k][1] \in Nodes
           /\ s \in Deps(ins[s][k][1])
           /\ ins[s][k][2] \in 1..Len(g.ports[ins[s][k][1]])
           /\ g.ports[ins[s][k][1]][ins[s][k][2]] = Outs[s][k]
           /\ Outs[s][k] \in Outputs(s)
<1>1. PICK t \in Nodes : \E j \in 1..Len(g.ports[t]) : ins[s][k] = <<t, j>> /\ g.ports[t][j] = Outs[s][k]
  <2>1. \/ ins[s][k] = <<0, Outs[s][k]>>
        \/ \E t \in Nodes : \E j \in 1..Len(g.ports[t]) :
              ins[s][k] = <<t, j>> /\ g.ports[t][j] = Outs[s][k]
    BY DEF Reads, Nodes
  <2>2. ins[s][k] # <<0, Outs[s][k]>>
    OBVIOUS
  <2> QED
    BY <2>1, <2>2
<1>2. PICK j \in 1..Len(g.ports[t]) : ins[s][k] = <<t, j>> /\ g.ports[t][j] = Outs[s][k]
  BY <1>1
<1>3. Outs[s][k] \in Outputs(s)
  <2>1. OutputIds(s) \in Seq(Outputs(s))
    BY OutputFacts DEF Lists
  <2>2. Outs[s] = OutputIds(s) /\ Len(ins[s]) = Len(Outs[s])
    BY DEF Outs, Reads, Nodes
  <2> QED
    BY <2>1, <2>2
<1>4. Outs[s][k] \in g.bufs \ External /\ g.prod[Outs[s][k]] = s
  BY <1>3, OutputFacts DEF Outputs
<1>5. t \in g.cons[Outs[s][k]]
  BY <1>2, PortFacts
<1>6. s \in Deps(t)
  BY <1>4, <1>5 DEF Deps, Inputs
<1> QED
  BY <1>2, <1>3, <1>6

\* order lists the nodes once, and a node behind those it reads from.
Sorted(ins, order) ==
    /\ order \in Seq(Nodes)
    /\ \A s \in Nodes : \E i \in 1..Len(order) : order[i] = s
    /\ \A i, j \in 1..Len(order) : order[i] = order[j] => i = j
    /\ \A i \in 1..Len(order) : \A k \in Dependencies(ins, order[i]) :
          \E j \in 1..(i - 1) : order[j] = ins[order[i]][k][1]

LEMMA BuildOrderSorted ==
    ASSUME ReadyPlan, \A n \in Nodes : \A d \in Deps(n) : level[d] < level[n],
           NEW limited, Describes(arDesc, limited), NEW ins, Reads(ins, g, Outs, Kept)
    PROVE  Sorted(ins, Reverse([i \in 1..Len(arDesc) |-> arDesc[i].stage]))
<1> DEFINE n == Len(arDesc)
           stages == [i \in 1..n |-> arDesc[i].stage]
           order == Reverse(stages)
<1>1. n = g.nodes /\ n \in Nat /\ \A i \in 1..n : arDesc[i].stage = LevelOrder[i]
  BY DescribesParts, PortedWiring DEF IsWiring
<1>2. /\ LevelOrder \in Seq(Nodes) /\ Len(LevelOrder) = n
      /\ \A s \in Nodes : \E i \in 1..n : LevelOrder[i] = s
      /\ \A i, j \in 1..n : i < j => <<LevelOrder[i], LevelOrder[j]>> \in Earlier
  BY <1>1, LevelOrderLists DEF Lists
<1>3. \A s \in Nodes : level[s] \in Int /\ s \in Int
  BY PortedWiring DEF ReadyPlan, Nodes, IsWiring
<1> HIDE DEF n
<1>4. Len(stages) = n /\ \A i \in 1..n : stages[i] = LevelOrder[i]
  BY <1>1
<1> HIDE DEF stages
<1>5. order = [i \in 1..n |-> stages[(n - i) + 1]]
  BY <1>4 DEF Reverse
<1>6. \A i \in 1..n : (n - i) + 1 \in 1..n
  BY <1>1
<1>7. order = [i \in 1..n |-> LevelOrder[(n - i) + 1]]
  BY <1>4, <1>5, <1>6
<1> HIDE DEF order
<1>8. \A i \in 1..n : LevelOrder[i] \in Nodes
  BY <1>2
<1>9. order \in Seq(Nodes) /\ Len(order) = n /\ \A i \in 1..n : order[i] = LevelOrder[(n - i) + 1]
  <2>1. order \in [1..n -> Nodes]
    BY <1>6, <1>7, <1>8
  <2>2. order \in Seq(Nodes) /\ Len(order) = n
    BY <1>1, <2>1
  <2> QED
    BY <1>7, <2>2
<1>10. ASSUME NEW s \in Nodes PROVE \E i \in 1..n : order[i] = s
  <2>1. PICK i \in 1..n : LevelOrder[i] = s
    BY <1>2
  <2>2. (n - i) + 1 \in 1..n /\ (n - ((n - i) + 1)) + 1 = i
    BY <1>1
  <2> QED
    BY <1>9, <2>1, <2>2
\* The place in the order of levels determines the node, and the node it.
<1>11. ASSUME NEW i \in 1..n, NEW j \in 1..n, <<LevelOrder[j], LevelOrder[i]>> \notin Earlier
       PROVE  i <= j
  BY SMTT(60), <1>1, <1>2, <1>11
<1>12. \A x \in Nodes : <<x, x>> \notin Earlier
  BY <1>3 DEF Earlier
<1>13. ASSUME NEW i \in 1..n, NEW j \in 1..n, LevelOrder[i] = LevelOrder[j] PROVE i = j
  <2>1. <<LevelOrder[j], LevelOrder[i]>> \notin Earlier /\ <<LevelOrder[i], LevelOrder[j]>> \notin Earlier
    BY <1>8, <1>12, <1>13
  <2>2. i <= j /\ j <= i
    BY <1>11, <2>1
  <2> QED
    BY <1>1, <2>2
<1>14. ASSUME NEW i \in 1..n, NEW j \in 1..n, order[i] = order[j] PROVE i = j
  <2> DEFINE x == (n - i) + 1
             y == (n - j) + 1
  <2>0. x \in 1..n /\ y \in 1..n /\ LevelOrder[x] = LevelOrder[y]
    BY <1>6, <1>9, <1>14
  <2>1. x = y
    <3> HIDE DEF x, y
    <3> QED
      BY <1>13, <2>0
  <2> QED
    BY <1>1, <2>1
<1>15. ASSUME NEW i \in 1..n, NEW k \in Dependencies(ins, order[i])
       PROVE  \E j \in 1..(i - 1) : order[j] = ins[order[i]][k][1]
  <2> DEFINE s == order[i]
             t == ins[s][k][1]
  <2>1. s \in Nodes /\ k \in 1..Len(ins[s]) /\ t # 0
    BY <1>6, <1>8, <1>9 DEF Dependencies
  <2>2. t \in Nodes /\ s \in Deps(t)
    BY <2>1, ReadFromConsumer
  <2>3. PICK j \in 1..n : order[j] = t
    BY <1>10, <2>2
  <2>4. level[s] < level[t]
    BY <2>2
  <2>5. ~(i <= j)
    <3> SUFFICES ASSUME i <= j PROVE FALSE
      OBVIOUS
    <3>1. i # j
      <4>1. s # t
        BY <1>3, <2>1, <2>2, <2>4
      <4> QED
        BY <2>3, <4>1
    <3>2. (n - j) + 1 \in 1..n /\ (n - i) + 1 \in 1..n /\ (n - j) + 1 < (n - i) + 1
      BY <1>1, <3>1
    <3>3. <<t, s>> \in Earlier
      <4>1. t = LevelOrder[(n - j) + 1] /\ s = LevelOrder[(n - i) + 1]
        BY <1>9, <2>3
      <4> HIDE DEF s, t
      <4> QED
        BY <1>2, <3>2, <4>1
    <3>4. level[t] <= level[s]
      <4> HIDE DEF s, t
      <4>1. level[s] \in Int /\ level[t] \in Int
        BY <1>3, <2>1, <2>2
      <4> QED
        BY <3>3, <4>1 DEF Earlier
    <3>5. level[s] \in Int /\ level[t] \in Int
      BY <1>3, <2>1, <2>2
    <3> HIDE DEF s, t
    <3> QED
      BY <2>4, <3>4, <3>5
  <2>6. j \in 1..(i - 1)
    BY <1>1, <2>5
  <2> QED
    BY <2>3, <2>6
<1>16. Sorted(ins, order)
  BY <1>9, <1>10, <1>14, <1>15 DEF Sorted
<1> QED
  BY <1>16 DEF order, stages, n

\* The levels after i turns of assignLevels().
LevelStates(ins, order, i) ==
    {lv \in [Nodes -> Int] :
        /\ \A s \in Nodes : lv[s] <= i - 1
        /\ \A j \in 1..i : \A k \in Dependencies(ins, order[j]) :
              lv[ins[order[j]][k][1]] < lv[order[j]]}

LEMMA InverseLevelStep ==
    ASSUME NEW ins, NEW order, Sorted(ins, order), NEW i \in 1..Len(order),
           NEW lv \in LevelStates(ins, order, i - 1)
    PROVE  [lv EXCEPT ![order[i]] = InverseLevel(ins, lv, order[i])] \in LevelStates(ins, order, i)
<1> DEFINE s == order[i]
           new == InverseLevel(ins, lv, s)
           D == Dependencies(ins, s)
           V == {lv[ins[s][k][1]] : k \in D}
<1>1. /\ order \in Seq(Nodes) /\ Len(order) \in Nat /\ s \in Nodes
      /\ \A x, y \in 1..Len(order) : order[x] = order[y] => x = y
      /\ \A x \in 1..Len(order) : order[x] \in Nodes
  BY DEF Sorted
<1>2. \A x \in 1..Len(order) : \A k \in Dependencies(ins, order[x]) :
         \E j \in 1..(x - 1) : order[j] = ins[order[x]][k][1]
  BY DEF Sorted
<1>3. lv \in [Nodes -> Int] /\ \A x \in Nodes : lv[x] <= i - 2
  BY <1>1 DEF LevelStates
<1>4. \A j \in 1..(i - 1) : \A k \in Dependencies(ins, order[j]) :
         lv[ins[order[j]][k][1]] < lv[order[j]]
  BY DEF LevelStates
<1>5. ASSUME NEW x \in 1..i, NEW k \in Dependencies(ins, order[x])
      PROVE  ins[order[x]][k][1] \in Nodes /\ ins[order[x]][k][1] # s
  <2>0. x \in 1..Len(order)
    BY <1>1
  <2>1. PICK j \in 1..(x - 1) : order[j] = ins[order[x]][k][1]
    BY <1>2, <2>0
  <2>2. j \in 1..Len(order) /\ j # i
    BY <1>1
  <2> QED
    BY <1>1, <2>1, <2>2
<1>6. new \in Int /\ new <= i - 1 /\ \A k \in D : lv[ins[s][k][1]] < new
  <2>1. CASE D = {}
    <3>1. new = 0
      BY <2>1 DEF InverseLevel
    <3> QED
      BY <1>1, <2>1, <3>1
  <2>2. CASE D # {}
    <3>1. \A k \in D : lv[ins[s][k][1]] \in Int /\ lv[ins[s][k][1]] <= i - 2
      <4>1. i \in 1..i
        BY <1>1
      <4> QED
        BY <1>3, <1>5, <4>1
    <3>2. V \subseteq Int /\ V # {} /\ i - 2 \in Int /\ \A v \in V : v <= i - 2
      <4> HIDE DEF D
      <4> QED
        BY <1>1, <2>2, <3>1
    <3>3. Max(V) \in V /\ \A v \in V : v <= Max(V)
      <4> HIDE DEF V
      <4> QED
        BY <3>2, MaxIsGreatest
    <3>4. new = 1 + Max(V)
      BY <2>2 DEF InverseLevel
    <3>5. \A k \in D : lv[ins[s][k][1]] <= Max(V)
      BY <3>3
    <3>6. Max(V) \in Int /\ Max(V) <= i - 2
      BY <3>2, <3>3
    <3> HIDE DEF new, V, D
    <3> QED
      BY <1>1, <3>1, <3>4, <3>5, <3>6
  <2> QED
    BY <2>1, <2>2
<1> DEFINE r == [lv EXCEPT ![s] = new]
<1> HIDE DEF new
<1>7. r \in [Nodes -> Int] /\ r[s] = new /\ \A x \in Nodes : x # s => r[x] = lv[x]
  BY <1>1, <1>3, <1>6
<1> HIDE DEF r
<1>8. \A x \in Nodes : r[x] <= i - 1
  <2> SUFFICES ASSUME NEW x \in Nodes PROVE r[x] <= i - 1
    OBVIOUS
  <2>1. lv[x] \in Int /\ lv[x] <= i - 2 /\ i \in Int
    BY <1>1, <1>3
  <2>2. CASE x = s
    BY <1>6, <1>7, <2>2
  <2>3. CASE x # s
    <3>1. r[x] = lv[x]
      BY <1>7, <2>3
    <3> QED
      BY <2>1, <3>1
  <2> QED
    BY <2>2, <2>3
<1>9. ASSUME NEW j \in 1..i, NEW k \in Dependencies(ins, order[j])
      PROVE  r[ins[order[j]][k][1]] < r[order[j]]
  <2>1. r[ins[order[j]][k][1]] = lv[ins[order[j]][k][1]]
    BY <1>5, <1>7
  <2>2. CASE j = i
    BY <1>6, <1>7, <2>1, <2>2
  <2>3. CASE j # i
    <3>1. j \in 1..(i - 1) /\ j \in 1..Len(order)
      BY <1>1, <2>3
    <3>2. order[j] \in Nodes /\ order[j] # s
      BY <1>1, <2>3, <3>1
    <3> QED
      BY <1>4, <1>7, <2>1, <3>1, <3>2
  <2> QED
    BY <2>2, <2>3
<1>10. r \in LevelStates(ins, order, i)
  BY <1>7, <1>8, <1>9 DEF LevelStates
<1> QED
  BY <1>10 DEF r, new

\* Every inverse node has a level above those of the nodes it reads from.
Rising(ins, lv, h) ==
    /\ lv \in [1..h.nodes -> Int]
    /\ \A s \in 1..h.nodes : \A k \in 1..Len(ins[s]) :
          ins[s][k][1] # 0 => lv[ins[s][k][1]] < lv[s]

LEMMA InverseLevelsRise ==
    ASSUME NEW ins, NEW order, Sorted(ins, order)
    PROVE  Rising(ins, InverseLevels(ins, order), g)
<1> DEFINE n == Len(order)
           base == [s \in Nodes |-> -1]
           Step(k, x) == [x EXCEPT ![order[k]] = InverseLevel(ins, x, order[k])]
           States(k) == LevelStates(ins, order, k)
           All == UNION {States(k) : k \in 0..n}
           F == [p \in (1..n) \X All |-> Step(p[1], p[2])]
           St == [k \in 0..n |-> States(k)]
           Solution(it) == it = [k \in 0..n |-> IF k = 0 THEN base ELSE Step(k, it[k - 1])]
           at == CHOOSE it : Solution(it)
<1>1. n \in Nat
  BY DEF Sorted
<1>2. InverseLevels(ins, order) = at[n]
  BY Zenon DEF InverseLevels
<1>3. base \in States(0) /\ \A k \in 1..n : \A x \in States(k - 1) : Step(k, x) \in States(k)
  <2>1. base \in States(0)
    BY DEF LevelStates
  <2> QED
    BY <2>1, InverseLevelStep
<1> HIDE DEF n, base, States, Step
<1>4. ASSUME NEW k \in 1..n, NEW x \in States(k - 1)
      PROVE  F[<<k, x>>] = Step(k, x)
  <2>1. k - 1 \in 0..n
    BY <1>1
  <2>2. x \in All
    BY <2>1
  <2> HIDE DEF All
  <2> QED
    BY <2>2
<1> HIDE DEF F
<1>5. StepsWithin(base, F, n, St)
  <2>1. \A k \in 0..n : St[k] = States(k)
    OBVIOUS
  <2>2. 0 \in 0..n /\ \A k \in 1..n : k - 1 \in 0..n /\ k \in 0..n
    BY <1>1
  <2> HIDE DEF St, All
  <2> QED
    BY <1>3, <1>4, <2>1, <2>2 DEF StepsWithin
<1>6. \A k \in 1..n : St[k - 1] = States(k - 1)
  BY <1>1
<1>7. \A k \in 0..n : St[k] = States(k)
  OBVIOUS
<1> HIDE DEF St, All
<1>8. PICK it : Iterates(it, base, F, n)
  BY <1>1, IterationExists
<1>9. \A k \in 0..n : it[k] \in St[k]
  <2>1. it[0] = base
    BY <1>1, <1>8 DEF Iterates
  <2>2. \A k \in 1..n : it[k] = F[<<k, it[k - 1]>>]
    BY <1>1, <1>8 DEF Iterates
  <2> QED
    BY <1>1, <1>5, <2>1, <2>2, IterationStays
<1>10. Solution(it)
  <2>1. ASSUME NEW k \in 1..n PROVE F[<<k, it[k - 1]>>] = Step(k, it[k - 1])
    <3>1. k - 1 \in 0..n
      BY <1>1
    <3>2. it[k - 1] \in States(k - 1)
      BY <1>6, <1>9, <3>1
    <3> QED
      BY <1>4, <3>2
  <2>2. \A k \in 0..n : (IF k = 0 THEN base ELSE F[<<k, it[k - 1]>>])
                        = IF k = 0 THEN base ELSE Step(k, it[k - 1])
    BY <1>1, <2>1
  <2>3. it = [k \in 0..n |-> IF k = 0 THEN base ELSE F[<<k, it[k - 1]>>]]
    BY <1>8 DEF Iterates
  <2> QED
    BY <2>2, <2>3
<1>11. Solution(at)
  <2> HIDE DEF Solution
  <2> QED
    BY <1>10
<1> HIDE DEF at
<1>12. at[0] = base /\ \A k \in 1..n : at[k] = Step(k, at[k - 1])
  BY <1>1, <1>11
<1>13. \A k \in 0..n : at[k] \in St[k]
  <2>1. ASSUME NEW k \in 1..n, at[k - 1] \in St[k - 1] PROVE at[k] = F[<<k, at[k - 1]>>]
    <3>1. at[k - 1] \in States(k - 1)
      BY <1>6, <2>1
    <3> QED
      BY <1>4, <1>12, <3>1
  <2> HIDE DEF Solution
  <2> QED
    BY <1>1, <1>5, <1>12, <2>1, IterationStays
<1> HIDE DEF Solution
<1>14. at[n] \in States(n)
  <2>1. n \in 0..n
    BY <1>1
  <2> QED
    BY <1>7, <1>13, <2>1
<1>15. InverseLevels(ins, order) \in LevelStates(ins, order, Len(order))
  BY <1>2, <1>14 DEF States, n
<1> DEFINE lv == InverseLevels(ins, order)
<1> HIDE DEF lv
<1>16. lv \in [Nodes -> Int]
  BY <1>15 DEF lv, LevelStates
<1>17. ASSUME NEW s \in Nodes, NEW k \in 1..Len(ins[s]), ins[s][k][1] # 0
       PROVE  lv[ins[s][k][1]] < lv[s]
  <2>1. PICK i \in 1..Len(order) : order[i] = s
    BY DEF Sorted
  <2>2. k \in Dependencies(ins, order[i])
    BY <1>17, <2>1 DEF Dependencies
  <2> QED
    BY <1>15, <2>1, <2>2 DEF lv, LevelStates
<1> QED
  BY <1>16, <1>17 DEF Rising, Nodes, lv

-----------------------------------------------------------------------------
(***************************************************************************)
(* Chains of inverse nodes and the spans of them that are fused.           *)
(***************************************************************************)
\* Node n reads from p and from no other node, and p is read by n only.
Link(ins, h, p, n) ==
    /\ \E k \in 1..Len(ins[n]) :
          /\ ins[n][k][1] = p
          /\ \A j \in 1..Len(ins[n]) : ins[n][j][1] # 0 => j = k
    /\ \A t \in 1..h.nodes : \A k \in 1..Len(ins[t]) : ins[t][k][1] = p => t = n

Chains(ins, start) ==
    {c \in Seq(Nodes) : /\ Len(c) >= 1 /\ c[1] = start
                        /\ \A i \in 1..(Len(c) - 1) : Link(ins, g, c[i], c[i + 1])}

LEMMA InputCounts ==
    ASSUME ReadyPlan, NEW ins, Reads(ins, g, Outs, Kept), NEW s \in Nodes
    PROVE  Len(ins[s]) \in Nat /\ Len(ins[s]) <= Cardinality(g.bufs) /\ Cardinality(g.bufs) \in Nat
<1>1. Len(ins[s]) = Cardinality(Outputs(s))
  <2>1. Len(OutputIds(s)) = Cardinality(Outputs(s))
    BY OutputFacts DEF Lists
  <2>2. Outs[s] = OutputIds(s) /\ Len(ins[s]) = Len(Outs[s])
    BY DEF Outs, Reads, Nodes
  <2> QED
    BY <2>1, <2>2
<1>2. IsFiniteSet(g.bufs) /\ Outputs(s) \in SUBSET g.bufs
  BY PortedWiring DEF IsWiring, Outputs
<1>3. Cardinality(Outputs(s)) <= Cardinality(g.bufs) /\ IsFiniteSet(Outputs(s))
  BY <1>2, FS_Subset
<1> QED
  BY <1>1, <1>2, <1>3, FS_CardinalityType

LEMMA DependentsLink ==
    ASSUME ReadyPlan, NEW ins, Reads(ins, g, Outs, Kept), NEW p \in Nodes,
           Cardinality(Dependents(ins, p)) = 1,
           \A d \in Dependents(ins, p) : Cardinality(Dependencies(ins, d[1])) = 1
    PROVE  LET n == (CHOOSE d \in Dependents(ins, p) : TRUE)[1]
           IN n \in Nodes /\ Link(ins, g, p, n)
<1> DEFINE D == Dependents(ins, p)
           m == Cardinality(g.bufs)
<1>1. \A t \in Nodes : Len(ins[t]) \in Nat /\ Len(ins[t]) <= m /\ m \in Nat
  BY InputCounts
<1>2. p \in Int /\ p # 0 /\ m \in Nat /\ g.nodes \in Nat
  BY <1>1, PortedWiring DEF Nodes, IsWiring
<1> HIDE DEF m
<1>3. IsFiniteSet(D)
  <2>0. 1 \in Int /\ m \in Int /\ g.nodes \in Int
    BY <1>2
  <2>1. IsFiniteSet(Nodes) /\ IsFiniteSet(1..m)
    BY <2>0, FS_Interval DEF Nodes
  <2>2. IsFiniteSet(Nodes \X (1..m))
    BY <2>1, FS_Product
  <2>3. D \in SUBSET (Nodes \X (1..m))
    BY DEF Dependents, m
  <2> HIDE DEF D
  <2> QED
    BY <2>2, <2>3, FS_Subset
<1>4. PICK d : D = {d}
  BY <1>3, FS_Singleton
<1>5. /\ d \in Nodes \X (1..m) /\ d[2] <= Len(ins[d[1]]) /\ ins[d[1]][d[2]][1] = p
      /\ Cardinality(Dependencies(ins, d[1])) = 1
  <2>1. d \in D
    BY <1>4
  <2> QED
    BY <2>1 DEF Dependents, m
<1> DEFINE n == d[1]
           k == d[2]
<1>6. n \in Nodes /\ k \in 1..Len(ins[n]) /\ ins[n][k][1] = p
  BY <1>1, <1>5
<1>7. (CHOOSE x \in D : TRUE)[1] = n
  BY <1>4
<1>8. \A j \in 1..Len(ins[n]) : ins[n][j][1] # 0 => j = k
  <2> DEFINE E == Dependencies(ins, n)
  <2>1. E \in SUBSET (1..Len(ins[n])) /\ k \in E
    BY <1>2, <1>6 DEF Dependencies
  <2>2. IsFiniteSet(1..Len(ins[n]))
    <3>1. 1 \in Int /\ Len(ins[n]) \in Int
      BY <1>1, <1>6
    <3> QED
      BY <3>1, FS_Interval
  <2>3. IsFiniteSet(E) /\ Cardinality(E) = 1
    <3>1. Cardinality(E) = 1
      BY <1>5
    <3> HIDE DEF E
    <3> QED
      BY <2>1, <2>2, <3>1, FS_Subset
  <2>4. PICK e : E = {e}
    <3> HIDE DEF E
    <3> QED
      BY <2>3, FS_Singleton
  <2>5. E = {k}
    <3> HIDE DEF E
    <3> QED
      BY <2>1, <2>4
  <2> QED
    BY <2>5 DEF Dependencies
<1>9. ASSUME NEW t \in Nodes, NEW j \in 1..Len(ins[t]), ins[t][j][1] = p PROVE t = n
  <2>1. j \in 1..m
    BY <1>1, <1>2
  <2>2. <<t, j>> \in D
    BY <1>1, <1>9, <2>1 DEF Dependents, m
  <2> QED
    BY <1>4, <2>2
<1> HIDE DEF n, k
<1>10. Link(ins, g, p, n)
  BY <1>6, <1>8, <1>9 DEF Link, Nodes
<1> HIDE DEF D
<1> QED
  BY <1>6, <1>7, <1>10 DEF D

LEMMA ChainExtends ==
    ASSUME ReadyPlan, NEW ins, Reads(ins, g, Outs, Kept), NEW start,
           NEW c \in Chains(ins, start)
    PROVE  ExtendChain(ins, c) \in Chains(ins, start)
<1>1. /\ c \in Seq(Nodes) /\ Len(c) \in Nat \ {0} /\ c[1] = start
      /\ \A i \in 1..(Len(c) - 1) : Link(ins, g, c[i], c[i + 1])
  BY DEF Chains
<1> DEFINE p == c[Len(c)]
           D == Dependents(ins, p)
           n == (CHOOSE d \in D : TRUE)[1]
<1>2. p \in Nodes /\ p = Last(c)
  BY <1>1 DEF Last
<1>3. CASE ExtendChain(ins, c) = c
  BY <1>3
<1>4. CASE Cardinality(D) = 1 /\ \A d \in D : Cardinality(Dependencies(ins, d[1])) = 1
  <2>1. n \in Nodes /\ Link(ins, g, p, n)
    BY <1>2, <1>4, DependentsLink
  <2>2. ExtendChain(ins, c) = Append(c, n)
    BY <1>2, <1>4 DEF ExtendChain
  <2> HIDE DEF n
  <2> DEFINE r == Append(c, n)
  <2>3. r \in Seq(Nodes) /\ Len(r) = Len(c) + 1 /\ r[Len(c) + 1] = n /\ \A i \in 1..Len(c) : r[i] = c[i]
    BY <1>1, <2>1, AppendProperties
  <2> HIDE DEF r
  <2>4. ASSUME NEW i \in 1..(Len(r) - 1) PROVE Link(ins, g, r[i], r[i + 1])
    <3>1. CASE i = Len(c)
      <4>1. r[i] = p /\ r[i + 1] = n
        BY <1>1, <2>3, <3>1
      <4> QED
        BY <2>1, <4>1
    <3>2. CASE i # Len(c)
      <4>1. i \in 1..(Len(c) - 1) /\ r[i] = c[i] /\ r[i + 1] = c[i + 1]
        BY <1>1, <2>3, <3>2
      <4> QED
        BY <1>1, <4>1
    <3> QED
      BY <3>1, <3>2
  <2>5. Len(r) >= 1 /\ r[1] = start
    BY <1>1, <2>3
  <2>6. r \in Chains(ins, start)
    BY <2>3, <2>4, <2>5 DEF Chains
  <2> QED
    BY <2>2, <2>6 DEF r
<1> QED
  BY <1>2, <1>3, <1>4 DEF ExtendChain

LEMMA ChainIsChain ==
    ASSUME ReadyPlan, NEW ins, Reads(ins, g, Outs, Kept), NEW start \in Nodes
    PROVE  ChainFrom(ins, start) \in Chains(ins, start)
<1> DEFINE n == g.nodes - 1
           base == <<start>>
           Step(k, x) == ExtendChain(ins, x)
           States(k) == Chains(ins, start)
           All == UNION {States(k) : k \in 0..n}
           F == [p \in (1..n) \X All |-> Step(p[1], p[2])]
           St == [k \in 0..n |-> States(k)]
           Solution(it) == it = [k \in 0..n |-> IF k = 0 THEN base ELSE Step(k, it[k - 1])]
           at == CHOOSE it : Solution(it)
<1>1. n \in Nat
  BY PortedWiring DEF IsWiring
<1>2. ChainFrom(ins, start) = at[n]
  BY Zenon DEF ChainFrom
<1>3. base \in States(0) /\ \A k \in 1..n : \A x \in States(k - 1) : Step(k, x) \in States(k)
  <2>1. base \in States(0)
    BY DEF Chains
  <2> QED
    BY <2>1, ChainExtends
<1> HIDE DEF n, base, States, Step
<1>4. ASSUME NEW k \in 1..n, NEW x \in States(k - 1)
      PROVE  F[<<k, x>>] = Step(k, x)
  <2>1. k - 1 \in 0..n
    BY <1>1
  <2>2. x \in All
    BY <2>1
  <2> HIDE DEF All
  <2> QED
    BY <2>2
<1> HIDE DEF F
<1>5. StepsWithin(base, F, n, St)
  <2>1. \A k \in 0..n : St[k] = States(k)
    OBVIOUS
  <2>2. 0 \in 0..n /\ \A k \in 1..n : k - 1 \in 0..n /\ k \in 0..n
    BY <1>1
  <2> HIDE DEF St, All
  <2> QED
    BY <1>3, <1>4, <2>1, <2>2 DEF StepsWithin
<1>6. \A k \in 1..n : St[k - 1] = States(k - 1)
  BY <1>1
<1>7. \A k \in 0..n : St[k] = States(k)
  OBVIOUS
<1> HIDE DEF St, All
<1>8. PICK it : Iterates(it, base, F, n)
  BY <1>1, IterationExists
<1>9. \A k \in 0..n : it[k] \in St[k]
  <2>1. it[0] = base
    BY <1>1, <1>8 DEF Iterates
  <2>2. \A k \in 1..n : it[k] = F[<<k, it[k - 1]>>]
    BY <1>1, <1>8 DEF Iterates
  <2> QED
    BY <1>1, <1>5, <2>1, <2>2, IterationStays
<1>10. Solution(it)
  <2>1. ASSUME NEW k \in 1..n PROVE F[<<k, it[k - 1]>>] = Step(k, it[k - 1])
    <3>1. k - 1 \in 0..n
      BY <1>1
    <3>2. it[k - 1] \in States(k - 1)
      BY <1>6, <1>9, <3>1
    <3> QED
      BY <1>4, <3>2
  <2>2. \A k \in 0..n : (IF k = 0 THEN base ELSE F[<<k, it[k - 1]>>])
                        = IF k = 0 THEN base ELSE Step(k, it[k - 1])
    BY <1>1, <2>1
  <2>3. it = [k \in 0..n |-> IF k = 0 THEN base ELSE F[<<k, it[k - 1]>>]]
    BY <1>8 DEF Iterates
  <2> QED
    BY <2>2, <2>3
<1>11. Solution(at)
  <2> HIDE DEF Solution
  <2> QED
    BY <1>10
<1> HIDE DEF at
<1>12. at[0] = base /\ \A k \in 1..n : at[k] = Step(k, at[k - 1])
  BY <1>1, <1>11
<1>13. \A k \in 0..n : at[k] \in St[k]
  <2>1. ASSUME NEW k \in 1..n, at[k - 1] \in St[k - 1] PROVE at[k] = F[<<k, at[k - 1]>>]
    <3>1. at[k - 1] \in States(k - 1)
      BY <1>6, <2>1
    <3> QED
      BY <1>4, <1>12, <3>1
  <2> HIDE DEF Solution
  <2> QED
    BY <1>1, <1>5, <1>12, <2>1, IterationStays
<1> HIDE DEF Solution
<1>14. at[n] \in States(n)
  <2>1. n \in 0..n
    BY <1>1
  <2> QED
    BY <1>7, <1>13, <2>1
<1> QED
  BY <1>2, <1>14 DEF States

\* Two chains that meet started at the same node: the way back is determined.
LEMMA ChainsApart ==
    ASSUME ReadyPlan, NEW ins, NEW a, NEW b, NEW s \in Chains(ins, a), NEW t \in Chains(ins, b),
           Dependencies(ins, a) = {}, Dependencies(ins, b) = {},
           NEW i \in 1..Len(s), NEW j \in 1..Len(t), s[i] = t[j]
    PROVE  a = b
<1>1. /\ s \in Seq(Nodes) /\ t \in Seq(Nodes) /\ Len(s) \in Nat /\ Len(t) \in Nat
      /\ \A m \in 1..(Len(s) - 1) : Link(ins, g, s[m], s[m + 1])
      /\ \A m \in 1..(Len(t) - 1) : Link(ins, g, t[m], t[m + 1])
      /\ s[1] = a /\ t[1] = b
  BY DEF Chains
<1>2. ASSUME NEW p \in Nodes, NEW x, Link(ins, g, p, x) PROVE Dependencies(ins, x) # {}
  <2>1. p # 0
    BY PortedWiring DEF Nodes, IsWiring
  <2> QED
    BY <1>2, <2>1 DEF Link, Dependencies
<1>3. ASSUME NEW p \in Nodes, NEW q \in Nodes, NEW x, Link(ins, g, p, x), Link(ins, g, q, x) PROVE p = q
  <2>1. p # 0 /\ q # 0
    BY PortedWiring DEF Nodes, IsWiring
  <2> QED
    BY <1>3, <2>1 DEF Link
<1> DEFINE T == {m \in 1..Len(s) : \E n \in 1..Len(t) : s[m] = t[n]}
<1>4. PICK m \in T : \A x \in T : m <= x
  <2>1. T \subseteq Nat /\ i \in T
    BY <1>1
  <2> HIDE DEF T
  <2> QED
    BY <2>1, LeastCount
<1>5. PICK n \in 1..Len(t) : s[m] = t[n]
  OBVIOUS
<1>6. m = 1
  <2> SUFFICES ASSUME m # 1 PROVE FALSE
    OBVIOUS
  <2>1. m - 1 \in 1..(Len(s) - 1) /\ s[m - 1] \in Nodes
    BY <1>1
  <2>2. Link(ins, g, s[m - 1], s[m])
    BY <1>1, <2>1
  <2>3. n # 1
    BY <1>1, <1>2, <1>5, <2>1, <2>2
  <2>4. n - 1 \in 1..(Len(t) - 1) /\ t[n - 1] \in Nodes
    BY <1>1, <2>3
  <2>5. Link(ins, g, t[n - 1], s[m])
    BY <1>1, <1>5, <2>4
  <2>6. s[m - 1] = t[n - 1]
    BY <1>3, <2>1, <2>2, <2>4, <2>5
  <2>7. m - 1 \in T
    BY SMTT(60), <1>1, <2>1, <2>4, <2>6
  <2>8. m \in Int
    BY <1>1
  <2> HIDE DEF T
  <2> QED
    BY <1>4, <2>7, <2>8
<1>7. n = 1
  <2> SUFFICES ASSUME n # 1 PROVE FALSE
    OBVIOUS
  <2>1. n - 1 \in 1..(Len(t) - 1) /\ t[n - 1] \in Nodes
    BY <1>1
  <2>2. Link(ins, g, t[n - 1], a)
    BY <1>1, <1>5, <1>6, <2>1
  <2> QED
    BY <1>2, <2>1, <2>2
<1> QED
  BY <1>1, <1>5, <1>6, <1>7

\* Levels rise along a chain, so no node is in it twice.
LEMMA ChainRises ==
    ASSUME ReadyPlan, NEW ins, NEW lv, Rising(ins, lv, g), NEW start, NEW c \in Chains(ins, start),
           NEW i \in 1..Len(c), NEW j \in 1..Len(c), i < j
    PROVE  lv[c[i]] < lv[c[j]]
<1>1. /\ c \in Seq(Nodes) /\ Len(c) \in Nat /\ \A m \in 1..Len(c) : c[m] \in Nodes /\ lv[c[m]] \in Int
      /\ \A m \in 1..(Len(c) - 1) : Link(ins, g, c[m], c[m + 1])
  <2>1. c \in Seq(Nodes) /\ \A m \in 1..(Len(c) - 1) : Link(ins, g, c[m], c[m + 1])
    BY DEF Chains
  <2>2. lv \in [Nodes -> Int]
    BY DEF Rising, Nodes
  <2> QED
    BY <2>1, <2>2
<1> DEFINE T == {m \in 1..Len(c) : i < m /\ ~(lv[c[i]] < lv[c[m]])}
<1> SUFFICES ASSUME T # {} PROVE FALSE
  OBVIOUS
<1>2. PICK m \in T : \A x \in T : m <= x
  <2>1. T \subseteq Nat
    BY <1>1
  <2> HIDE DEF T
  <2> QED
    BY <2>1, LeastCount
<1>3. m - 1 \in 1..(Len(c) - 1) /\ m - 1 \notin T /\ m - 1 \in 1..Len(c) /\ m \in 1..Len(c)
  BY <1>1, <1>2
<1>4. lv[c[m - 1]] < lv[c[m]]
  <2>1. Link(ins, g, c[m - 1], c[m])
    BY <1>1, <1>3
  <2>2. PICK k \in 1..Len(ins[c[m]]) : ins[c[m]][k][1] = c[m - 1]
    BY <2>1 DEF Link
  <2>3. c[m - 1] \in Nodes /\ c[m] \in Nodes
    BY <1>1, <1>3
  <2>4. c[m - 1] # 0 /\ c[m] \in 1..g.nodes
    BY <2>3, PortedWiring DEF Nodes, IsWiring
  <2> QED
    BY <2>2, <2>4 DEF Rising
<1>5. lv[c[i]] <= lv[c[m - 1]]
  BY <1>1, <1>3
<1>6. lv[c[i]] \in Int /\ lv[c[m]] \in Int /\ lv[c[m - 1]] \in Int
  BY <1>1, <1>3
<1>7. ~(lv[c[i]] < lv[c[m]])
  OBVIOUS
<1> QED
  BY <1>4, <1>5, <1>6, <1>7

\* Wherever two of the spans meet they are the same span.
Disjoint(X) ==
    \A x, y \in X : \A i \in 1..Len(x) : \A j \in 1..Len(y) : x[i] = y[j] => x = y /\ i = j

\* What FuseAt has collected from a chain.
FuseStates(c, fusable) ==
    {acc \in [next : Nat, spans : SUBSET fusable] :
        /\ \A x \in acc.spans : \E a \in 1..Len(c) : \E e \in (a + 1)..Len(c) :
              x = SubSeq(c, a, e) /\ e < acc.next
        /\ Disjoint(acc.spans)}

LEMMA SpanEntries ==
    ASSUME NEW S, NEW c \in Seq(S), NEW a \in 1..Len(c), NEW e \in (a + 1)..Len(c)
    PROVE  /\ SubSeq(c, a, e) \in Seq(S)
           /\ Len(SubSeq(c, a, e)) = (e - a) + 1
           /\ \A k \in 1..((e - a) + 1) : SubSeq(c, a, e)[k] = c[(a + k) - 1] /\ (a + k) - 1 \in 1..Len(c)
<1>1. Len(c) \in Nat /\ \A k \in a..e : c[k] \in S
  OBVIOUS
<1>2. \A k \in 1..((e - a) + 1) : (a + k) - 1 \in 1..Len(c)
  BY <1>1
<1> QED
  BY <1>1, <1>2, SubSeqProperties

LEMMA FuseStep ==
    ASSUME NEW S, NEW c \in Seq(S), \A i, j \in 1..Len(c) : c[i] = c[j] => i = j,
           NEW acc \in FuseStates(c, g.fusable), NEW i \in 1..Len(c)
    PROVE  FuseAt(c, acc, i) \in FuseStates(c, g.fusable)
<1> DEFINE ends == {e \in (i + 1)..Len(c) : SubSeq(c, i, e) \in g.fusable}
           m == Max(ends)
           z == SubSeq(c, i, m)
<1>1. Len(c) \in Nat /\ i \in Int
  OBVIOUS
<1>2. /\ acc \in [next : Nat, spans : SUBSET g.fusable] /\ Disjoint(acc.spans)
      /\ \A x \in acc.spans : \E a \in 1..Len(c) : \E e \in (a + 1)..Len(c) :
            x = SubSeq(c, a, e) /\ e < acc.next
  BY DEF FuseStates
<1>3. CASE i < acc.next \/ ends = {}
  BY <1>3 DEF FuseAt
<1>4. CASE ~(i < acc.next) /\ ends # {}
  <2>1. m \in ends
    <3>1. ends \subseteq Int /\ Len(c) \in Int /\ \A e \in ends : e <= Len(c)
      BY <1>1
    <3> HIDE DEF ends
    <3> QED
      BY <1>4, <3>1, MaxIsGreatest
  <2>2. m \in (i + 1)..Len(c) /\ z \in g.fusable
    BY <2>1
  <2>3. FuseAt(c, acc, i) = [next |-> m + 1, spans |-> acc.spans \cup {z}]
    BY <1>4 DEF FuseAt
  <2> HIDE DEF m, ends
  <2>4. /\ z \in Seq(S) /\ Len(z) = (m - i) + 1
        /\ \A k \in 1..((m - i) + 1) : z[k] = c[(i + k) - 1] /\ (i + k) - 1 \in 1..Len(c)
    BY <2>2, SpanEntries
  <2>5. z = SubSeq(c, i, m)
    OBVIOUS
  <2> HIDE DEF z
  <2>6. m \in Nat /\ m + 1 \in Nat
    BY <1>1, <2>2
  <2>7. ASSUME NEW x \in acc.spans \cup {z}
        PROVE  \E a \in 1..Len(c) : \E e \in (a + 1)..Len(c) : x = SubSeq(c, a, e) /\ e < m + 1
    <3>1. CASE x = z
      <4>1. m < m + 1
        BY <2>6
      <4> QED
        BY <2>2, <2>5, <3>1, <4>1
    <3>2. CASE x \in acc.spans
      <4>1. PICK a \in 1..Len(c) : \E e \in (a + 1)..Len(c) : x = SubSeq(c, a, e) /\ e < acc.next
        BY <1>2, <3>2
      <4>2. PICK e \in (a + 1)..Len(c) : x = SubSeq(c, a, e) /\ e < acc.next
        BY <4>1
      <4>3. e < m + 1
        BY <1>1, <1>2, <1>4, <2>2, <2>6, <4>2
      <4> QED
        BY <4>2, <4>3
    <3> QED
      BY <3>1, <3>2
  <2>8. ASSUME NEW x \in acc.spans, NEW j \in 1..Len(x), NEW k \in 1..Len(z) PROVE x[j] # z[k]
    <3>1. PICK a \in 1..Len(c) : \E e \in (a + 1)..Len(c) : x = SubSeq(c, a, e) /\ e < acc.next
      BY <1>2
    <3>2. PICK e \in (a + 1)..Len(c) : x = SubSeq(c, a, e) /\ e < acc.next
      BY <3>1
    <3>3. /\ Len(x) = (e - a) + 1
          /\ \A n \in 1..((e - a) + 1) : x[n] = c[(a + n) - 1] /\ (a + n) - 1 \in 1..Len(c)
      BY <3>2, SpanEntries
    <3> DEFINE u == (a + j) - 1
               v == (i + k) - 1
    <3>4. u \in 1..Len(c) /\ x[j] = c[u]
      BY <3>3
    <3>5. v \in 1..Len(c) /\ z[k] = c[v]
      BY <2>4
    <3>6. u # v
      BY <1>1, <1>2, <1>4, <2>2, <2>4, <2>6, <3>2, <3>3
    <3> HIDE DEF u, v
    <3> QED
      BY <3>4, <3>5, <3>6
  <2>9. ASSUME NEW j \in 1..Len(z), NEW k \in 1..Len(z), z[j] = z[k] PROVE j = k
    <3> DEFINE u == (i + j) - 1
               v == (i + k) - 1
    <3>1. u \in 1..Len(c) /\ v \in 1..Len(c) /\ z[j] = c[u] /\ z[k] = c[v]
      BY <2>4
    <3>2. u = v
      <4> HIDE DEF u, v
      <4> QED
        BY <2>9, <3>1
    <3> QED
      BY <1>1, <2>2, <2>4, <3>2
  <2>10. Disjoint(acc.spans \cup {z})
    <3> SUFFICES ASSUME NEW x \in acc.spans \cup {z}, NEW y \in acc.spans \cup {z},
                        NEW j \in 1..Len(x), NEW k \in 1..Len(y), x[j] = y[k]
                 PROVE  x = y /\ j = k
      BY DEF Disjoint
    <3>1. CASE x \in acc.spans /\ y \in acc.spans
      <4> DEFINE X == acc.spans
      <4>1. Disjoint(X) /\ x \in X /\ y \in X
        BY <1>2, <3>1
      <4> HIDE DEF X
      <4> QED
        BY <4>1 DEF Disjoint
    <3>2. CASE x = z /\ y = z
      BY <2>9, <3>2
    <3>3. CASE x \in acc.spans /\ y = z
      BY <2>8, <3>3
    <3>4. CASE x = z /\ y \in acc.spans
      BY <2>8, <3>4
    <3> QED
      BY <3>1, <3>2, <3>3, <3>4
  <2>11. acc.spans \cup {z} \in SUBSET g.fusable
    BY <1>2, <2>2
  <2> DEFINE X == acc.spans \cup {z}
             new == [next |-> m + 1, spans |-> X]
  <2>12. X \in SUBSET g.fusable /\ Disjoint(X) /\ \A x \in X :
            \E a \in 1..Len(c) : \E e \in (a + 1)..Len(c) : x = SubSeq(c, a, e) /\ e < m + 1
    BY <2>7, <2>10, <2>11
  <2> HIDE DEF X
  <2>13. new.next = m + 1 /\ new.spans = X /\ new \in [next : Nat, spans : SUBSET g.fusable]
    BY <2>6, <2>12
  <2> HIDE DEF new
  <2>14. new \in FuseStates(c, g.fusable)
    <3>1. Disjoint(new.spans)
      BY <2>12, <2>13
    <3>2. \A x \in new.spans : \E a \in 1..Len(c) : \E e \in (a + 1)..Len(c) :
             x = SubSeq(c, a, e) /\ e < new.next
      BY <2>12, <2>13
    <3> QED
      BY <2>13, <3>1, <3>2, Zenon DEF FuseStates
  <2> QED
    BY <2>3, <2>14 DEF new, X
<1> QED
  BY <1>3, <1>4

LEMMA FusedSpansFacts ==
    ASSUME NEW S, NEW c \in Seq(S), \A i, j \in 1..Len(c) : c[i] = c[j] => i = j
    PROVE  /\ FusedSpans(c) \subseteq g.fusable /\ Disjoint(FusedSpans(c))
           /\ \A x \in FusedSpans(c) : \E a \in 1..Len(c) : \E e \in (a + 1)..Len(c) : x = SubSeq(c, a, e)
<1> DEFINE n == Len(c)
           base == [next |-> 1, spans |-> {}]
           Step(k, x) == FuseAt(c, x, k)
           States(k) == FuseStates(c, g.fusable)
           All == UNION {States(k) : k \in 0..n}
           F == [p \in (1..n) \X All |-> Step(p[1], p[2])]
           St == [k \in 0..n |-> States(k)]
           Solution(it) == it = [k \in 0..n |-> IF k = 0 THEN base ELSE Step(k, it[k - 1])]
           at == CHOOSE it : Solution(it)
<1>1. n \in Nat
  OBVIOUS
<1>2. FusedSpans(c) = at[n].spans
  BY Zenon DEF FusedSpans
<1>3. base \in States(0) /\ \A k \in 1..n : \A x \in States(k - 1) : Step(k, x) \in States(k)
  <2>1. base \in States(0)
    BY DEF FuseStates, Disjoint
  <2> QED
    BY <2>1, FuseStep
<1> HIDE DEF n, base, States, Step
<1>4. ASSUME NEW k \in 1..n, NEW x \in States(k - 1)
      PROVE  F[<<k, x>>] = Step(k, x)
  <2>1. k - 1 \in 0..n
    BY <1>1
  <2>2. x \in All
    BY <2>1
  <2> HIDE DEF All
  <2> QED
    BY <2>2
<1> HIDE DEF F
<1>5. StepsWithin(base, F, n, St)
  <2>1. \A k \in 0..n : St[k] = States(k)
    OBVIOUS
  <2>2. 0 \in 0..n /\ \A k \in 1..n : k - 1 \in 0..n /\ k \in 0..n
    BY <1>1
  <2> HIDE DEF St, All
  <2> QED
    BY <1>3, <1>4, <2>1, <2>2 DEF StepsWithin
<1>6. \A k \in 1..n : St[k - 1] = States(k - 1)
  BY <1>1
<1>7. \A k \in 0..n : St[k] = States(k)
  OBVIOUS
<1> HIDE DEF St, All
<1>8. PICK it : Iterates(it, base, F, n)
  BY <1>1, IterationExists
<1>9. \A k \in 0..n : it[k] \in St[k]
  <2>1. it[0] = base
    BY <1>1, <1>8 DEF Iterates
  <2>2. \A k \in 1..n : it[k] = F[<<k, it[k - 1]>>]
    BY <1>1, <1>8 DEF Iterates
  <2> QED
    BY <1>1, <1>5, <2>1, <2>2, IterationStays
<1>10. Solution(it)
  <2>1. ASSUME NEW k \in 1..n PROVE F[<<k, it[k - 1]>>] = Step(k, it[k - 1])
    <3>1. k - 1 \in 0..n
      BY <1>1
    <3>2. it[k - 1] \in States(k - 1)
      BY <1>6, <1>9, <3>1
    <3> QED
      BY <1>4, <3>2
  <2>2. \A k \in 0..n : (IF k = 0 THEN base ELSE F[<<k, it[k - 1]>>])
                        = IF k = 0 THEN base ELSE Step(k, it[k - 1])
    BY <1>1, <2>1
  <2>3. it = [k \in 0..n |-> IF k = 0 THEN base ELSE F[<<k, it[k - 1]>>]]
    BY <1>8 DEF Iterates
  <2> QED
    BY <2>2, <2>3
<1>11. Solution(at)
  <2> HIDE DEF Solution
  <2> QED
    BY <1>10
<1> HIDE DEF at
<1>12. at[0] = base /\ \A k \in 1..n : at[k] = Step(k, at[k - 1])
  BY <1>1, <1>11
<1>13. \A k \in 0..n : at[k] \in St[k]
  <2>1. ASSUME NEW k \in 1..n, at[k - 1] \in St[k - 1] PROVE at[k] = F[<<k, at[k - 1]>>]
    <3>1. at[k - 1] \in States(k - 1)
      BY <1>6, <2>1
    <3> QED
      BY <1>4, <1>12, <3>1
  <2> HIDE DEF Solution
  <2> QED
    BY <1>1, <1>5, <1>12, <2>1, IterationStays
<1> HIDE DEF Solution
<1>14. at[n] \in States(n)
  <2>1. n \in 0..n
    BY <1>1
  <2> QED
    BY <1>7, <1>13, <2>1
<1> DEFINE acc == at[n]
<1> HIDE DEF acc
<1>15. acc \in FuseStates(c, g.fusable) /\ FusedSpans(c) = acc.spans
  BY <1>2, <1>14 DEF States, acc
<1> QED
  BY <1>15 DEF FuseStates

\* The groups of the inverse DAG: spans of linked nodes with one port each,
\* no node in two of them.
Grouped(groups, ins, h) ==
    /\ Disjoint(groups)
    /\ \A x \in groups :
          /\ x \in Seq(1..h.nodes) /\ Len(x) >= 2
          /\ \A i \in 1..(Len(x) - 1) : Link(ins, h, x[i], x[i + 1])
          /\ \A i \in 1..Len(x) : Len(h.ports[x[i]]) = 1

LEMMA GroupsGrouped ==
    ASSUME ReadyPlan, NEW ins, Reads(ins, g, Outs, Kept), NEW lv, Rising(ins, lv, g)
    PROVE  Grouped(FusedInverseGroups(ins), ins, g)
<1> DEFINE Starts == {n \in Nodes : Dependencies(ins, n) = {}}
<1>1. ASSUME NEW a \in Nodes
      PROVE  /\ ChainFrom(ins, a) \in Chains(ins, a) /\ ChainFrom(ins, a) \in Seq(Nodes)
             /\ \A i, j \in 1..Len(ChainFrom(ins, a)) : ChainFrom(ins, a)[i] = ChainFrom(ins, a)[j] => i = j
  <2> DEFINE c == ChainFrom(ins, a)
  <2>1. c \in Chains(ins, a)
    BY ChainIsChain
  <2>2. c \in Seq(Nodes)
    BY <2>1 DEF Chains
  <2> HIDE DEF c
  <2>3. ASSUME NEW i \in 1..Len(c), NEW j \in 1..Len(c), i < j PROVE c[i] # c[j]
    <3>1. lv[c[i]] < lv[c[j]]
      BY <2>1, <2>3, ChainRises
    <3>2. c[i] \in Nodes
      BY <2>2
    <3>3. lv[c[i]] \in Int
      BY <3>2 DEF Rising, Nodes
    <3> QED
      BY <3>1, <3>3
  <2>4. \A i, j \in 1..Len(c) : c[i] = c[j] => i = j
    <3>1. \A i, j \in 1..Len(c) : i < j \/ j < i \/ i = j
      BY <2>2
    <3> QED
      BY <2>3, <3>1
  <2> QED
    BY <2>1, <2>2, <2>4 DEF c
<1>2. ASSUME NEW x \in FusedInverseGroups(ins)
      PROVE  \E a \in Starts : x \in FusedSpans(ChainFrom(ins, a))
  BY <1>2 DEF FusedInverseGroups
<1>3. ASSUME NEW a \in Starts, NEW x \in FusedSpans(ChainFrom(ins, a))
      PROVE  /\ x \in g.fusable /\ x \in Seq(Nodes) /\ Len(x) >= 2
             /\ \A i \in 1..(Len(x) - 1) : Link(ins, g, x[i], x[i + 1])
             /\ \A i \in 1..Len(x) : \E m \in 1..Len(ChainFrom(ins, a)) : x[i] = ChainFrom(ins, a)[m]
  <2> DEFINE c == ChainFrom(ins, a)
  <2>1. /\ c \in Chains(ins, a) /\ c \in Seq(Nodes)
        /\ \A i, j \in 1..Len(c) : c[i] = c[j] => i = j
    BY <1>1
  <2>2. x \in FusedSpans(c)
    OBVIOUS
  <2> HIDE DEF c
  <2>3. x \in g.fusable /\ \E b \in 1..Len(c) : \E e \in (b + 1)..Len(c) : x = SubSeq(c, b, e)
    BY <2>1, <2>2, FusedSpansFacts
  <2>4. PICK b \in 1..Len(c) : \E e \in (b + 1)..Len(c) : x = SubSeq(c, b, e)
    BY <2>3
  <2>5. PICK e \in (b + 1)..Len(c) : x = SubSeq(c, b, e)
    BY <2>4
  <2>6. /\ x \in Seq(Nodes) /\ Len(x) = (e - b) + 1
        /\ \A k \in 1..((e - b) + 1) : x[k] = c[(b + k) - 1] /\ (b + k) - 1 \in 1..Len(c)
    BY <2>1, <2>5, SpanEntries
  <2>7. Len(c) \in Nat
    BY <2>1
  <2>8. ASSUME NEW i \in 1..(Len(x) - 1) PROVE Link(ins, g, x[i], x[i + 1])
    <3>1. i \in 1..((e - b) + 1) /\ i + 1 \in 1..((e - b) + 1)
      BY <2>6, <2>7
    <3> DEFINE m == (b + i) - 1
    <3>2. m \in 1..(Len(c) - 1) /\ m + 1 = (b + (i + 1)) - 1
      BY <2>6, <2>7
    <3>3. x[i] = c[m] /\ x[i + 1] = c[m + 1]
      BY <2>6, <3>1, <3>2
    <3> HIDE DEF m
    <3>4. Link(ins, g, c[m], c[m + 1])
      BY <2>1, <3>2 DEF Chains
    <3> QED
      BY <3>3, <3>4
  <2>9. Len(x) >= 2
    BY <2>6, <2>7
  <2> QED
    BY <2>3, <2>6, <2>8, <2>9 DEF c
<1>4. ASSUME NEW x \in FusedInverseGroups(ins)
      PROVE  /\ x \in Seq(Nodes) /\ Len(x) >= 2
             /\ \A i \in 1..(Len(x) - 1) : Link(ins, g, x[i], x[i + 1])
             /\ \A i \in 1..Len(x) : Len(g.ports[x[i]]) = 1
  <2>1. PICK a \in Starts : x \in FusedSpans(ChainFrom(ins, a))
    BY <1>2
  <2> HIDE DEF Starts
  <2>2. x \in g.fusable
    BY <1>3, <2>1
  <2>3. \A i \in 1..Len(x) : Len(g.ports[x[i]]) = 1
    BY <2>2, PortedWiring DEF IsPorted
  <2> QED
    BY <1>3, <2>1, <2>3
<1>5. ASSUME NEW x \in FusedInverseGroups(ins), NEW y \in FusedInverseGroups(ins),
             NEW i \in 1..Len(x), NEW j \in 1..Len(y), x[i] = y[j]
      PROVE  x = y /\ i = j
  <2>1. PICK a \in Starts : x \in FusedSpans(ChainFrom(ins, a))
    BY <1>2
  <2>2. PICK b \in Starts : y \in FusedSpans(ChainFrom(ins, b))
    BY <1>2
  <2>3. PICK m \in 1..Len(ChainFrom(ins, a)) : x[i] = ChainFrom(ins, a)[m]
    BY <1>3, <2>1
  <2>4. PICK n \in 1..Len(ChainFrom(ins, b)) : y[j] = ChainFrom(ins, b)[n]
    BY <1>3, <2>2
  <2>5. a = b
    <3>1. a \in Nodes /\ b \in Nodes /\ Dependencies(ins, a) = {} /\ Dependencies(ins, b) = {}
      OBVIOUS
    <3>2. ChainFrom(ins, a) \in Chains(ins, a) /\ ChainFrom(ins, b) \in Chains(ins, b)
      BY <1>1, <3>1
    <3>3. ChainFrom(ins, a)[m] = ChainFrom(ins, b)[n]
      BY <1>5, <2>3, <2>4
    <3> QED
      BY <3>1, <3>2, <3>3, ChainsApart
  <2>6. Disjoint(FusedSpans(ChainFrom(ins, a)))
    <3>1. a \in Nodes
      OBVIOUS
    <3> QED
      BY <1>1, <3>1, FusedSpansFacts
  <2> QED
    BY <1>5, <2>1, <2>2, <2>5, <2>6 DEF Disjoint
<1> QED
  BY <1>4, <1>5 DEF Grouped, Disjoint, Nodes

-----------------------------------------------------------------------------
(***************************************************************************)
(* Running the inverse DAG.                                                *)
(***************************************************************************)
\* The buffers of the inverse DAG.
Cells(h, kept) ==
    ({0} \X kept) \cup UNION {{<<s, j>> : j \in 1..Len(h.ports[s])} : s \in 1..h.nodes}

\* What the buffers may hold with the archive's intact.
Contents(h, kept) ==
    {v \in [Cells(h, kept) -> Int] : \A b \in kept : v[<<0, b>>] = b}

\* The inverse of stage s has restored the inputs of s.
Restored(values, h, s) == \A j \in 1..Len(h.ports[s]) : values[<<s, j>>] = h.ports[s][j]

\* The inverse of stage s finds the outputs of s.
Supplied(values, ins, outs, s) == \A k \in 1..Len(ins[s]) : values[ins[s][k]] = outs[s][k]

LEMMA CellFacts ==
    ASSUME NEW h, NEW kept
    PROVE  /\ \A b \in kept : <<0, b>> \in Cells(h, kept)
           /\ \A s \in 1..h.nodes : \A j \in 1..Len(h.ports[s]) : <<s, j>> \in Cells(h, kept)
           /\ \A x \in Cells(h, kept) : x[1] # 0 => x[1] \in 1..h.nodes /\ x[2] \in 1..Len(h.ports[x[1]])
<1>1. ASSUME NEW x \in Cells(h, kept), x[1] # 0
      PROVE  x[1] \in 1..h.nodes /\ x[2] \in 1..Len(h.ports[x[1]])
  <2>1. x \notin {0} \X kept
    BY <1>1
  <2>2. PICK s \in 1..h.nodes : x \in {<<s, j>> : j \in 1..Len(h.ports[s])}
    BY <2>1 DEF Cells
  <2>3. PICK j \in 1..Len(h.ports[s]) : x = <<s, j>>
    BY <2>2
  <2> QED
    BY <2>3
<1>2. ASSUME NEW s \in 1..h.nodes, NEW j \in 1..Len(h.ports[s]) PROVE <<s, j>> \in Cells(h, kept)
  <2>1. <<s, j>> \in {<<s, i>> : i \in 1..Len(h.ports[s])}
    OBVIOUS
  <2> QED
    BY <2>1 DEF Cells
<1>3. \A b \in kept : <<0, b>> \in Cells(h, kept)
  BY DEF Cells
<1> QED
  BY <1>1, <1>2, <1>3

LEMMA StageRuns ==
    ASSUME ReadyPlan, Reads(inv.inputs, g, Outs, Kept), NEW s \in Nodes,
           NEW v \in Contents(g, Kept), Supplied(v, inv.inputs, Outs, s)
    PROVE  WithOutputs(v, s) \in Contents(g, Kept) /\ Restored(WithOutputs(v, s), g, s)
<1>1. Outs[s] = OutputIds(s) /\ OutputIds(s) \in Seq(Outputs(s)) /\ Len(inv.inputs[s]) = Len(Outs[s])
  BY OutputFacts DEF Outs, Reads, Nodes, Lists
<1>2. StageInverse(v, s) = g.ports[s]
  <2> DEFINE q == OutputIds(s)
             n == Len(inv.inputs[s])
             f == [k \in 1..n |-> v[inv.inputs[s][k]]]
  <2>1. n = Len(q) /\ q = [k \in 1..n |-> q[k]]
    BY <1>1
  <2>2. \A k \in 1..n : v[inv.inputs[s][k]] = q[k]
    BY <1>1 DEF Supplied
  <2>3. f = q
    <3> HIDE DEF q, n
    <3> QED
      BY <2>1, <2>2
  <2> QED
    BY <2>3 DEF StageInverse
<1>3. v \in [Cells(g, Kept) -> Int] /\ \A b \in Kept : v[<<0, b>>] = b
  BY DEF Contents
<1> DEFINE C == Cells(g, Kept)
           w == [x \in C |-> IF x[1] = s THEN g.ports[s][x[2]] ELSE v[x]]
<1>4. WithOutputs(v, s) = w
  <2>1. DOMAIN v = C
    BY <1>3
  <2> QED
    BY <1>2, <2>1 DEF WithOutputs
<1>5. s # 0 /\ s \in 1..g.nodes
  BY PortedWiring DEF Nodes, IsWiring
<1>6. \A x \in C : x[1] = s => x[2] \in 1..Len(g.ports[s])
  BY <1>5, CellFacts
<1>7. \A j \in 1..Len(g.ports[s]) : g.ports[s][j] \in Int
  <2>1. g.bufs \subseteq Nat
    BY PortedWiring DEF IsPorted
  <2> QED
    BY <2>1, PortFacts
<1>8. (\A j \in 1..Len(g.ports[s]) : <<s, j>> \in C) /\ (\A b \in Kept : <<0, b>> \in C)
  BY <1>5, CellFacts
<1> HIDE DEF C
<1>9. w \in [C -> Int]
  BY <1>3, <1>6, <1>7 DEF C
<1>10. \A b \in Kept : w[<<0, b>>] = b
  BY <1>3, <1>5, <1>8
<1>11. Restored(w, g, s)
  BY <1>8 DEF Restored
<1> QED
  BY <1>4, <1>9, <1>10, <1>11 DEF Contents, C

\* Along a link the inverse of the next stage finds what it needs.
LEMMA LinkSupplies ==
    ASSUME ReadyPlan, NEW ins, Reads(ins, g, Outs, Kept), NEW v \in Contents(g, Kept),
           NEW p \in Nodes, NEW n \in Nodes, Link(ins, g, p, n), Restored(v, g, p)
    PROVE  Supplied(v, ins, Outs, n)
<1> SUFFICES ASSUME NEW k \in 1..Len(ins[n]) PROVE v[ins[n][k]] = Outs[n][k]
  BY DEF Supplied
<1>1. CASE ins[n][k][1] = 0
  <2>1. \/ ins[n][k] = <<0, Outs[n][k]>> /\ Outs[n][k] \in Kept
        \/ \E t \in Nodes : \E j \in 1..Len(g.ports[t]) : ins[n][k] = <<t, j>>
    BY DEF Reads, Nodes
  <2>2. \A t \in Nodes : t # 0
    BY PortedWiring DEF Nodes, IsWiring
  <2>3. ins[n][k] = <<0, Outs[n][k]>> /\ Outs[n][k] \in Kept
    BY <1>1, <2>1, <2>2
  <2> QED
    BY <2>3 DEF Contents
<1>2. CASE ins[n][k][1] # 0
  <2>1. ins[n][k][1] = p
    BY <1>2, PortedWiring DEF Link, Nodes, IsWiring
  <2>2. ins[n][k][2] \in 1..Len(g.ports[p]) /\ g.ports[p][ins[n][k][2]] = Outs[n][k]
    <3>1. /\ ins[n][k][2] \in 1..Len(g.ports[ins[n][k][1]])
          /\ g.ports[ins[n][k][1]][ins[n][k][2]] = Outs[n][k]
      BY <1>2, ReadFromConsumer, ZenonT(60)
    <3> QED
      BY <2>1, <3>1
  <2>3. ins[n][k] = <<p, ins[n][k][2]>>
    <3>1. \/ ins[n][k] = <<0, Outs[n][k]>>
          \/ \E t \in Nodes : \E j \in 1..Len(g.ports[t]) : ins[n][k] = <<t, j>>
      BY DEF Reads, Nodes
    <3> QED
      BY <2>1, <3>1
  <2> QED
    BY <2>2, <2>3 DEF Restored
<1> QED
  BY <1>1, <1>2

\* What a fused group has behind its i-th member.
SpanStates(values, span, i) ==
    {v \in Contents(g, Kept) : IF i = 0 THEN v = values ELSE Restored(v, g, span[i])}

LEMMA SpanStep ==
    ASSUME ReadyPlan, Reads(inv.inputs, g, Outs, Kept), NEW values,
           NEW span \in Seq(Nodes), Supplied(values, inv.inputs, Outs, span[1]),
           \A i \in 1..(Len(span) - 1) : Link(inv.inputs, g, span[i], span[i + 1]),
           NEW i \in 1..Len(span), NEW v \in SpanStates(values, span, i - 1)
    PROVE  WithOutputs(v, span[i]) \in SpanStates(values, span, i)
<1>1. span[i] \in Nodes /\ Len(span) \in Nat /\ v \in Contents(g, Kept) /\ i # 0
  BY DEF SpanStates
<1>2. Supplied(v, inv.inputs, Outs, span[i])
  <2>1. CASE i = 1
    <3>1. v = values
      BY <2>1 DEF SpanStates
    <3> QED
      BY <2>1, <3>1
  <2>2. CASE i # 1
    <3>1. i - 1 \in 1..(Len(span) - 1) /\ i - 1 # 0 /\ (i - 1) + 1 = i /\ span[i - 1] \in Nodes
      BY <1>1, <2>2
    <3>2. Restored(v, g, span[i - 1])
      BY <3>1 DEF SpanStates
    <3>3. Link(inv.inputs, g, span[i - 1], span[i])
      BY <3>1
    <3> QED
      BY <1>1, <3>1, <3>2, <3>3, LinkSupplies
  <2> QED
    BY <2>1, <2>2
<1>3. WithOutputs(v, span[i]) \in Contents(g, Kept) /\ Restored(WithOutputs(v, span[i]), g, span[i])
  BY <1>1, <1>2, StageRuns
<1> QED
  BY <1>1, <1>3 DEF SpanStates

LEMMA SpanRestores ==
    ASSUME ReadyPlan, Reads(inv.inputs, g, Outs, Kept), NEW values \in Contents(g, Kept),
           NEW span \in Seq(Nodes), Len(span) >= 1, Supplied(values, inv.inputs, Outs, span[1]),
           \A i \in 1..(Len(span) - 1) : Link(inv.inputs, g, span[i], span[i + 1])
    PROVE  /\ RunSpan(values, span) \in Contents(g, Kept)
           /\ Restored(RunSpan(values, span), g, span[Len(span)])
<1> DEFINE n == Len(span)
           base == values
           Step(k, x) == WithOutputs(x, span[k])
           States(k) == SpanStates(values, span, k)
           All == UNION {States(k) : k \in 0..n}
           F == [p \in (1..n) \X All |-> Step(p[1], p[2])]
           St == [k \in 0..n |-> States(k)]
           Solution(it) == it = [k \in 0..n |-> IF k = 0 THEN base ELSE Step(k, it[k - 1])]
           at == CHOOSE it : Solution(it)
<1>1. n \in Nat
  OBVIOUS
<1>2. RunSpan(values, span) = at[n]
  BY Zenon DEF RunSpan
<1>3. base \in States(0) /\ \A k \in 1..n : \A x \in States(k - 1) : Step(k, x) \in States(k)
  <2>1. base \in States(0)
    BY DEF SpanStates
  <2> QED
    BY <2>1, SpanStep
<1> HIDE DEF n, base, States, Step
<1>4. ASSUME NEW k \in 1..n, NEW x \in States(k - 1)
      PROVE  F[<<k, x>>] = Step(k, x)
  <2>1. k - 1 \in 0..n
    BY <1>1
  <2>2. x \in All
    BY <2>1
  <2> HIDE DEF All
  <2> QED
    BY <2>2
<1> HIDE DEF F
<1>5. StepsWithin(base, F, n, St)
  <2>1. \A k \in 0..n : St[k] = States(k)
    OBVIOUS
  <2>2. 0 \in 0..n /\ \A k \in 1..n : k - 1 \in 0..n /\ k \in 0..n
    BY <1>1
  <2> HIDE DEF St, All
  <2> QED
    BY <1>3, <1>4, <2>1, <2>2 DEF StepsWithin
<1>6. \A k \in 1..n : St[k - 1] = States(k - 1)
  BY <1>1
<1>7. \A k \in 0..n : St[k] = States(k)
  OBVIOUS
<1> HIDE DEF St, All
<1>8. PICK it : Iterates(it, base, F, n)
  BY <1>1, IterationExists
<1>9. \A k \in 0..n : it[k] \in St[k]
  <2>1. it[0] = base
    BY <1>1, <1>8 DEF Iterates
  <2>2. \A k \in 1..n : it[k] = F[<<k, it[k - 1]>>]
    BY <1>1, <1>8 DEF Iterates
  <2> QED
    BY <1>1, <1>5, <2>1, <2>2, IterationStays
<1>10. Solution(it)
  <2>1. ASSUME NEW k \in 1..n PROVE F[<<k, it[k - 1]>>] = Step(k, it[k - 1])
    <3>1. k - 1 \in 0..n
      BY <1>1
    <3>2. it[k - 1] \in States(k - 1)
      BY <1>6, <1>9, <3>1
    <3> QED
      BY <1>4, <3>2
  <2>2. \A k \in 0..n : (IF k = 0 THEN base ELSE F[<<k, it[k - 1]>>])
                        = IF k = 0 THEN base ELSE Step(k, it[k - 1])
    BY <1>1, <2>1
  <2>3. it = [k \in 0..n |-> IF k = 0 THEN base ELSE F[<<k, it[k - 1]>>]]
    BY <1>8 DEF Iterates
  <2> QED
    BY <2>2, <2>3
<1>11. Solution(at)
  <2> HIDE DEF Solution
  <2> QED
    BY <1>10
<1> HIDE DEF at
<1>12. at[0] = base /\ \A k \in 1..n : at[k] = Step(k, at[k - 1])
  BY <1>1, <1>11
<1>13. \A k \in 0..n : at[k] \in St[k]
  <2>1. ASSUME NEW k \in 1..n, at[k - 1] \in St[k - 1] PROVE at[k] = F[<<k, at[k - 1]>>]
    <3>1. at[k - 1] \in States(k - 1)
      BY <1>6, <2>1
    <3> QED
      BY <1>4, <1>12, <3>1
  <2> HIDE DEF Solution
  <2> QED
    BY <1>1, <1>5, <1>12, <2>1, IterationStays
<1> HIDE DEF Solution
<1>14. at[n] \in States(n)
  <2>1. n \in 0..n
    BY <1>1
  <2> QED
    BY <1>7, <1>13, <2>1
<1>15. n # 0
  BY DEF n
<1> QED
  BY <1>2, <1>14, <1>15 DEF States, SpanStates, n

\* A stage of some fused group.
InGroup(groups, s) == \E x \in groups : \E i \in 1..Len(x) : x[i] = s

\* The nodes ran level by level; what they left is restored, except between
\* the members of a fused group, whose last member has its value as soon as
\* the head has run.
RestoredSoFar(ran, lv, groups, values, h, kept) ==
    /\ ran \subseteq 1..h.nodes
    /\ values \in Contents(h, kept)
    /\ \A s \in ran : \A t \in (1..h.nodes) \ ran : lv[s] <= lv[t]
    /\ \A s \in ran : ~InGroup(groups, s) => Restored(values, h, s)
    /\ \A x \in groups : x[1] \in ran => Restored(values, h, x[Len(x)])

InverseShape(r) ==
    r = [order |-> r.order, inputs |-> r.inputs, level |-> r.level,
         groups |-> r.groups, result |-> r.result, ran |-> r.ran]

Decoding ==
    /\ InverseShape(inv)
    /\ Reads(inv.inputs, g, Outs, Kept)
    /\ Rising(inv.inputs, inv.level, g)
    /\ Grouped(inv.groups, inv.inputs, g)
    /\ RestoredSoFar(inv.ran, inv.level, inv.groups, invValue, g, Kept)
    /\ inv.result = <<arSource[1], 1>>

LEMMA GroupFacts ==
    ASSUME ReadyPlan, NEW groups, NEW ins, Grouped(groups, ins, g), NEW x \in groups
    PROVE  /\ x \in Seq(Nodes) /\ Len(x) \in Nat /\ Len(x) >= 2 /\ x \in Chains(ins, x[1])
           /\ \A i \in 1..Len(x) : x[i] \in Nodes
<1>1. x \in Seq(Nodes) /\ Len(x) >= 2 /\ \A i \in 1..(Len(x) - 1) : Link(ins, g, x[i], x[i + 1])
  BY DEF Grouped, Nodes
<1>2. Len(x) \in Nat /\ Len(x) >= 1 /\ \A i \in 1..Len(x) : x[i] \in Nodes
  BY <1>1
<1> QED
  BY <1>1, <1>2 DEF Chains

\* A stage that is not dispatched with a head before it.
LEMMA FusedAwayFacts ==
    ASSUME ReadyPlan, Grouped(inv.groups, inv.inputs, g), NEW s
    PROVE  FusedAway(s) <=> \E x \in inv.groups : \E i \in 2..Len(x) : x[i] = s
<1>1. ASSUME NEW x \in inv.groups PROVE Contains(Tail(x), s) <=> \E i \in 2..Len(x) : x[i] = s
  <2>1. x \in Seq(Nodes) /\ Len(x) \in Nat /\ Len(x) >= 2
    BY GroupFacts
  <2>2. x # <<>>
    BY <2>1
  <2>3. Len(Tail(x)) = Len(x) - 1 /\ \A i \in 1..(Len(x) - 1) : Tail(x)[i] = x[i + 1]
    BY <2>1, <2>2, HeadTailProperties
  <2>4. ASSUME NEW i \in 1..(Len(x) - 1), Tail(x)[i] = s PROVE \E j \in 2..Len(x) : x[j] = s
    <3>1. i + 1 \in 2..Len(x) /\ x[i + 1] = s
      BY <2>1, <2>3, <2>4
    <3> QED
      BY <3>1
  <2>5. ASSUME NEW j \in 2..Len(x), x[j] = s PROVE \E i \in 1..(Len(x) - 1) : Tail(x)[i] = s
    <3>1. j - 1 \in 1..(Len(x) - 1) /\ (j - 1) + 1 = j
      BY <2>1
    <3> QED
      BY <2>3, <2>5, <3>1
  <2> QED
    BY <2>3, <2>4, <2>5 DEF Contains
<1> QED
  BY <1>1 DEF FusedAway

\* The stages dispatched together, and the value of a group's last member.
LEMMA DispatchedFacts ==
    ASSUME ReadyPlan, Grouped(inv.groups, inv.inputs, g), NEW s \in Nodes
    PROVE  /\ Dispatched(s) \in Seq(Nodes) /\ Len(Dispatched(s)) \in Nat \ {0} /\ Dispatched(s)[1] = s
           /\ \A i \in 1..(Len(Dispatched(s)) - 1) :
                 Link(inv.inputs, g, Dispatched(s)[i], Dispatched(s)[i + 1])
           /\ \A x \in inv.groups : x[1] = s => Dispatched(s) = x
           /\ (~\E x \in inv.groups : x[1] = s) => Dispatched(s) = <<s>>
<1>1. CASE \E x \in inv.groups : x[1] = s
  <2> DEFINE d == Dispatched(s)
  <2>1. d \in inv.groups /\ d[1] = s
    BY <1>1 DEF Dispatched
  <2> HIDE DEF d
  <2>2. d \in Seq(Nodes) /\ Len(d) \in Nat /\ Len(d) >= 2 /\ d \in Chains(inv.inputs, d[1])
    BY <2>1, GroupFacts
  <2>3. ASSUME NEW x \in inv.groups, x[1] = s PROVE d = x
    <3>1. Len(x) \in Nat /\ Len(x) >= 2
      BY GroupFacts
    <3>2. 1 \in 1..Len(x) /\ 1 \in 1..Len(d) /\ d[1] = x[1]
      BY <2>1, <2>2, <2>3, <3>1
    <3> QED
      BY <2>1, <3>2 DEF Grouped, Disjoint
  <2>4. \A i \in 1..(Len(d) - 1) : Link(inv.inputs, g, d[i], d[i + 1])
    BY <2>2 DEF Chains
  <2> QED
    BY <1>1, <2>1, <2>2, <2>3, <2>4 DEF d
<1>2. CASE ~\E x \in inv.groups : x[1] = s
  <2>1. Dispatched(s) = <<s>>
    BY <1>2 DEF Dispatched
  <2> QED
    BY <1>2, <2>1
<1> QED
  BY <1>1, <1>2

\* When a node that is not fused away is dispatched, what it reads is there.
LEMMA HeadSupplied ==
    ASSUME ReadyPlan, Decoding, NEW s \in Nodes, RunInverse(s), ~FusedAway(s)
    PROVE  Supplied(invValue, inv.inputs, Outs, s)
<1> DEFINE ins == inv.inputs
           lv == inv.level
<1>1. /\ Reads(ins, g, Outs, Kept) /\ Rising(ins, lv, g) /\ Grouped(inv.groups, ins, g)
      /\ invValue \in Contents(g, Kept) /\ inv.ran \subseteq Nodes
  BY DEF Decoding, RestoredSoFar, Nodes
<1> SUFFICES ASSUME NEW k \in 1..Len(ins[s]) PROVE invValue[ins[s][k]] = Outs[s][k]
  BY DEF Supplied
<1>2. \/ ins[s][k] = <<0, Outs[s][k]>> /\ Outs[s][k] \in Kept
      \/ \E t \in Nodes : \E j \in 1..Len(g.ports[t]) :
            ins[s][k] = <<t, j>> /\ g.ports[t][j] = Outs[s][k]
  <2> HIDE DEF ins
  <2> QED
    BY <1>1 DEF Reads, Nodes
<1>3. CASE ins[s][k] = <<0, Outs[s][k]>> /\ Outs[s][k] \in Kept
  BY <1>1, <1>3 DEF Contents
<1>4. ASSUME NEW t \in Nodes, NEW j \in 1..Len(g.ports[t]), ins[s][k] = <<t, j>>,
             g.ports[t][j] = Outs[s][k]
      PROVE  invValue[ins[s][k]] = Outs[s][k]
  <2>1. t # 0 /\ ins[s][k][1] = t
    BY <1>4, PortedWiring DEF Nodes, IsWiring
  <2>2. lv \in [Nodes -> Int] /\ lv[t] < lv[s]
    <3> HIDE DEF ins, lv
    <3> QED
      BY <1>1, <2>1 DEF Rising, Nodes
  <2>3. t \in inv.ran
    <3> SUFFICES ASSUME t \notin inv.ran PROVE FALSE
      OBVIOUS
    <3>1. t \in Nodes \ (inv.ran \cup {s})
      BY <2>2
    <3>2. lv[t] > lv[s] \/ lv[t] = lv[s]
      BY <3>1 DEF RunInverse
    <3>3. lv[t] \in Int /\ lv[s] \in Int
      BY <2>2
    <3> QED
      BY <2>2, <3>2, <3>3
  <2>4. Restored(invValue, g, t)
    <3>1. CASE ~InGroup(inv.groups, t)
      BY <2>3, <3>1 DEF Decoding, RestoredSoFar
    <3>2. CASE InGroup(inv.groups, t)
      <4>1. PICK x \in inv.groups : \E i \in 1..Len(x) : x[i] = t
        BY <3>2 DEF InGroup
      <4>2. PICK i \in 1..Len(x) : x[i] = t
        BY <4>1
      <4>3. /\ x \in Seq(Nodes) /\ Len(x) \in Nat /\ Len(x) >= 2 /\ x \in Chains(ins, x[1])
            /\ \A m \in 1..Len(x) : x[m] \in Nodes
        BY <1>1, GroupFacts
      <4>4. i = Len(x)
        <5> SUFFICES ASSUME i # Len(x) PROVE FALSE
          OBVIOUS
        <5>1. i \in 1..(Len(x) - 1) /\ i + 1 \in 2..Len(x)
          BY <4>3
        <5>2. Link(ins, g, x[i], x[i + 1])
          BY <4>3, <5>1 DEF Chains
        <5>3. s = x[i + 1]
          <6> HIDE DEF ins
          <6> QED
            BY <2>1, <4>2, <5>2 DEF Link, Nodes
        <5> QED
          BY <1>1, <5>1, <5>3, FusedAwayFacts
      <4>5. x[1] \in inv.ran
        <5> SUFFICES ASSUME x[1] \notin inv.ran PROVE FALSE
          OBVIOUS
        <5>1. 1 \in 1..Len(x) /\ Len(x) \in 1..Len(x) /\ 1 < Len(x) /\ x[1] \in Nodes
          BY <4>3
        <5>2. lv[x[1]] < lv[x[Len(x)]]
          BY <1>1, <4>3, <5>1, ChainRises
        <5>3. lv[t] <= lv[x[1]]
          BY <2>3, <5>1 DEF Decoding, RestoredSoFar, Nodes
        <5>4. lv[t] \in Int /\ lv[x[1]] \in Int
          BY <2>2, <5>1
        <5> QED
          BY <4>2, <4>4, <5>2, <5>3, <5>4
      <4> QED
        BY <4>2, <4>4, <4>5 DEF Decoding, RestoredSoFar
    <3> QED
      BY <3>1, <3>2
  <2> QED
    BY <1>4, <2>4 DEF Restored
<1> QED
  BY <1>2, <1>3, <1>4

\* Running a node, or the group it heads, keeps what is restored so far.
LEMMA RunKeeps ==
    ASSUME ReadyPlan, Decoding, NEW s \in Nodes, RunInverse(s)
    PROVE  RestoredSoFar(inv.ran \cup {s}, inv.level, inv.groups, invValue', g, Kept)
<1> DEFINE ins == inv.inputs
           lv == inv.level
           ran == inv.ran
           groups == inv.groups
<1>1. /\ Reads(ins, g, Outs, Kept) /\ Rising(ins, lv, g) /\ Grouped(groups, ins, g)
      /\ invValue \in Contents(g, Kept) /\ ran \subseteq Nodes
  BY DEF Decoding, RestoredSoFar, Nodes
<1>2. /\ \A p \in ran : \A t \in Nodes \ ran : lv[p] <= lv[t]
      /\ \A p \in ran : ~InGroup(groups, p) => Restored(invValue, g, p)
      /\ \A x \in groups : x[1] \in ran => Restored(invValue, g, x[Len(x)])
  BY DEF Decoding, RestoredSoFar, Nodes
<1>3. lv \in [Nodes -> Int]
  BY <1>1 DEF Rising, Nodes
<1>4. ASSUME NEW p \in ran \cup {s}, NEW t \in Nodes \ (ran \cup {s}) PROVE lv[p] <= lv[t]
  <2>1. CASE p \in ran
    BY <1>2, <2>1
  <2>2. CASE p = s
    <3>1. lv[t] > lv[s] \/ lv[t] = lv[s]
      BY DEF RunInverse
    <3>2. lv[t] \in Int /\ lv[s] \in Int
      BY <1>3
    <3> QED
      BY <2>2, <3>1, <3>2
  <2> QED
    BY <2>1, <2>2
<1>5. CASE FusedAway(s)
  <2>1. invValue' = invValue
    BY <1>5 DEF RunInverse
  <2>2. PICK y \in groups : \E i \in 2..Len(y) : y[i] = s
    BY <1>1, <1>5, FusedAwayFacts
  <2>3. PICK i \in 2..Len(y) : y[i] = s
    BY <2>2
  <2>4. Len(y) \in Nat /\ i \in 1..Len(y) /\ i # 1
    BY <1>1, <2>3, GroupFacts
  <2>5. InGroup(groups, s)
    BY <2>3, <2>4 DEF InGroup
  <2>6. ASSUME NEW x \in groups PROVE x[1] # s
    <3>1. Len(x) \in Nat /\ Len(x) >= 2
      BY <1>1, GroupFacts
    <3>2. 1 \in 1..Len(x)
      BY <3>1
    <3> QED
      BY <1>1, <2>3, <2>4, <3>2 DEF Grouped, Disjoint
  <2>7. \A p \in ran \cup {s} : ~InGroup(groups, p) => Restored(invValue', g, p)
    BY <1>2, <2>1, <2>5
  <2>8. \A x \in groups : x[1] \in ran \cup {s} => Restored(invValue', g, x[Len(x)])
    BY <1>2, <2>1, <2>6
  <2>9. ran \cup {s} \subseteq 1..g.nodes /\ invValue' \in Contents(g, Kept)
    BY <1>1, <2>1 DEF Nodes
  <2> HIDE DEF lv, ran, groups
  <2>10. \A p \in ran \cup {s} : \A t \in (1..g.nodes) \ (ran \cup {s}) : lv[p] <= lv[t]
    BY <1>4 DEF Nodes
  <2>11. RestoredSoFar(ran \cup {s}, lv, groups, invValue', g, Kept)
    BY <2>7, <2>8, <2>9, <2>10 DEF RestoredSoFar
  <2> QED
    BY <2>11 DEF ran, lv, groups
<1>6. CASE ~FusedAway(s)
  <2> DEFINE D == Dispatched(s)
             last == Last(D)
             after == RunSpan(invValue, D)
             new == [x \in DOMAIN invValue |-> IF x[1] = last THEN after[x] ELSE invValue[x]]
  <2>1. invValue' = new
    BY <1>6 DEF RunInverse
  <2>2. /\ D \in Seq(Nodes) /\ Len(D) \in Nat \ {0} /\ D[1] = s
        /\ \A i \in 1..(Len(D) - 1) : Link(ins, g, D[i], D[i + 1])
        /\ \A x \in groups : x[1] = s => D = x
        /\ (~\E x \in groups : x[1] = s) => D = <<s>>
    BY <1>1, DispatchedFacts
  <2>3. Supplied(invValue, ins, Outs, s)
    BY <1>6, HeadSupplied
  <2> HIDE DEF D
  <2>4. last = D[Len(D)] /\ last \in Nodes
    BY <2>2 DEF Last
  <2>5. after \in Contents(g, Kept) /\ Restored(after, g, last)
    <3>1. Len(D) >= 1 /\ Supplied(invValue, ins, Outs, D[1])
      BY <2>2, <2>3
    <3> QED
      BY <1>1, <2>2, <2>4, <3>1, SpanRestores
  <2> HIDE DEF after, last
  <2>6. last # 0
    BY <2>4, PortedWiring DEF Nodes, IsWiring
  <2>7. DOMAIN invValue = Cells(g, Kept) /\ \A x \in Cells(g, Kept) : invValue[x] \in Int /\ after[x] \in Int
    BY <1>1, <2>5 DEF Contents
  <2>8. new \in [Cells(g, Kept) -> Int]
    BY <2>7
  <2>9. \A b \in Kept : new[<<0, b>>] = b
    <3> SUFFICES ASSUME NEW b \in Kept PROVE new[<<0, b>>] = b
      OBVIOUS
    <3>1. <<0, b>> \in Cells(g, Kept) /\ <<0, b>>[1] # last
      BY <2>6, CellFacts
    <3>2. invValue[<<0, b>>] = b
      BY <1>1 DEF Contents
    <3> QED
      BY <2>7, <3>1, <3>2
  <2>10. \A t \in Nodes : \A j \in 1..Len(g.ports[t]) :
            new[<<t, j>>] = IF t = last THEN after[<<t, j>>] ELSE invValue[<<t, j>>]
    <3> SUFFICES ASSUME NEW t \in Nodes, NEW j \in 1..Len(g.ports[t])
                 PROVE  new[<<t, j>>] = IF t = last THEN after[<<t, j>>] ELSE invValue[<<t, j>>]
      OBVIOUS
    <3>1. <<t, j>> \in Cells(g, Kept) /\ <<t, j>>[1] = t
      BY CellFacts DEF Nodes
    <3> QED
      BY <2>7, <3>1
  <2> HIDE DEF new
  <2>11. new \in Contents(g, Kept)
    BY <2>8, <2>9 DEF Contents
  <2>12. Restored(new, g, last)
    BY <2>4, <2>5, <2>10 DEF Restored
  <2>13. ASSUME NEW t \in Nodes, Restored(invValue, g, t) PROVE Restored(new, g, t)
    <3>1. CASE t = last
      BY <2>12, <3>1
    <3>2. CASE t # last
      BY <2>10, <2>13, <3>2 DEF Restored
    <3> QED
      BY <3>1, <3>2
  <2>14. \A p \in ran \cup {s} : ~InGroup(groups, p) => Restored(new, g, p)
    <3> SUFFICES ASSUME NEW p \in ran \cup {s}, ~InGroup(groups, p) PROVE Restored(new, g, p)
      OBVIOUS
    <3>1. CASE p \in ran
      BY <1>1, <1>2, <2>13, <3>1
    <3>2. CASE p = s
      <4>1. ASSUME NEW x \in groups PROVE x[1] # s
        <5>1. Len(x) \in Nat /\ Len(x) >= 2
          BY <1>1, GroupFacts
        <5>2. 1 \in 1..Len(x)
          BY <5>1
        <5> QED
          BY <3>2, <5>2 DEF InGroup
      <4>2. D = <<s>>
        BY <2>2, <4>1
      <4> QED
        BY <2>4, <2>12, <3>2, <4>2
    <3> QED
      BY <3>1, <3>2
  <2>15. \A x \in groups : x[1] \in ran \cup {s} => Restored(new, g, x[Len(x)])
    <3> SUFFICES ASSUME NEW x \in groups, x[1] \in ran \cup {s} PROVE Restored(new, g, x[Len(x)])
      OBVIOUS
    <3>1. x[Len(x)] \in Nodes
      <4>1. Len(x) \in Nat /\ Len(x) >= 2 /\ \A i \in 1..Len(x) : x[i] \in Nodes
        BY <1>1, GroupFacts
      <4>2. Len(x) \in 1..Len(x)
        BY <4>1
      <4> QED
        BY <4>1, <4>2
    <3>2. CASE x[1] \in ran
      BY <1>2, <2>13, <3>1, <3>2
    <3>3. CASE x[1] = s
      BY <2>2, <2>4, <2>12, <3>3
    <3> QED
      BY <3>2, <3>3
  <2>16. ran \cup {s} \subseteq 1..g.nodes
    BY <1>1 DEF Nodes
  <2> HIDE DEF lv, ran, groups
  <2>17. \A p \in ran \cup {s} : \A t \in (1..g.nodes) \ (ran \cup {s}) : lv[p] <= lv[t]
    BY <1>4 DEF Nodes
  <2>18. RestoredSoFar(ran \cup {s}, lv, groups, new, g, Kept)
    BY <2>11, <2>14, <2>15, <2>16, <2>17 DEF RestoredSoFar
  <2> QED
    BY <2>1, <2>18 DEF ran, lv, groups
<1> QED
  BY <1>5, <1>6

LEMMA RunStep ==
    ASSUME ReadyPlan, Decoding, g' = g, level' = level, NEW s \in Nodes, RunInverse(s)
    PROVE  Decoding'
<1>1. inv' = [inv EXCEPT !.ran = @ \cup {s}] /\ arSource' = arSource
  BY DEF RunInverse
<1>2. /\ inv'.order = inv.order /\ inv'.inputs = inv.inputs /\ inv'.level = inv.level
      /\ inv'.groups = inv.groups /\ inv'.result = inv.result /\ inv'.ran = inv.ran \cup {s}
      /\ InverseShape(inv)'
  BY <1>1 DEF Decoding, InverseShape
<1>3. Outs' = Outs /\ Kept' = Kept
  BY Unmoved
<1>4. RestoredSoFar(inv.ran, inv.level, inv.groups, invValue, g, Kept)'
  BY <1>2, <1>3, RunKeeps DEF RestoredSoFar
<1> QED
  BY <1>1, <1>2, <1>3, <1>4 DEF Decoding, Reads, Rising, Grouped

\* What the answer needs of the plan: producers declared first, and room in a
\* header for the outputs of every stage.
Faithful == ProducersFirst /\ (Filed => OutputsFit)

\* The inverse DAG as it is built, with nothing restored yet.
LEMMA BuildStep ==
    ASSUME ReadyPlan, Opened, Faithful, phase = "ready", LevelsTopologicalInOrder,
           g' = g, level' = level, BuildInverse, arPhase' = "running"
    PROVE  Decoding'
<1> DEFINE ins == InverseInputs
           order == Reverse([i \in 1..Len(arDesc) |-> arDesc[i].stage])
           lv == InverseLevels(ins, order)
           groups == FusedInverseGroups(ins)
           cells == ({0} \X DOMAIN arStore)
                       \cup UNION {{<<s, j>> : j \in 1..Len(g.ports[s])} : s \in Nodes}
           values == [x \in cells |-> IF x[1] = 0 THEN arStore[x[2]] ELSE Garbage]
<1>1. /\ ~\E s \in Nodes : Contains(ins[s], <<>>)
      /\ inv' = [order |-> order, inputs |-> ins, level |-> lv, groups |-> groups,
                 result |-> <<arSource[1], 1>>, ran |-> {}]
      /\ invValue' = values /\ arSource' = arSource
  BY DEF BuildInverse
<1>2. Describes(arDesc, Filed) /\ arStore = [b \in Kept |-> b] /\ DOMAIN arStore = Kept
  BY DEF Opened, Intact
<1>3. \A n \in Nodes : \A d \in Deps(n) : level[d] < level[n]
  BY DEF Faithful, LevelsTopologicalInOrder, LevelsTopological
<1>4. Reads(ins, g, Outs, Kept)
  BY <1>1, <1>2, InputsRead DEF Faithful
<1>5. Rising(ins, lv, g)
  <2>1. Sorted(ins, order)
    BY <1>2, <1>3, <1>4, BuildOrderSorted
  <2> HIDE DEF ins, order
  <2>2. Rising(ins, InverseLevels(ins, order), g)
    BY <2>1, InverseLevelsRise
  <2> QED
    BY <2>2 DEF lv
<1>6. Grouped(groups, ins, g)
  <2> HIDE DEF ins, lv
  <2>1. Grouped(FusedInverseGroups(ins), ins, g)
    BY <1>4, <1>5, GroupsGrouped
  <2> QED
    BY <2>1 DEF groups
<1>7. values \in Contents(g, Kept)
  <2>1. cells = Cells(g, Kept)
    BY <1>2 DEF Cells, Nodes
  <2>2. Kept \subseteq Int
    <3>1. g.bufs \subseteq Int
      BY PortedWiring DEF IsPorted
    <3> QED
      BY <3>1 DEF Kept
  <2>3. ASSUME NEW x \in Cells(g, Kept), x[1] = 0 PROVE x[2] \in Kept
    <3>1. CASE x \in {0} \X Kept
      BY <3>1
    <3>2. CASE x \notin {0} \X Kept
      <4>1. PICK s \in Nodes : x \in {<<s, j>> : j \in 1..Len(g.ports[s])}
        BY <3>2 DEF Cells, Nodes
      <4>2. PICK j \in 1..Len(g.ports[s]) : x = <<s, j>>
        BY <4>1
      <4>3. s # 0
        BY PortedWiring DEF Nodes, IsWiring
      <4> QED
        BY <2>3, <4>2, <4>3
    <3> QED
      BY <3>1, <3>2
  <2>4. values = [x \in Cells(g, Kept) |-> IF x[1] = 0 THEN arStore[x[2]] ELSE Garbage]
    BY <2>1
  <2>5. \A x \in Cells(g, Kept) : (IF x[1] = 0 THEN arStore[x[2]] ELSE Garbage) \in Int
    <3> SUFFICES ASSUME NEW x \in Cells(g, Kept)
                 PROVE  (IF x[1] = 0 THEN arStore[x[2]] ELSE Garbage) \in Int
      OBVIOUS
    <3>1. ASSUME x[1] = 0 PROVE arStore[x[2]] \in Int
      <4>1. x[2] \in Kept
        BY <2>3, <3>1
      <4>2. arStore[x[2]] = x[2]
        BY <1>2, <4>1
      <4> QED
        BY <2>2, <4>1, <4>2
    <3>2. Garbage \in Int
      BY DEF Garbage
    <3> QED
      BY <3>1, <3>2
  <2>6. \A b \in Kept : <<0, b>> \in Cells(g, Kept) /\ <<0, b>>[1] = 0 /\ <<0, b>>[2] = b
    BY CellFacts
  <2> HIDE DEF values
  <2>7. values \in [Cells(g, Kept) -> Int]
    BY <2>4, <2>5
  <2>8. \A b \in Kept : values[<<0, b>>] = b
    BY <1>2, <2>4, <2>6
  <2> QED
    BY <2>7, <2>8 DEF Contents
<1> HIDE DEF ins, order, lv, groups, values
<1>8. /\ inv'.inputs = ins /\ inv'.level = lv /\ inv'.groups = groups
      /\ inv'.result = <<arSource[1], 1>> /\ inv'.ran = {} /\ InverseShape(inv)'
  BY <1>1 DEF InverseShape
<1>9. RestoredSoFar({}, lv, groups, values, g, Kept)
  <2>1. ASSUME NEW x \in groups PROVE x[1] \notin {}
    OBVIOUS
  <2> QED
    BY <1>7 DEF RestoredSoFar
<1>10. Outs' = Outs /\ Kept' = Kept
  BY Unmoved
<1>11. RestoredSoFar(inv.ran, inv.level, inv.groups, invValue, g, Kept)'
  BY <1>1, <1>8, <1>9, <1>10 DEF RestoredSoFar
<1> QED
  BY <1>1, <1>4, <1>5, <1>6, <1>8, <1>10, <1>11 DEF Decoding, Reads, Rising, Grouped

\* While the inverse DAG runs, and behind its last node.
DecodeInv ==
    /\ arPhase \in {"running", "done"} /\ Faithful => Decoding
    /\ arPhase = "done" => inv.ran = Nodes

LEMMA FaithfulKept ==
    ASSUME g' = g, level' = level, arKind' = arKind
    PROVE  Faithful' <=> Faithful
<1>1. Nodes' = Nodes /\ \A n : Deps(n)' = Deps(n)
  BY WiringFixed
<1>2. \A n : Outputs(n)' = Outputs(n)
  BY DEF Outputs
<1> QED
  BY <1>1, <1>2 DEF Faithful, ProducersFirst, Filed, OutputsFit

LEMMA DecodeStep ==
    PlanInv /\ ArchiveInv /\ DecodeInv /\ [InverseNext]_<<planVars, invVars>> => DecodeInv'
<1> SUFFICES ASSUME PlanInv, ArchiveInv, DecodeInv, [InverseNext]_<<planVars, invVars>>
             PROVE  DecodeInv'
  OBVIOUS
<1>1. CASE PlanStep /\ UNCHANGED invVars
  <2>1. phase # "ready"
    BY <1>1 DEF PlanStep, KahnVisit, KahnDone, AssignLevel, LevelsDone, AssignStreams,
                ColorBuffer, ColoringGuard, inputVars
  <2>2. arPhase' = "idle"
    BY <1>1, <2>1 DEF ArchiveInv, invVars
  <2> QED
    BY <2>2 DEF DecodeInv
<1>2. CASE UNCHANGED <<planVars, invVars>>
  <2>1. g' = g /\ level' = level /\ arPhase' = arPhase /\ arKind' = arKind
        /\ arSource' = arSource /\ inv' = inv /\ invValue' = invValue
    BY <1>2 DEF planVars, invVars
  <2>2. (Faithful' <=> Faithful) /\ Outs' = Outs /\ Kept' = Kept /\ Nodes' = Nodes
    BY <2>1, FaithfulKept, Unmoved
  <2>3. ASSUME Decoding PROVE Decoding'
    <3>1. InverseShape(inv)' /\ Reads(inv.inputs, g, Outs, Kept)' /\ Rising(inv.inputs, inv.level, g)'
      BY <2>1, <2>2, <2>3 DEF Decoding, InverseShape, Reads, Rising
    <3>2. Grouped(inv.groups, inv.inputs, g)'
      BY <2>1, <2>3 DEF Decoding, Grouped
    <3>3. RestoredSoFar(inv.ran, inv.level, inv.groups, invValue, g, Kept)'
      BY <2>1, <2>2, <2>3 DEF Decoding, RestoredSoFar
    <3> QED
      BY <2>1, <2>3, <3>1, <3>2, <3>3 DEF Decoding
  <2> QED
    BY <2>1, <2>2, <2>3 DEF DecodeInv
<1>3. ASSUME UNCHANGED planVars, InverseStep PROVE DecodeInv'
  <2>1. g' = g /\ level' = level /\ phase' = phase /\ Nodes' = Nodes
    BY <1>3 DEF planVars, Nodes
  <2>2. CASE CompressPlanned \/ OpenLive \/ OpenFile
    <3>1. arPhase' \in {"compressed", "open", "refused"}
      BY <2>2 DEF CompressPlanned, OpenLive, OpenFile
    <3> QED
      BY <3>1 DEF DecodeInv
  <2>3. CASE BuildInverse
    <3>1. arPhase = "open" /\ arPhase' \in {"refused", "running"} /\ arKind' = arKind
      BY <2>3 DEF BuildInverse
    <3>2. ReadyPlan /\ Opened /\ phase = "ready" /\ LevelsTopologicalInOrder
      BY <3>1, ArchivePlanned DEF ArchiveInv, PlanInv
    <3>3. Faithful' <=> Faithful
      BY <2>1, <3>1, FaithfulKept
    <3>4. ASSUME arPhase' = "running", Faithful' PROVE Decoding'
      BY <2>1, <2>3, <3>2, <3>3, <3>4, BuildStep
    <3> QED
      BY <3>1, <3>4 DEF DecodeInv
  <2>4. ASSUME NEW s \in Nodes, RunInverse(s) PROVE DecodeInv'
    <3>1. arPhase = "running" /\ arKind' = arKind
          /\ arPhase' = (IF inv'.ran = Nodes THEN "done" ELSE "running")
      BY <2>4 DEF RunInverse
    <3>2. ReadyPlan
      BY <3>1, ArchivePlanned
    <3>3. Faithful' <=> Faithful
      BY <2>1, <3>1, FaithfulKept
    <3>4. ASSUME Faithful' PROVE Decoding'
      <4>1. Decoding
        BY <3>1, <3>3, <3>4 DEF DecodeInv
      <4> QED
        BY <2>1, <2>4, <3>2, <4>1, RunStep
    <3> QED
      BY <2>1, <3>1, <3>4 DEF DecodeInv
  <2> QED
    BY <1>3, <2>2, <2>3, <2>4 DEF InverseStep
<1> QED
  BY <1>1, <1>2, <1>3 DEF InverseNext

LEMMA DecodeCorrect == InverseSpec => []DecodeInv
<1>1. InverseInit => DecodeInv
  BY DEF InverseInit, DecodeInv
<1>2. PlanInv /\ ArchiveInv /\ DecodeInv /\ [InverseNext]_<<planVars, invVars>> => DecodeInv'
  BY DecodeStep
<1> QED
  BY <1>1, <1>2, Planned, ArchiveCorrect, PTL DEF InverseSpec

\* A source's input is never a buffer inside a fused group.
LEMMA SourceLast ==
    ASSUME ReadyPlan, NEW ins, Reads(ins, g, Outs, Kept), NEW groups, Grouped(groups, ins, g),
           NEW p \in Nodes, Contains(InputNodes, p), NEW x \in groups, NEW i \in 1..Len(x), x[i] = p
    PROVE  i = Len(x)
<1> SUFFICES ASSUME i # Len(x) PROVE FALSE
  OBVIOUS
<1>1. x \in Seq(Nodes) /\ Len(x) \in Nat /\ \A m \in 1..Len(x) : x[m] \in Nodes
  BY GroupFacts
<1>2. i \in 1..(Len(x) - 1) /\ x[i + 1] \in Nodes /\ p # 0
  BY <1>1, PortedWiring DEF Nodes, IsWiring
<1>3. Link(ins, g, x[i], x[i + 1]) /\ Len(g.ports[p]) = 1
  BY <1>2 DEF Grouped
<1> DEFINE n == x[i + 1]
<1> HIDE DEF n
<1>4. PICK k \in 1..Len(ins[n]) : ins[n][k][1] = p
  BY <1>3 DEF Link, n
<1>5. n \in Nodes /\ Len(ins[n]) = Len(Outs[n])
  BY <1>2 DEF n, Reads, Nodes
<1>6. PICK t \in Nodes : \E j \in 1..Len(g.ports[t]) :
         ins[n][k] = <<t, j>> /\ g.ports[t][j] = Outs[n][k]
  <2>1. ins[n][k] # <<0, Outs[n][k]>>
    BY <1>2, <1>4
  <2> QED
    BY <1>5, <2>1 DEF Reads, Nodes
<1>7. PICK j \in 1..Len(g.ports[t]) : ins[n][k] = <<t, j>> /\ g.ports[t][j] = Outs[n][k]
  BY <1>6
<1>8. t = p /\ j = 1 /\ g.ports[p][1] = Outs[n][k]
  BY <1>3, <1>4, <1>7
<1>9. Outs[n][k] \in Outputs(n)
  <2>1. OutputIds(n) \in Seq(Outputs(n)) /\ Outs[n] = OutputIds(n)
    BY <1>5, OutputFacts DEF Lists, Outs
  <2> QED
    BY <1>5, <2>1
<1>10. g.prod[g.ports[p][1]] = n /\ n # 0 /\ g.ports[p][1] \in g.bufs
  BY <1>5, <1>8, <1>9, PortedWiring DEF Outputs, Nodes, IsWiring
<1>11. CASE Deps(p) = {}
  <2>1. p \in g.cons[g.ports[p][1]]
    BY <1>3, PortFacts
  <2>2. g.ports[p][1] \in Inputs(p) \ External
    BY <1>10, <2>1 DEF Inputs, External
  <2> QED
    BY <1>11, <2>2 DEF Deps
<1>12. CASE Contains(g.bound, p)
  <2>1. p \in ToSet(g.bound)
    BY <1>12 DEF Contains, ToSet
  <2> QED
    BY <1>10, <2>1, PortedWiring DEF IsPorted
<1> QED
  BY <1>11, <1>12, InputNodeFacts

\* What decompress() and decompressFromFile() return is the input of the
\* primary source, for every wiring, order of ports, archive layout and set of
\* inverse kernels: the inverse of a stage runs behind those of its consumers,
\* each restores what the stage wrote, and a fused group keeps to itself only
\* buffers that nothing else reads.
THEOREM RestoresCorrect == InverseSpec => []InverseRestores
<1>1. PlanInv /\ ArchiveInv /\ DecodeInv => InverseRestores
  <2> SUFFICES ASSUME PlanInv, ArchiveInv, DecodeInv, arPhase = "done", ProducersFirst,
                      Contains(InputNodes, PrimarySource),
                      arKind = "preflag" => Len(InputNodes) = 1,
                      arKind \in {"file", "preflag"} =>
                         \A n \in Nodes : Cardinality(Outputs(n)) <= MaxStageOutputs
               PROVE  invValue[inv.result] = g.ports[PrimarySource][1]
    BY DEF InverseRestores
  <2> DEFINE p == PrimarySource
  <2>1. ReadyPlan /\ Opened
    BY ArchivePlanned DEF ArchiveInv
  <2>2. Faithful /\ (Filed => OutputsFit)
    BY DEF Faithful, Filed, OutputsFit
  <2>3. Decoding /\ inv.ran = Nodes
    BY <2>2 DEF DecodeInv
  <2>4. arSource[1] = p /\ inv.result = <<p, 1>>
    BY <2>1, <2>2, <2>3 DEF Opened, Decoding
  <2>5. p \in Nodes
    <3>1. InputNodes \in Seq(Nodes)
      BY <2>1, InputNodeFacts
    <3>2. PICK i \in 1..Len(InputNodes) : InputNodes[i] = p
      BY DEF Contains
    <3> QED
      BY <3>1, <3>2
  <2> HIDE DEF p
  <2>6. Contains(InputNodes, p)
    BY DEF p
  <2>7. Restored(invValue, g, p)
    <3>1. CASE ~InGroup(inv.groups, p)
      BY <2>3, <2>5, <3>1 DEF Decoding, RestoredSoFar
    <3>2. CASE InGroup(inv.groups, p)
      <4>1. PICK x \in inv.groups : \E i \in 1..Len(x) : x[i] = p
        BY <3>2 DEF InGroup
      <4>2. PICK i \in 1..Len(x) : x[i] = p
        BY <4>1
      <4>3. Reads(inv.inputs, g, Outs, Kept) /\ Grouped(inv.groups, inv.inputs, g)
        BY <2>3 DEF Decoding
      <4>4. i = Len(x)
        BY <2>1, <2>5, <2>6, <4>2, <4>3, SourceLast
      <4>5. x[1] \in inv.ran
        <5>1. Len(x) \in Nat /\ Len(x) >= 2 /\ \A m \in 1..Len(x) : x[m] \in Nodes
          BY <2>1, <4>3, GroupFacts
        <5>2. 1 \in 1..Len(x)
          BY <5>1
        <5> QED
          BY <2>3, <5>1, <5>2
      <4> QED
        BY <2>3, <4>2, <4>4, <4>5 DEF Decoding, RestoredSoFar
    <3> QED
      BY <3>1, <3>2
  <2>8. 1 \in 1..Len(g.ports[p])
    BY <2>1, <2>5, PortFacts
  <2>9. invValue[<<p, 1>>] = g.ports[p][1]
    BY <2>7, <2>8 DEF Restored
  <2> QED
    BY <2>4, <2>9 DEF p
<1> QED
  BY <1>1, Planned, ArchiveCorrect, DecodeCorrect, PTL
=============================================================================
