----------------------------- MODULE DagProofs -----------------------------
(***************************************************************************)
(* What finalize() and colorBuffers() establish, for every set of wirings, *)
(* any number of stages, buffers and streams.                              *)
(***************************************************************************)
EXTENDS Dag, FiniteSetTheorems, WellFoundedInduction, TLAPS

-----------------------------------------------------------------------------
(***************************************************************************)
(* The maximum and the minimum of a bounded set of integers.               *)
(***************************************************************************)

\* A non-empty set of naturals has a least element.
LEMMA LeastNatural ==
    ASSUME NEW T, T \subseteq Nat, T # {}
    PROVE  \E x \in T : \A y \in T : x <= y
<1>1. \E x \in T : \A y \in T : ~(<<y, x>> \in OpToRel(<, Nat))
  BY NatLessThanWellFounded, WFMin
<1>2. PICK x \in T : \A y \in T : ~(<<y, x>> \in OpToRel(<, Nat))
  BY <1>1
<1>3. \A y \in T : ~(y < x)
  BY <1>2, Zenon DEF OpToRel
<1> QED
  BY <1>3

\* Max(S), by which the code's std::max loops are modelled, is an element of a
\* bounded set of integers and an upper bound of it.
LEMMA MaxIsGreatest ==
    ASSUME NEW S, S \subseteq Int, S # {}, NEW u \in Int, \A x \in S : x <= u
    PROVE  Max(S) \in S /\ \A x \in S : x <= Max(S)
<1> DEFINE T == {u - x : x \in S}
<1>1. T \subseteq Nat /\ T # {}
  <2>1. ASSUME NEW x \in S PROVE u - x \in Nat
    <3>1. x \in Int /\ x <= u
      OBVIOUS
    <3> QED
      BY <3>1
  <2>2. PICK x \in S : TRUE
    OBVIOUS
  <2> QED
    BY <2>1, <2>2
<1>2. PICK t \in T : \A y \in T : t <= y
  BY <1>1, LeastNatural
<1>3. PICK m \in S : t = u - m
  OBVIOUS
<1>4. \A x \in S : u - x \in T
  OBVIOUS
<1> HIDE DEF T
<1>5. \A x \in S : m >= x
  BY <1>2, <1>3, <1>4
<1>6. \E x \in S : \A y \in S : x >= y
  BY <1>5
<1>7. Max(S) \in S /\ \A y \in S : Max(S) >= y
  BY <1>6, Zenon DEF Max
<1> QED
  BY <1>7

\* Min(S) is an element of a non-empty set of naturals.
LEMMA MinIsLeast ==
    ASSUME NEW S, S \subseteq Nat, S # {}
    PROVE  Min(S) \in S /\ \A x \in S : Min(S) <= x
<1>1. \E x \in S : \A y \in S : x <= y
  BY LeastNatural
<1> QED
  BY <1>1, Zenon DEF Min

-----------------------------------------------------------------------------
(***************************************************************************)
(* Facts about a wiring.                                                   *)
(***************************************************************************)
LEMMA FiniteParts ==
    ASSUME IsWiring(g)
    PROVE  /\ \A S \in SUBSET g.bufs : IsFiniteSet(S) /\ Cardinality(S) \in Nat
           /\ \A S \in SUBSET Nodes : IsFiniteSet(S) /\ Cardinality(S) \in Nat
<1>1. IsFiniteSet(g.bufs) /\ g.nodes \in Nat
  BY DEF IsWiring
<1>2. IsFiniteSet(Nodes)
  BY <1>1, FS_Interval DEF Nodes
<1> QED
  BY <1>1, <1>2, FS_Subset, FS_CardinalityType

LEMMA DepsAreNodes ==
    ASSUME IsWiring(g), NEW n \in Nodes
    PROVE  Deps(n) \subseteq Nodes
BY DEF IsWiring, Deps, Inputs, External, Nodes

-----------------------------------------------------------------------------
(***************************************************************************)
(* Levels.                                                                 *)
(***************************************************************************)

\* Nodes before the loop index have a level, at most their index; nodes from
\* the index on have none.
LevelRange ==
    \A n \in Nodes : /\ level[n] \in -1..(n - 1)
                     /\ n < cursor <=> level[n] >= 0

\* What assignLevels() has established for the nodes it has passed.
LevelsSoFar ==
    ProducersFirst =>
        \A n \in Nodes : n < cursor => \A d \in Deps(n) : level[d] < level[n]

LevelInv ==
    /\ LevelRange
    /\ LevelsSoFar
    /\ phase \in {"streams", "color", "ready"} => cursor = g.nodes + 1

LEMMA LevelInvInit == Init => PlanTypeOK /\ LevelInv
<1> SUFFICES ASSUME Init PROVE PlanTypeOK /\ LevelInv
  OBVIOUS
<1>1. IsWiring(g)
  BY DagAssumption DEF Init
<1>2. PlanTypeOK
  <2>1. \A n \in Nodes : Cardinality(Inputs(n) \ External) \in Nat
    BY <1>1, FiniteParts DEF Inputs
  <2>2. Cardinality(g.bufs) \in Nat
    BY <1>1, FiniteParts
  <2>3. g.nodes \in Nat \ {0}
    BY <1>1 DEF IsWiring
  <2>4. coloringEnabled \in ColoringOptions /\ coloringApplied \in BOOLEAN
    BY Zenon DEF Init
  <2>5. /\ strategy \in Strategies /\ configured \in StreamConfigs
        /\ phase \in Phases
        /\ inDegree \in [Nodes -> Int]
        /\ queue \subseteq Nodes
        /\ visited \in Nat
        /\ level \in [Nodes -> Int]
        /\ cursor \in 1..(g.nodes + 1)
        /\ streamCount \in Nat
        /\ streamOf \in [Nodes -> 0..streamCount]
        /\ color \in [g.bufs -> Colors]
        /\ regionSize \in [0..(Cardinality(g.bufs) - 1) -> Nat]
    BY <2>1, <2>2, <2>3 DEF Init, Phases, Colors
  <2> QED
    BY <1>1, <2>4, <2>5, Zenon DEF PlanTypeOK
<1>3. LevelInv
  BY <1>1 DEF Init, LevelInv, LevelRange, LevelsSoFar, Nodes, IsWiring
<1> QED
  BY <1>2, <1>3

\* The level assignLevels() computes for the node at the loop index.
LEMMA NewLevel ==
    ASSUME PlanTypeOK, LevelInv, cursor <= g.nodes, Deps(cursor) # {}
    PROVE  LET m == Max({level[d] : d \in Deps(cursor)} \cup {-1})
           IN /\ m \in -1..(cursor - 2)
              /\ \A d \in Deps(cursor) : level[d] <= m
<1> DEFINE S == {level[d] : d \in Deps(cursor)} \cup {-1}
<1>1. cursor \in Nodes /\ cursor \in 1..g.nodes /\ Nodes \subseteq Int
  BY DEF PlanTypeOK, Nodes, IsWiring
<1>2. Deps(cursor) \subseteq Nodes
  BY <1>1, DepsAreNodes DEF PlanTypeOK
<1>3. ASSUME NEW d \in Deps(cursor) PROVE level[d] \in -1..(cursor - 2)
  <2>1. d \in Nodes /\ d \in Int /\ level[d] \in -1..(d - 1) /\ (d < cursor <=> level[d] >= 0)
    BY <1>2, <1>1 DEF LevelInv, LevelRange
  <2> QED
    BY <2>1, <1>1
<1>4. S \subseteq -1..(cursor - 2) /\ S # {}
  BY <1>1, <1>3
<1>5. S \subseteq Int /\ cursor - 2 \in Int /\ \A x \in S : x <= cursor - 2
  BY <1>4, <1>1
<1> HIDE DEF S
<1>6. Max(S) \in S /\ \A x \in S : x <= Max(S)
  BY <1>4, <1>5, MaxIsGreatest, Zenon
<1>7. \A d \in Deps(cursor) : level[d] \in S
  BY DEF S
<1> QED
  BY <1>4, <1>6, <1>7 DEF S

\* The largest level of a node exists once assignLevels() is done.
LEMMA MaxLevelFacts ==
    ASSUME PlanTypeOK, LevelInv, phase \in {"streams", "color", "ready"}
    PROVE  /\ MaxLevel \in Nat
           /\ \A n \in Nodes : level[n] \in 0..MaxLevel
<1> DEFINE S == {level[n] : n \in Nodes}
<1>1. g.nodes \in Nat \ {0} /\ cursor = g.nodes + 1 /\ Nodes = 1..g.nodes
  BY DEF PlanTypeOK, IsWiring, LevelInv, Nodes
<1>2. ASSUME NEW n \in Nodes PROVE level[n] \in 0..g.nodes
  <2>1. n \in 1..g.nodes /\ level[n] \in -1..(n - 1) /\ (n < cursor <=> level[n] >= 0)
    BY <1>1 DEF LevelInv, LevelRange
  <2> QED
    BY <2>1, <1>1
<1>3. S \subseteq Int /\ \A x \in S : x <= g.nodes
  BY <1>1, <1>2
<1>4. S # {} /\ g.nodes \in Int
  BY <1>1
<1> HIDE DEF S
<1>5. Max(S) \in S /\ \A x \in S : x <= Max(S)
  BY <1>3, <1>4, MaxIsGreatest, Zenon
<1>6. MaxLevel = Max(S)
  BY DEF MaxLevel, S
<1>7. \A n \in Nodes : level[n] \in S
  BY DEF S
<1> QED
  BY <1>2, <1>5, <1>6, <1>7 DEF S

\* The widest level has between one and all of the nodes, and no level is wider.
LEMMA MaxParallelismFacts ==
    ASSUME PlanTypeOK, LevelInv, phase \in {"streams", "color", "ready"}
    PROVE  /\ MaxParallelism \in Nat \ {0}
           /\ \A n \in Nodes : Cardinality(AtLevel(level[n])) <= MaxParallelism
<1> DEFINE S == {Cardinality(AtLevel(l)) : l \in 0..MaxLevel}
<1>0. IsWiring(g) /\ g.nodes \in Nat \ {0} /\ Nodes = 1..g.nodes
  BY DEF PlanTypeOK, IsWiring, Nodes
<1>1. IsFiniteSet(Nodes) /\ Cardinality(Nodes) \in Nat
  BY <1>0, FiniteParts
<1>2. \A l : /\ AtLevel(l) \in SUBSET Nodes
             /\ Cardinality(AtLevel(l)) \in Nat
             /\ Cardinality(AtLevel(l)) <= Cardinality(Nodes)
  BY <1>0, <1>1, FiniteParts, FS_Subset DEF AtLevel
<1>3. MaxLevel \in Nat /\ \A n \in Nodes : level[n] \in 0..MaxLevel
  BY MaxLevelFacts
<1>4. S \subseteq Int /\ S # {} /\ Cardinality(Nodes) \in Int
        /\ \A x \in S : x <= Cardinality(Nodes)
  BY <1>1, <1>2, <1>3
<1>5. \A n \in Nodes : Cardinality(AtLevel(level[n])) \in S
  BY <1>3
<1>6. S \subseteq Nat
  BY <1>2
<1> HIDE DEF S
<1>7. Max(S) \in S /\ \A x \in S : x <= Max(S)
  BY <1>4, MaxIsGreatest, Zenon
<1>8. MaxParallelism = Max(S)
  BY DEF MaxParallelism, S
<1>9. Cardinality(AtLevel(level[1])) # 0
  <2>1. 1 \in AtLevel(level[1])
    BY <1>0 DEF AtLevel
  <2>2. IsFiniteSet(AtLevel(level[1]))
    BY <1>0, <1>2, FiniteParts
  <2> QED
    BY <2>1, <2>2, FS_EmptySet
<1>10. 1 \in Nodes
  BY <1>0
<1>11. Cardinality(AtLevel(level[1])) \in S
  BY <1>5, <1>10
<1>12. Max(S) \in Nat /\ Cardinality(AtLevel(level[1])) \in Nat
          /\ Cardinality(AtLevel(level[1])) <= Max(S)
  BY <1>6, <1>7, <1>11, Zenon
<1>13. Max(S) # 0
  BY <1>9, <1>12
<1> QED
  BY <1>5, <1>7, <1>8, <1>12, <1>13

\* A remainder is smaller than a positive divisor, and is the dividend when
\* that is smaller than the divisor.
LEMMA Remainder ==
    ASSUME NEW a \in Nat, NEW k \in Nat \ {0}
    PROVE  a % k \in 0..(k - 1) /\ (a < k => a % k = a)
OBVIOUS

\* assignStreams() picks an existing stream.
LEMMA RoundRobinRange ==
    ASSUME PlanTypeOK, NEW n \in Nodes, NEW k \in Nat \ {0}
    PROVE  RoundRobin(n, k) \in 1..k
<1> DEFINE a == Cardinality({m \in AtLevel(level[n]) : m < n})
<1>1. a \in Nat
  BY FiniteParts DEF PlanTypeOK, AtLevel
<1>2. a % k \in 0..(k - 1)
  BY <1>1, Remainder
<1> QED
  BY <1>2 DEF RoundRobin

-----------------------------------------------------------------------------
(***************************************************************************)
(* Type correctness and levels, step by step.                              *)
(***************************************************************************)
\* The part of PlanTypeOK that SMT handles; the Boolean flags are the rest.
NumericTypeOK ==
    /\ IsWiring(g)
    /\ strategy \in Strategies
    /\ configured \in StreamConfigs
    /\ phase \in Phases
    /\ inDegree \in [Nodes -> Int]
    /\ queue \subseteq Nodes
    /\ visited \in Nat
    /\ level \in [Nodes -> Int]
    /\ cursor \in 1..(g.nodes + 1)
    /\ streamCount \in Nat
    /\ streamOf \in [Nodes -> 0..streamCount]
    /\ color \in [g.bufs -> Colors]
    /\ regionSize \in [0..(Cardinality(g.bufs) - 1) -> Nat]

FlagTypeOK == coloringEnabled \in ColoringOptions /\ coloringApplied \in BOOLEAN

LEMMA TypeParts == PlanTypeOK <=> NumericTypeOK /\ FlagTypeOK
BY Zenon DEF PlanTypeOK, NumericTypeOK, FlagTypeOK

LEMMA FlagStep == FlagTypeOK /\ [PlanStep]_planVars => FlagTypeOK'
<1> SUFFICES ASSUME FlagTypeOK, [PlanStep]_planVars PROVE FlagTypeOK'
  OBVIOUS
<1>1. ASSUME NEW n \in Nodes, KahnVisit(n) PROVE FlagTypeOK'
  BY <1>1, Zenon DEF FlagTypeOK, KahnVisit, inputVars, colorVars
<1>2. CASE KahnDone
  BY <1>2, Zenon DEF FlagTypeOK, KahnDone, inputVars, colorVars
<1>3. CASE AssignLevel
  BY <1>3, Zenon DEF FlagTypeOK, AssignLevel, inputVars, colorVars
<1>4. CASE LevelsDone
  BY <1>4, Zenon DEF FlagTypeOK, LevelsDone, inputVars, colorVars
<1>5. CASE AssignStreams
  BY <1>5, Zenon DEF FlagTypeOK, AssignStreams, inputVars, colorVars
<1>6. ASSUME NEW b \in g.bufs, ColorBuffer(b) PROVE FlagTypeOK'
  BY <1>6, Zenon DEF FlagTypeOK, ColorBuffer, inputVars
<1>7. CASE ColoringGuard
  BY <1>7, Zenon DEF FlagTypeOK, ColoringGuard, inputVars
<1>8. CASE UNCHANGED planVars
  BY <1>8, Zenon DEF FlagTypeOK, planVars
<1> QED
  BY <1>1, <1>2, <1>3, <1>4, <1>5, <1>6, <1>7, <1>8, Zenon DEF PlanStep

\* The wiring and all that is read from it stay as they are in every step.
LEMMA WiringFixed ==
    ASSUME g' = g
    PROVE  /\ Nodes' = Nodes /\ Colors' = Colors /\ External' = External
           /\ FusedInternal' = FusedInternal /\ Colorable' = Colorable
           /\ (ProducersFirst)' = ProducersFirst
           /\ \A n : Deps(n)' = Deps(n)
           /\ IsWiring(g)' = IsWiring(g)
BY DEF Nodes, Colors, External, FusedInternal, Colorable, ProducersFirst, Deps,
       Inputs, IsWiring, IsChain, LinearEdge

LEMMA MaxOfTwo ==
    ASSUME NEW a \in Nat, NEW b \in Nat
    PROVE  Max({a, b}) \in Nat /\ a <= Max({a, b}) /\ b <= Max({a, b})
<1>1. PICK u \in Int : a <= u /\ b <= u
  <2>1. CASE a <= b
    BY <2>1
  <2>2. CASE b <= a
    BY <2>2
  <2> QED
    BY <2>1, <2>2
<1>2. Max({a, b}) \in {a, b} /\ \A x \in {a, b} : x <= Max({a, b})
  BY <1>1, MaxIsGreatest
<1> QED
  BY <1>2

LEMMA AssignStreamsTypes ==
    ASSUME PlanTypeOK, LevelInv, AssignStreams
    PROVE  /\ streamCount' \in Nat \ {0}
           /\ streamOf' \in [Nodes -> 0..streamCount']
           /\ phase' \in {"color", "ready"}
<1>1. phase \in {"streams", "color", "ready"}
  BY DEF AssignStreams
<1>2. MaxParallelism \in Nat \ {0}
  BY <1>1, MaxParallelismFacts
<1>3. configured \in Nat
  BY DagAssumption, TypeParts DEF NumericTypeOK
<1>4. streamCount' \in Nat \ {0}
  BY <1>2, <1>3 DEF AssignStreams
<1>5. \A n \in Nodes : RoundRobin(n, streamCount') \in 1..streamCount'
  BY <1>4, RoundRobinRange
<1>6. streamOf' \in [Nodes -> 0..streamCount']
  BY <1>4, <1>5 DEF AssignStreams
<1> QED
  BY <1>4, <1>6 DEF AssignStreams

LEMMA NumericStep ==
    PlanTypeOK /\ LevelInv /\ [PlanStep]_planVars => NumericTypeOK'
<1> SUFFICES ASSUME PlanTypeOK, LevelInv, [PlanStep]_planVars PROVE NumericTypeOK'
  OBVIOUS
<1>0. NumericTypeOK
  BY TypeParts
<1> USE DEF NumericTypeOK, Phases
<1>1. ASSUME NEW n \in Nodes, KahnVisit(n) PROVE NumericTypeOK'
  <2>1. g' = g /\ strategy' = strategy /\ configured' = configured /\ phase' = phase
          /\ level' = level /\ cursor' = cursor /\ streamCount' = streamCount
          /\ streamOf' = streamOf /\ color' = color /\ regionSize' = regionSize
    BY <1>1, Zenon DEF KahnVisit, inputVars, levelVars, streamVars, colorVars
  <2>2. \A m \in Nodes : EdgeCount(n, m) \in Nat
    BY <1>0, FiniteParts DEF EdgeCount, Inputs
  <2>3. inDegree' \in [Nodes -> Int] /\ queue' \subseteq Nodes /\ visited' \in Nat
    BY <1>0, <1>1, <2>2 DEF KahnVisit
  <2> QED
    BY <1>0, <2>1, <2>3, WiringFixed
<1>2. CASE KahnDone
  <2>1. g' = g /\ strategy' = strategy /\ configured' = configured
          /\ inDegree' = inDegree /\ queue' = queue /\ visited' = visited
          /\ level' = level /\ cursor' = cursor /\ streamCount' = streamCount
          /\ streamOf' = streamOf /\ color' = color /\ regionSize' = regionSize
    BY <1>2, Zenon DEF KahnDone, inputVars, kahnVars, levelVars, streamVars, colorVars
  <2>2. phase' \in Phases
    BY <1>2 DEF KahnDone
  <2> QED
    BY <1>0, <2>1, <2>2, WiringFixed
<1>3. CASE AssignLevel
  <2>1. g' = g /\ strategy' = strategy /\ configured' = configured /\ phase' = phase
          /\ inDegree' = inDegree /\ queue' = queue /\ visited' = visited
          /\ streamCount' = streamCount
          /\ streamOf' = streamOf /\ color' = color /\ regionSize' = regionSize
    BY <1>3, Zenon DEF AssignLevel, inputVars, kahnVars, streamVars, colorVars
  <2>2. cursor \in 1..g.nodes /\ cursor' = cursor + 1 /\ g.nodes \in Nat
    BY <1>0, <1>3 DEF AssignLevel, IsWiring
  <2>3. level' \in [Nodes -> Int]
    <3> DEFINE m == Max({level[d] : d \in Deps(cursor)} \cup {-1})
    <3>0. level' = [level EXCEPT ![cursor] = IF Deps(cursor) = {} THEN 0 ELSE m + 1]
      BY <1>3 DEF AssignLevel
    <3> HIDE DEF m
    <3>1. CASE Deps(cursor) = {}
      <4>1. level' = [level EXCEPT ![cursor] = 0]
        BY <3>0, <3>1, Zenon
      <4>2. level \in [Nodes -> Int] /\ 0 \in Int
        BY <1>0
      <4> QED
        BY <4>1, <4>2, Zenon
    <3>2. CASE Deps(cursor) # {}
      <4>1. m \in -1..(cursor - 2)
        BY <2>2, <3>2, NewLevel DEF m
      <4>2. m + 1 \in Int
        BY <4>1, <2>2
      <4> QED
        BY <1>0, <3>0, <3>2, <4>2
    <3> QED
      BY <3>1, <3>2
  <2> QED
    BY <1>0, <2>1, <2>2, <2>3, WiringFixed
<1>4. CASE LevelsDone
  <2>1. g' = g /\ strategy' = strategy /\ configured' = configured
          /\ inDegree' = inDegree /\ queue' = queue /\ visited' = visited
          /\ level' = level /\ cursor' = cursor /\ streamCount' = streamCount
          /\ streamOf' = streamOf /\ color' = color /\ regionSize' = regionSize
    BY <1>4, Zenon DEF LevelsDone, inputVars, kahnVars, levelVars, streamVars, colorVars
  <2> QED
    BY <1>0, <1>4, <2>1, WiringFixed DEF LevelsDone
<1>5. CASE AssignStreams
  <2>1. g' = g /\ strategy' = strategy /\ configured' = configured
          /\ inDegree' = inDegree /\ queue' = queue /\ visited' = visited
          /\ level' = level /\ cursor' = cursor
          /\ color' = color /\ regionSize' = regionSize
    BY <1>5, Zenon DEF AssignStreams, inputVars, kahnVars, levelVars, colorVars
  <2> QED
    BY <1>0, <1>5, <2>1, AssignStreamsTypes, WiringFixed
<1>6. ASSUME NEW b \in g.bufs, ColorBuffer(b) PROVE NumericTypeOK'
  <2>1. g' = g /\ strategy' = strategy /\ configured' = configured /\ phase' = phase
          /\ inDegree' = inDegree /\ queue' = queue /\ visited' = visited
          /\ level' = level /\ cursor' = cursor /\ streamCount' = streamCount
          /\ streamOf' = streamOf
    BY <1>6, Zenon DEF ColorBuffer, inputVars, kahnVars, levelVars, streamVars
  <2>2. PICK c \in 0..(Cardinality(g.bufs) - 1) :
          /\ color' = [color EXCEPT ![b] = c]
          /\ regionSize' = [regionSize EXCEPT ![c] = Max({regionSize[c], g.size[b]})]
    BY <1>6, Zenon DEF ColorBuffer
  <2>3. Cardinality(g.bufs) \in Nat /\ g.size[b] \in Nat /\ regionSize[c] \in Nat
    BY <1>0, FiniteParts DEF IsWiring
  <2>4. color' \in [g.bufs -> Colors]
    BY <1>0, <2>2, <2>3 DEF Colors
  <2>5. regionSize' \in [0..(Cardinality(g.bufs) - 1) -> Nat]
    BY <1>0, <2>2, <2>3, MaxOfTwo
  <2> QED
    BY <1>0, <2>1, <2>4, <2>5, WiringFixed
<1>7. CASE ColoringGuard
  <2>1. g' = g /\ strategy' = strategy /\ configured' = configured
          /\ inDegree' = inDegree /\ queue' = queue /\ visited' = visited
          /\ level' = level /\ cursor' = cursor /\ streamCount' = streamCount
          /\ streamOf' = streamOf
    BY <1>7, Zenon DEF ColoringGuard, inputVars, kahnVars, levelVars, streamVars
  <2>2. /\ color' = color \/ color' = [b \in g.bufs |-> -1]
        /\ \/ regionSize' = regionSize
           \/ regionSize' = [c \in DOMAIN regionSize |-> 0]
        /\ phase' = "ready"
    BY <1>7, Zenon DEF ColoringGuard
  <2>3. color' \in [g.bufs -> Colors]
    <3>1. -1 \in Colors
      BY <1>0, FiniteParts DEF Colors
    <3> QED
      BY <1>0, <2>2, <3>1
  <2>4. regionSize' \in [0..(Cardinality(g.bufs) - 1) -> Nat]
    BY <1>0, <2>2
  <2> QED
    BY <1>0, <2>1, <2>2, <2>3, <2>4, WiringFixed
<1>8. CASE UNCHANGED planVars
  BY <1>0, <1>8, WiringFixed DEF planVars
<1> QED
  BY <1>1, <1>2, <1>3, <1>4, <1>5, <1>6, <1>7, <1>8, Zenon DEF PlanStep

\* Outside the steps of assignLevels() the levels stay as they are.
LEMMA LevelsKept ==
    ASSUME LevelInv, g' = g, level' = level, cursor' = cursor,
           phase' \in {"streams", "color", "ready"} =>
               phase \in {"streams", "color", "ready"} \/ cursor = g.nodes + 1
    PROVE  LevelInv'
<1>1. LevelRange'
  BY WiringFixed DEF LevelInv, LevelRange
<1>2. LevelsSoFar'
  BY WiringFixed DEF LevelInv, LevelsSoFar
<1> QED
  BY <1>1, <1>2 DEF LevelInv

LEMMA LevelStep ==
    PlanTypeOK /\ LevelInv /\ [PlanStep]_planVars => LevelInv'
<1> SUFFICES ASSUME PlanTypeOK, LevelInv, [PlanStep]_planVars PROVE LevelInv'
  OBVIOUS
<1>1. ASSUME NEW n \in Nodes, KahnVisit(n) PROVE LevelInv'
  BY <1>1, LevelsKept, Zenon DEF KahnVisit, inputVars, levelVars
<1>2. CASE KahnDone
  <2>1. phase' \in {"levels", "rejected"} /\ g' = g /\ level' = level /\ cursor' = cursor
    BY <1>2, Zenon DEF KahnDone, inputVars, levelVars
  <2>2. phase' \notin {"streams", "color", "ready"}
    BY <2>1
  <2> QED
    BY <2>1, <2>2, LevelsKept, Zenon
<1>3. CASE AssignLevel
  <2> DEFINE m == Max({level[d] : d \in Deps(cursor)} \cup {-1})
  <2>1. /\ g' = g /\ cursor' = cursor + 1
        /\ level' = [level EXCEPT ![cursor] = IF Deps(cursor) = {} THEN 0 ELSE m + 1]
    BY <1>3, Zenon DEF AssignLevel, inputVars
  <2>2. phase' = "levels"
    BY <1>3, Zenon DEF AssignLevel
  <2>3. cursor \in 1..g.nodes /\ g.nodes \in Nat /\ Nodes = 1..g.nodes
          /\ level \in [Nodes -> Int]
    BY <1>3 DEF AssignLevel, PlanTypeOK, IsWiring, Nodes
  <2>4. Deps(cursor) # {} => m \in -1..(cursor - 2) /\ \A d \in Deps(cursor) : level[d] <= m
    BY <2>3, NewLevel
  <2> HIDE DEF m
  <2>5. level'[cursor] = IF Deps(cursor) = {} THEN 0 ELSE m + 1
    BY <2>1, <2>3
  <2>6. level'[cursor] \in 0..(cursor - 1)
    <3>1. CASE Deps(cursor) = {}
      BY <2>3, <2>5, <3>1
    <3>2. CASE Deps(cursor) # {}
      BY <2>3, <2>4, <2>5, <3>2
    <3> QED
      BY <3>1, <3>2
  <2>7. \A n \in Nodes : n # cursor => level'[n] = level[n]
    BY <2>1, <2>3
  <2>8. LevelRange'
    <3> SUFFICES ASSUME NEW n \in Nodes
                 PROVE  level'[n] \in -1..(n - 1) /\ (n < cursor' <=> level'[n] >= 0)
      BY <2>1, WiringFixed DEF LevelRange
    <3>1. CASE n = cursor
      BY <2>1, <2>3, <2>6, <3>1
    <3>2. CASE n # cursor
      <4>1. level[n] \in -1..(n - 1) /\ (n < cursor <=> level[n] >= 0)
        BY DEF LevelInv, LevelRange
      <4> QED
        BY <2>1, <2>3, <2>7, <3>2, <4>1
    <3> QED
      BY <3>1, <3>2
  <2>9. LevelsSoFar'
    <3> SUFFICES ASSUME ProducersFirst, NEW n \in Nodes, n < cursor',
                        NEW d \in Deps(n)
                 PROVE  level'[d] < level'[n]
      BY <2>1, WiringFixed DEF LevelsSoFar
    <3>1. d \in Nodes /\ d < n
      BY DepsAreNodes DEF ProducersFirst, PlanTypeOK
    <3>2. level'[d] = level[d]
      BY <2>1, <2>3, <2>7, <3>1
    <3>3. CASE n = cursor
      <4>1. Deps(cursor) # {} /\ level'[n] = m + 1 /\ level[d] <= m /\ m \in Int
        BY <2>3, <2>4, <2>5, <3>3
      <4>2. level[d] \in Int
        BY <2>3, <3>1
      <4> QED
        BY <3>2, <4>1, <4>2
    <3>4. CASE n # cursor
      <4>1. n < cursor /\ level'[n] = level[n]
        BY <2>1, <2>3, <2>7, <3>4
      <4>2. level[d] < level[n]
        BY <4>1 DEF LevelInv, LevelsSoFar
      <4> QED
        BY <3>2, <4>1, <4>2
    <3> QED
      BY <3>3, <3>4
  <2> QED
    BY <2>2, <2>8, <2>9 DEF LevelInv
<1>4. CASE LevelsDone
  <2>1. cursor = g.nodes + 1
    BY <1>4 DEF LevelsDone, PlanTypeOK, IsWiring
  <2> QED
    BY <1>4, <2>1, LevelsKept, Zenon DEF LevelsDone, inputVars, levelVars
<1>5. CASE AssignStreams
  <2>1. phase \in {"streams", "color", "ready"}
    BY <1>5, Zenon DEF AssignStreams
  <2> QED
    BY <1>5, <2>1, LevelsKept, Zenon DEF AssignStreams, inputVars, levelVars
<1>6. ASSUME NEW b \in g.bufs, ColorBuffer(b) PROVE LevelInv'
  BY <1>6, LevelsKept, Zenon DEF ColorBuffer, inputVars, levelVars
<1>7. CASE ColoringGuard
  <2>1. phase \in {"streams", "color", "ready"}
    BY <1>7, Zenon DEF ColoringGuard
  <2> QED
    BY <1>7, <2>1, LevelsKept, Zenon DEF ColoringGuard, inputVars, levelVars
<1>8. CASE UNCHANGED planVars
  BY <1>8, LevelsKept, Zenon DEF planVars
<1> QED
  BY <1>1, <1>2, <1>3, <1>4, <1>5, <1>6, <1>7, <1>8, Zenon DEF PlanStep

LEMMA TypeStep ==
    PlanTypeOK /\ LevelInv /\ [PlanStep]_planVars => PlanTypeOK'
<1> SUFFICES ASSUME PlanTypeOK, LevelInv, [PlanStep]_planVars PROVE PlanTypeOK'
  OBVIOUS
<1>1. NumericTypeOK'
  BY NumericStep
<1>2. FlagTypeOK'
  BY TypeParts, FlagStep
<1> QED
  BY <1>1, <1>2, Zenon DEF PlanTypeOK, NumericTypeOK, FlagTypeOK

\* finalize() keeps every variable in its type for every wiring: levels and
\* colours are numbers, and assignStreams() only ever names streams that exist.
THEOREM PlanTypeCorrect == PlanSpec => []PlanTypeOK
<1>1. Init => PlanTypeOK /\ LevelInv
  BY LevelInvInit
<1>2. PlanTypeOK /\ LevelInv /\ [PlanStep]_planVars => (PlanTypeOK /\ LevelInv)'
  BY TypeStep, LevelStep
<1> QED
  BY <1>1, <1>2, PTL DEF PlanSpec

\* assignLevels() gives every stage a level above those of the stages it reads
\* from, whenever the stages were added producers first: execute(), which goes
\* level by level, meets every producer before its consumers.
THEOREM LevelsCorrect == PlanSpec => []LevelsTopologicalInOrder
<1>1. Init => PlanTypeOK /\ LevelInv
  BY LevelInvInit
<1>2. PlanTypeOK /\ LevelInv /\ [PlanStep]_planVars => (PlanTypeOK /\ LevelInv)'
  BY TypeStep, LevelStep
<1>3. PlanTypeOK /\ LevelInv => LevelsTopologicalInOrder
  <2> SUFFICES ASSUME PlanTypeOK, LevelInv, ProducersFirst,
                      phase \in {"streams", "color", "ready"},
                      NEW n \in Nodes, NEW d \in Deps(n)
               PROVE  level[d] < level[n]
    BY DEF LevelsTopologicalInOrder, LevelsTopological
  <2>1. n < cursor
    BY DEF LevelInv, PlanTypeOK, IsWiring, Nodes
  <2> QED
    BY <2>1 DEF LevelInv, LevelsSoFar
<1> QED
  BY <1>1, <1>2, <1>3, PTL DEF PlanSpec

-----------------------------------------------------------------------------
(***************************************************************************)
(* Colouring.                                                              *)
(***************************************************************************)
\* Nothing is coloured before the colouring pass, and the colouring counts as
\* applied only after its guard.
ColorInv ==
    /\ ColoringSound
    /\ ColoringTotal
    /\ phase \notin {"color", "ready"} => \A b \in g.bufs : color[b] = -1
    /\ phase # "ready" => ~coloringApplied

LEMMA LiveRanges ==
    ASSUME PlanTypeOK, LevelInv, phase \in {"color", "ready"}, NEW b \in Colorable
    PROVE  /\ Born(b) \in Int /\ Dies(b) \in Int
           /\ g.cons[b] = {} => \A n \in Nodes : level[n] <= Dies(b)
           /\ \A n \in g.cons[b] : NodeLevel(n) \in Int /\ NodeLevel(n) <= Dies(b)
<1>1. /\ IsWiring(g) /\ level \in [Nodes -> Int]
      /\ g.nodes \in Nat \ {0} /\ Nodes = 1..g.nodes
      /\ g.group \subseteq Nodes
  BY DEF PlanTypeOK, IsWiring, Nodes
<1>2. b \in g.bufs /\ g.prod[b] \in Nodes /\ g.cons[b] \subseteq Nodes
  BY <1>1 DEF Colorable, External, IsWiring
<1>3. ASSUME NEW n \in Nodes PROVE NodeLevel(n) \in Int /\ NodeLevel(n) <= g.nodes
  <2>1. \A m \in Nodes : level[m] \in Int /\ level[m] <= g.nodes
    BY <1>1 DEF LevelInv, LevelRange
  <2>2. CASE n \in g.group
    <3>1. FusedHead \in Nodes
      BY <1>1, <2>2, MinIsLeast DEF FusedHead
    <3> QED
      BY <2>1, <2>2, <3>1 DEF NodeLevel
  <2>3. CASE n \notin g.group
    BY <2>1, <2>3 DEF NodeLevel
  <2> QED
    BY <2>2, <2>3
<1>4. Born(b) \in Int
  BY <1>2, <1>3 DEF Born
<1>5. /\ Dies(b) \in Int
      /\ g.cons[b] = {} => \A n \in Nodes : level[n] <= Dies(b)
      /\ \A n \in g.cons[b] : NodeLevel(n) \in Int /\ NodeLevel(n) <= Dies(b)
  <2>1. CASE g.cons[b] = {}
    BY <2>1, MaxLevelFacts DEF Dies
  <2>2. CASE g.cons[b] # {}
    <3> DEFINE S == {NodeLevel(n) : n \in g.cons[b]} \cup {0}
    <3>1. S \subseteq Int /\ S # {} /\ g.nodes \in Int /\ \A x \in S : x <= g.nodes
      BY <1>1, <1>2, <1>3
    <3> HIDE DEF S
    <3>2. Max(S) \in Int /\ \A x \in S : x <= Max(S)
      BY <3>1, MaxIsGreatest
    <3>3. Dies(b) = Max(S) /\ \A n \in g.cons[b] : NodeLevel(n) \in S
      BY <2>2 DEF Dies, S
    <3> QED
      BY <1>2, <1>3, <2>2, <3>2, <3>3
  <2> QED
    BY <2>1, <2>2
<1> QED
  BY <1>4, <1>5

\* The live ranges depend on the wiring and the levels only.
LEMMA RangesFixed ==
    ASSUME g' = g, level' = level
    PROVE  \A b : Born(b)' = Born(b) /\ Dies(b)' = Dies(b)
BY DEF Born, Dies, NodeLevel, FusedHead, MaxLevel, Nodes

LEMMA ColorInvInit == Init => ColorInv
<1> SUFFICES ASSUME Init PROVE ColorInv
  OBVIOUS
<1>1. phase = "kahn" /\ \A b \in g.bufs : color[b] = -1
  BY DEF Init
<1>2. ~coloringApplied
  BY Zenon DEF Init
<1>3. ColoringSound
  BY <1>1 DEF ColoringSound, Colorable
<1> QED
  BY <1>1, <1>2, <1>3, Zenon DEF ColorInv, ColoringTotal

\* One iteration of the greedy pass keeps the colouring sound.
LEMMA GreedySound ==
    ASSUME PlanTypeOK, LevelInv, ColoringSound, NEW b \in g.bufs, ColorBuffer(b)
    PROVE  ColoringSound'
<1>1. PICK c \in 0..(Cardinality(g.bufs) - 1) :
        /\ c \notin UsedColors(b)
        /\ color' = [color EXCEPT ![b] = c]
        /\ regionSize' = [regionSize EXCEPT ![c] = Max({regionSize[c], g.size[b]})]
  BY Zenon DEF ColorBuffer
<1>2. g' = g /\ level' = level /\ phase = "color" /\ b \in Colorable
  BY Zenon DEF ColorBuffer, inputVars, levelVars, Uncolored
<1>3. /\ color \in [g.bufs -> Colors] /\ Cardinality(g.bufs) \in Nat
      /\ regionSize \in [0..(Cardinality(g.bufs) - 1) -> Nat]
      /\ g.size \in [g.bufs -> Nat] /\ Colorable \subseteq g.bufs
  BY FiniteParts DEF PlanTypeOK, IsWiring, Colorable
<1>4. /\ regionSize'[c] \in Nat /\ regionSize'[c] >= g.size[b]
      /\ regionSize'[c] >= regionSize[c]
  BY <1>1, <1>3, MaxOfTwo
<1>5. \A e \in 0..(Cardinality(g.bufs) - 1) : regionSize[e] <= regionSize'[e]
  BY <1>1, <1>3, <1>4
<1>6. color'[b] = c /\ \A a \in g.bufs : a # b => color'[a] = color[a]
  BY <1>1, <1>3
<1>7. ASSUME NEW a \in Colorable, a # b, color[a] = c
      PROVE  Dies(a) < Born(b) \/ Dies(b) < Born(a)
  <2>1. ~Interfere(a, b)
    BY <1>1, <1>7 DEF UsedColors
  <2>2. Born(a) \in Int /\ Dies(a) \in Int /\ Born(b) \in Int /\ Dies(b) \in Int
    BY <1>2, <1>7, LiveRanges
  <2> QED
    BY <1>7, <2>1, <2>2 DEF Interfere
<1> SUFFICES ASSUME NEW a \in Colorable, color'[a] # -1
             PROVE  /\ g.size[a] <= regionSize'[color'[a]]
                    /\ \A d \in Colorable : a # d /\ color'[a] = color'[d] =>
                          Dies(a) < Born(d) \/ Dies(d) < Born(a)
  BY <1>2, WiringFixed, RangesFixed DEF ColoringSound
<1>8. g.size[a] <= regionSize'[color'[a]]
  <2>1. CASE a = b
    BY <1>4, <1>6, <2>1
  <2>2. CASE a # b
    <3>1. color'[a] = color[a] /\ color[a] \in 0..(Cardinality(g.bufs) - 1)
      BY <1>3, <1>6, <2>2 DEF Colors
    <3>2. g.size[a] <= regionSize[color[a]]
      BY <3>1 DEF ColoringSound
    <3>3. g.size[a] \in Int /\ regionSize[color[a]] \in Int /\ regionSize'[color[a]] \in Int
      BY <1>1, <1>3, <1>4, <3>1
    <3> QED
      BY <1>5, <3>1, <3>2, <3>3
  <2> QED
    BY <2>1, <2>2
<1>9. ASSUME NEW d \in Colorable, a # d, color'[a] = color'[d]
      PROVE  Dies(a) < Born(d) \/ Dies(d) < Born(a)
  <2>1. CASE a = b
    BY <1>3, <1>6, <1>7, <1>9, <2>1
  <2>2. CASE d = b
    BY <1>3, <1>6, <1>7, <1>9, <2>2
  <2>3. CASE a # b /\ d # b
    <3>1. color[a] = color[d] /\ color[a] # -1
      BY <1>3, <1>6, <1>9, <2>3
    <3> QED
      BY <1>9, <3>1 DEF ColoringSound
  <2> QED
    BY <2>1, <2>2, <2>3
<1> QED
  BY <1>8, <1>9

\* A step that leaves the wiring, the levels and the colours alone.
LEMMA ColorsKept ==
    ASSUME ColorInv, g' = g, color' = color, regionSize' = regionSize,
           coloringApplied' = coloringApplied,
           level' = level \/ \A b \in g.bufs : color[b] = -1,
           phase' \notin {"color", "ready"} => phase \notin {"color", "ready"},
           phase' # "ready" => phase # "ready"
    PROVE  ColorInv'
<1>1. ColoringSound'
  <2>1. CASE level' = level
    BY <2>1, WiringFixed, RangesFixed DEF ColorInv, ColoringSound
  <2>2. CASE \A b \in g.bufs : color[b] = -1
    BY <2>2, WiringFixed DEF ColoringSound, Colorable
  <2> QED
    BY <2>1, <2>2
<1>2. ColoringTotal'
  <2>1. Colorable' = Colorable
    BY WiringFixed
  <2> QED
    BY <2>1, Zenon DEF ColorInv, ColoringTotal
<1> QED
  BY <1>1, <1>2, Zenon DEF ColorInv

LEMMA ColorStep ==
    PlanTypeOK /\ LevelInv /\ ColorInv /\ [PlanStep]_planVars => ColorInv'
<1> SUFFICES ASSUME PlanTypeOK, LevelInv, ColorInv, [PlanStep]_planVars
             PROVE  ColorInv'
  OBVIOUS
<1>1. ASSUME NEW n \in Nodes, KahnVisit(n) PROVE ColorInv'
  BY <1>1, ColorsKept, Zenon DEF KahnVisit, inputVars, levelVars, colorVars
<1>2. CASE KahnDone
  <2>1. phase = "kahn" /\ phase' \in {"levels", "rejected"}
    BY <1>2 DEF KahnDone
  <2>2. phase \notin {"color", "ready"} /\ phase # "ready"
    BY <2>1
  <2> QED
    BY <1>2, <2>2, ColorsKept, Zenon DEF KahnDone, inputVars, levelVars, colorVars
<1>3. CASE AssignLevel
  <2>1. phase = "levels"
    BY <1>3, Zenon DEF AssignLevel
  <2>2. \A b \in g.bufs : color[b] = -1
    BY <2>1 DEF ColorInv
  <2> QED
    BY <1>3, <2>2, ColorsKept, Zenon DEF AssignLevel, inputVars, colorVars
<1>4. CASE LevelsDone
  <2>1. phase = "levels"
    BY <1>4, Zenon DEF LevelsDone
  <2>2. phase \notin {"color", "ready"} /\ phase # "ready"
    BY <2>1
  <2> QED
    BY <1>4, <2>2, ColorsKept, Zenon DEF LevelsDone, inputVars, levelVars, colorVars
<1>5. CASE AssignStreams
  <2>1. phase = "streams"
    BY <1>5, Zenon DEF AssignStreams
  <2>2. phase \notin {"color", "ready"} /\ phase # "ready"
    BY <2>1
  <2> QED
    BY <1>5, <2>2, ColorsKept, Zenon DEF AssignStreams, inputVars, levelVars, colorVars
<1>6. ASSUME NEW b \in g.bufs, ColorBuffer(b) PROVE ColorInv'
  <2>1. phase = "color" /\ phase' = phase /\ coloringApplied' = coloringApplied
    BY <1>6, Zenon DEF ColorBuffer
  <2>2. ~coloringApplied'
    <3>1. phase # "ready"
      BY <2>1
    <3> QED
      BY <2>1, <3>1, Zenon DEF ColorInv
  <2>3. ColoringSound'
    BY <1>6, GreedySound DEF ColorInv
  <2>4. ColoringTotal'
    BY <2>2, Zenon DEF ColoringTotal
  <2>5. phase' \in {"color", "ready"}
    BY <2>1
  <2> QED
    BY <2>2, <2>3, <2>4, <2>5, Zenon DEF ColorInv
<1>7. CASE ColoringGuard
  <2>1. g' = g /\ level' = level /\ phase' = "ready" /\ Uncolored = {}
    BY <1>7, Zenon DEF ColoringGuard, inputVars, levelVars
  <2>2. \/ coloringApplied' /\ color' = color /\ regionSize' = regionSize
        \/ ~coloringApplied' /\ color' = [b \in g.bufs |-> -1]
    BY <1>7, Zenon DEF ColoringGuard
  <2>3. Colorable' = Colorable
    BY <2>1, WiringFixed
  <2>4. \A b \in Colorable : color[b] # -1
    BY <2>1 DEF Uncolored
  <2>5. ColoringSound'
    <3>1. CASE color' = color /\ regionSize' = regionSize
      BY <2>1, <2>3, <3>1, RangesFixed DEF ColorInv, ColoringSound
    <3>2. CASE color' = [b \in g.bufs |-> -1]
      <4>1. \A b \in Colorable : color'[b] = -1
        BY <3>2 DEF Colorable
      <4> QED
        BY <2>3, <4>1 DEF ColoringSound
    <3> QED
      BY <2>2, <3>1, <3>2, Zenon
  <2>6. ColoringTotal'
    BY <2>2, <2>3, <2>4, Zenon DEF ColoringTotal
  <2> QED
    BY <2>1, <2>5, <2>6, Zenon DEF ColorInv
<1>8. CASE UNCHANGED planVars
  BY <1>8, ColorsKept, Zenon DEF planVars
<1> QED
  BY <1>1, <1>2, <1>3, <1>4, <1>5, <1>6, <1>7, <1>8, Zenon DEF PlanStep

\* colorBuffers() never lets two buffers that are live at one level share a
\* region, each buffer fits its region, and a colouring that is kept covers
\* every buffer: for every wiring, with or without a fused group.
THEOREM ColoringCorrect == PlanSpec => [](ColoringSound /\ ColoringTotal)
<1>1. Init => PlanTypeOK /\ LevelInv /\ ColorInv
  BY LevelInvInit, ColorInvInit
<1>2. PlanTypeOK /\ LevelInv /\ ColorInv /\ [PlanStep]_planVars
        => (PlanTypeOK /\ LevelInv /\ ColorInv)'
  BY TypeStep, LevelStep, ColorStep
<1>3. ColorInv => ColoringSound /\ ColoringTotal
  BY Zenon DEF ColorInv
<1> QED
  BY <1>1, <1>2, <1>3, PTL DEF PlanSpec

\* The early return of colorBuffers() leaves no half coloured DAG behind: once
\* the colouring is applied, every buffer it is about has a colour, whatever the
\* order in which equal buffers were sorted.
THEOREM ColoringComplete == PlanSpec => []ColoringTotal
BY ColoringCorrect, PTL

-----------------------------------------------------------------------------
(***************************************************************************)
(* Streams.                                                                *)
(***************************************************************************)
\* Two nodes of one level have different places in it, and so different
\* streams when there are as many streams as the level has nodes.
LEMMA DistinctPlaces ==
    ASSUME PlanTypeOK, NEW m \in Nodes, NEW n \in Nodes, m < n, level[m] = level[n],
           NEW k \in Nat \ {0}, Cardinality(AtLevel(level[n])) <= k
    PROVE  k > 1 /\ RoundRobin(m, k) # RoundRobin(n, k)
<1> DEFINE L == AtLevel(level[n])
           P == {i \in L : i < m}
           Q == {i \in L : i < n}
<1>1. L \in SUBSET Nodes /\ Nodes \subseteq Int /\ IsWiring(g)
  BY DEF AtLevel, Nodes, PlanTypeOK, IsWiring
<1>2. m \in L /\ n \in L
  BY DEF AtLevel
<1>3. P \in SUBSET Q /\ Q \in SUBSET L /\ m \in Q /\ m \notin P /\ n \notin Q
  <2>1. m \in Int /\ n \in Int /\ \A i \in L : i \in Int
    BY <1>1
  <2>2. \A i \in L : i < m => i < n
    BY <2>1
  <2>3. ~(m < m) /\ ~(n < n)
    BY <2>1
  <2> QED
    BY <1>2, <2>2, <2>3, Zenon
<1>4. L \in SUBSET Nodes /\ P \in SUBSET Nodes /\ Q \in SUBSET Nodes
  BY <1>1
<1> HIDE DEF L, P, Q
<1>5. /\ IsFiniteSet(L) /\ Cardinality(L) \in Nat
      /\ IsFiniteSet(Q) /\ Cardinality(Q) \in Nat /\ Cardinality(P) \in Nat
  BY <1>1, <1>4, FiniteParts
<1>6. Cardinality(P) < Cardinality(Q)
  <2>1. Cardinality(P) <= Cardinality(Q) /\ (Cardinality(Q) = Cardinality(P) => Q = P)
    BY <1>3, <1>5, FS_Subset
  <2>2. Q # P
    BY <1>3
  <2> QED
    BY <1>5, <2>1, <2>2
<1>7. Cardinality(Q) < Cardinality(L)
  <2>1. Cardinality(Q) <= Cardinality(L) /\ (Cardinality(L) = Cardinality(Q) => L = Q)
    BY <1>3, <1>5, FS_Subset
  <2>2. L # Q
    BY <1>2, <1>3
  <2> QED
    BY <1>5, <2>1, <2>2
<1>8. Cardinality(L) <= k
  BY DEF L
<1>9. Cardinality(P) % k = Cardinality(P) /\ Cardinality(Q) % k = Cardinality(Q)
  <2>1. Cardinality(P) < k /\ Cardinality(Q) < k
    BY <1>5, <1>6, <1>7, <1>8
  <2> QED
    BY <1>5, <2>1, Remainder, Zenon
<1>10. RoundRobin(m, k) = 1 + Cardinality(P) /\ RoundRobin(n, k) = 1 + Cardinality(Q)
  BY <1>9 DEF RoundRobin, P, Q, L
<1> QED
  BY <1>5, <1>6, <1>7, <1>8, <1>10

LEMMA StreamStep ==
    PlanTypeOK /\ LevelInv /\ SameLevelDistinctStreams /\ [PlanStep]_planVars
      => SameLevelDistinctStreams'
<1> SUFFICES ASSUME PlanTypeOK, LevelInv, SameLevelDistinctStreams,
                    [PlanStep]_planVars, phase' \in {"color", "ready"}, configured' = 0,
                    NEW m \in Nodes', NEW n \in Nodes', m # n, level'[m] = level'[n]
             PROVE  streamOf'[m] # streamOf'[n]
  BY DEF SameLevelDistinctStreams
<1>1. CASE phase \in {"color", "ready"}
  <2>1. g' = g /\ configured' = configured /\ level' = level /\ streamOf' = streamOf
    <3>1. ASSUME NEW b \in g.bufs, ColorBuffer(b)
          PROVE  g' = g /\ configured' = configured /\ level' = level /\ streamOf' = streamOf
      BY <3>1, Zenon DEF ColorBuffer, inputVars, levelVars, streamVars
    <3>2. CASE ColoringGuard
      BY <3>2, Zenon DEF ColoringGuard, inputVars, levelVars, streamVars
    <3>3. CASE UNCHANGED planVars
      BY <3>3, Zenon DEF planVars
    <3>4. phase \notin {"kahn", "levels", "streams"}
      BY <1>1
    <3> QED
      BY <3>1, <3>2, <3>3, <3>4 DEF PlanStep, KahnVisit, KahnDone, AssignLevel,
                                     LevelsDone, AssignStreams
  <2> QED
    BY <1>1, <2>1, WiringFixed DEF SameLevelDistinctStreams
<1>2. CASE phase \notin {"color", "ready"}
  <2>1. AssignStreams
    <3>1. phase' # phase
      BY <1>2
    <3> QED
      BY <1>2, <3>1 DEF PlanStep, KahnVisit, KahnDone, AssignLevel, LevelsDone,
                        ColorBuffer, ColoringGuard, planVars
  <2>2. g' = g /\ configured' = configured /\ level' = level /\ phase = "streams"
    BY <2>1, Zenon DEF AssignStreams, inputVars, levelVars
  <2>3. m \in Nodes /\ n \in Nodes /\ level[m] = level[n] /\ Nodes \subseteq Int
    BY <2>2, WiringFixed DEF Nodes
  <2> DEFINE k == MaxParallelism
  <2>4. k \in Nat \ {0} /\ \A i \in Nodes : Cardinality(AtLevel(level[i])) <= k
    BY <2>2, MaxParallelismFacts
  <2>5. streamOf' = [i \in Nodes |-> IF k = 1 THEN 0 ELSE RoundRobin(i, k)]
    BY <2>1, <2>2 DEF AssignStreams
  <2> HIDE DEF k
  <2>6. k > 1 /\ RoundRobin(m, k) # RoundRobin(n, k)
    <3>1. CASE m < n
      BY <2>3, <2>4, <3>1, DistinctPlaces
    <3>2. CASE n < m
      BY <2>3, <2>4, <3>2, DistinctPlaces
    <3> QED
      BY <2>3, <3>1, <3>2
  <2> QED
    BY <2>3, <2>4, <2>5, <2>6
<1> QED
  BY <1>1, <1>2

\* With automatic streams, the nodes of one level are on pairwise distinct
\* streams: finalize() creates as many streams as the widest level has nodes.
THEOREM StreamsDistinct == PlanSpec => []SameLevelDistinctStreams
<1>1. Init => PlanTypeOK /\ LevelInv /\ SameLevelDistinctStreams
  <2>1. Init => SameLevelDistinctStreams
    BY DEF Init, SameLevelDistinctStreams
  <2> QED
    BY <2>1, LevelInvInit
<1>2. PlanTypeOK /\ LevelInv /\ SameLevelDistinctStreams /\ [PlanStep]_planVars
        => (PlanTypeOK /\ LevelInv /\ SameLevelDistinctStreams)'
  BY TypeStep, LevelStep, StreamStep
<1> QED
  BY <1>1, <1>2, PTL DEF PlanSpec

-----------------------------------------------------------------------------
(***************************************************************************)
(* The cycle check.                                                        *)
(***************************************************************************)

\* The nodes taken from the queue so far: in-degree 0 and no longer queued.
Taken == {n \in Nodes : inDegree[n] = 0} \ queue

\* The inputs of n whose producer has not been taken.
Pending(n, W) == {b \in Inputs(n) \ External : g.prod[b] \notin W}

\* In every non-empty part of W some node depends on no other of the part.
WellOrdered(W) == \A S \in (SUBSET W) \ {{}} : \E n \in S : Deps(n) \cap S = {}

KahnInv ==
    /\ \A n \in queue : inDegree[n] = 0
    /\ \A n \in Nodes : inDegree[n] = Cardinality(Pending(n, Taken))
    /\ visited = Cardinality(Taken)
    /\ WellOrdered(Taken)

\* A node whose in-degree is 0 depends on taken nodes only.
LEMMA ReadyDeps ==
    ASSUME IsWiring(g), KahnInv, NEW n \in Nodes
    PROVE  inDegree[n] = 0 <=> Deps(n) \subseteq Taken
<1>1. Pending(n, Taken) \in SUBSET g.bufs
  BY DEF Pending, Inputs
<1>2. inDegree[n] = 0 <=> Pending(n, Taken) = {}
  BY <1>1, FiniteParts, FS_EmptySet DEF KahnInv
<1> QED
  BY <1>2 DEF Pending, Deps

LEMMA KahnInvInit == Init => KahnInv
<1> SUFFICES ASSUME Init PROVE KahnInv
  OBVIOUS
<1>1. IsWiring(g) /\ queue \subseteq Nodes
  BY LevelInvInit DEF PlanTypeOK
<1>2. \A n \in Nodes : inDegree[n] = Cardinality(Inputs(n) \ External)
  BY DEF Init
<1>3. \A n \in Nodes : inDegree[n] = 0 <=> n \in queue
  <2>1. ASSUME NEW n \in Nodes PROVE inDegree[n] = 0 <=> Inputs(n) \ External = {}
    <3>1. Inputs(n) \ External \in SUBSET g.bufs
      BY DEF Inputs
    <3> QED
      BY <1>1, <1>2, <3>1, FiniteParts, FS_EmptySet
  <2> QED
    BY <2>1 DEF Init
<1>4. Taken = {}
  BY <1>3 DEF Taken
<1>5. \A n \in Nodes : Pending(n, Taken) = Inputs(n) \ External
  BY <1>4 DEF Pending
<1>6. visited = Cardinality(Taken)
  BY <1>4, FS_EmptySet DEF Init
<1> QED
  BY <1>1, <1>2, <1>3, <1>4, <1>5, <1>6 DEF KahnInv, WellOrdered

\* Dropping the edges out of n leaves the inputs of other producers pending.
LEMMA EdgesDropped ==
    ASSUME IsWiring(g), NEW W, NEW n \in Nodes \ W, NEW m \in Nodes
    PROVE  /\ EdgeCount(n, m) \in Nat
           /\ Cardinality(Pending(m, W)) \in Nat
           /\ Cardinality(Pending(m, W \cup {n})) =
                Cardinality(Pending(m, W)) - EdgeCount(n, m)
<1> DEFINE E == Inputs(m) \cap Outputs(n)
           P == Pending(m, W)
           Q == Pending(m, W \cup {n})
<1>1. E \in SUBSET g.bufs /\ P \in SUBSET g.bufs /\ Q \in SUBSET g.bufs
  BY DEF Inputs, Pending
<1>2. P = E \cup Q /\ E \cap Q = {}
  BY DEF Pending, Inputs, Outputs, External, Nodes, IsWiring
<1> HIDE DEF P, Q, E
<1>3. /\ IsFiniteSet(E) /\ IsFiniteSet(Q)
      /\ Cardinality(E) \in Nat /\ Cardinality(Q) \in Nat /\ Cardinality(P) \in Nat
  BY <1>1, FiniteParts
<1>4. Cardinality(P) = Cardinality(E) + Cardinality(Q)
  <2>1. Cardinality(P) = Cardinality(E) + Cardinality(Q) - Cardinality(E \cap Q)
    BY <1>2, <1>3, FS_Union
  <2> QED
    BY <1>2, <1>3, <2>1, FS_EmptySet
<1> QED
  BY <1>3, <1>4 DEF EdgeCount, P, Q, E

\* One turn of the loop takes n and nothing else, and all that depends on n is
\* either still waiting for another producer or put into the queue.
LEMMA VisitTakes ==
    ASSUME PlanTypeOK, KahnInv, NEW n \in Nodes, KahnVisit(n)
    PROVE  /\ g' = g /\ n \notin Taken /\ Taken' = Taken \cup {n}
           /\ \A m \in queue' : inDegree'[m] = 0
           /\ \A m \in Nodes : inDegree'[m] = Cardinality(Pending(m, Taken \cup {n}))
<1>1. /\ g' = g /\ n \in queue
      /\ inDegree' = [m \in Nodes |-> inDegree[m] - EdgeCount(n, m)]
      /\ queue' = (queue \ {n})
                    \cup {m \in Nodes : EdgeCount(n, m) > 0 /\ inDegree'[m] = 0}
  BY Zenon DEF KahnVisit, inputVars
<1>2. IsWiring(g) /\ queue \subseteq Nodes /\ Nodes' = Nodes /\ n \notin Taken
  BY <1>1, WiringFixed DEF PlanTypeOK, Taken
<1>3. ASSUME NEW m \in Nodes
      PROVE  /\ inDegree'[m] = inDegree[m] - EdgeCount(n, m)
             /\ inDegree[m] = Cardinality(Pending(m, Taken))
             /\ inDegree[m] \in Nat /\ EdgeCount(n, m) \in Nat
             /\ inDegree'[m] = Cardinality(Pending(m, Taken \cup {n}))
             /\ inDegree'[m] \in Nat
  <2>1. /\ EdgeCount(n, m) \in Nat
        /\ Cardinality(Pending(m, Taken)) \in Nat
        /\ Cardinality(Pending(m, Taken \cup {n})) =
             Cardinality(Pending(m, Taken)) - EdgeCount(n, m)
    BY <1>2, EdgesDropped
  <2>2. Pending(m, Taken \cup {n}) \in SUBSET g.bufs
    BY DEF Pending, Inputs
  <2>3. Cardinality(Pending(m, Taken \cup {n})) \in Nat
    BY <1>2, <2>2, FiniteParts
  <2> QED
    BY <1>1, <2>1, <2>3 DEF KahnInv
<1>4. ASSUME NEW m \in Nodes, inDegree[m] = 0
      PROVE  inDegree'[m] = 0 /\ EdgeCount(n, m) = 0
  BY <1>3, <1>4
<1>5. \A m \in queue' : inDegree'[m] = 0
  BY <1>1, <1>2, <1>4 DEF KahnInv
<1>6. ASSUME NEW m \in Nodes
      PROVE  (inDegree'[m] = 0 /\ m \notin queue')
               <=> (m = n \/ (inDegree[m] = 0 /\ m \notin queue))
  <2>1. CASE inDegree[m] = 0
    <3>1. inDegree'[m] = 0 /\ EdgeCount(n, m) = 0
      BY <1>4, <2>1
    <3>2. m \in queue' <=> m \in queue \ {n}
      BY <1>1, <3>1
    <3> QED
      BY <1>1, <2>1, <3>1, <3>2
  <2>2. CASE inDegree[m] # 0
    <3>1. m # n
      BY <1>1, <2>2 DEF KahnInv
    <3>2. inDegree'[m] = 0 => EdgeCount(n, m) > 0
      BY <1>3, <2>2
    <3> QED
      BY <1>1, <2>2, <3>1, <3>2
  <2> QED
    BY <2>1, <2>2
<1>7. Taken' = Taken \cup {n}
  BY <1>1, <1>2, <1>6 DEF Taken
<1> QED
  BY <1>1, <1>2, <1>3, <1>5, <1>7

\* Taking one more node, all of whose producers are taken, keeps the order.
LEMMA TakenOrdered ==
    ASSUME NEW W, NEW n, WellOrdered(W), n \notin W, Deps(n) \subseteq W,
           \A m \in W : Deps(m) \subseteq W
    PROVE  WellOrdered(W \cup {n})
<1> SUFFICES ASSUME NEW S \in (SUBSET (W \cup {n})) \ {{}}
             PROVE  \E m \in S : Deps(m) \cap S = {}
  BY DEF WellOrdered
<1>1. CASE S = {n}
  BY <1>1
<1>2. CASE S # {n}
  <2>1. S \ {n} \in (SUBSET W) \ {{}}
    BY <1>2
  <2>2. PICK m \in S \ {n} : Deps(m) \cap (S \ {n}) = {}
    BY <2>1 DEF WellOrdered
  <2>3. m \in W /\ n \notin Deps(m)
    BY <2>1, <2>2
  <2> QED
    BY <2>2, <2>3
<1> QED
  BY <1>1, <1>2

LEMMA KahnStep ==
    ASSUME PlanTypeOK, KahnInv, [PlanStep]_planVars
    PROVE  KahnInv'
<1>1. ASSUME NEW n \in Nodes, KahnVisit(n) PROVE KahnInv'
  <2>1. /\ g' = g /\ n \notin Taken /\ Taken' = Taken \cup {n}
        /\ \A m \in queue' : inDegree'[m] = 0
        /\ \A m \in Nodes : inDegree'[m] = Cardinality(Pending(m, Taken \cup {n}))
    BY <1>1, VisitTakes
  <2>2. IsWiring(g) /\ Taken \in SUBSET Nodes /\ Nodes' = Nodes
    BY <2>1, WiringFixed DEF PlanTypeOK, Taken
  <2>3. \A m : Pending(m, Taken)' = Pending(m, Taken \cup {n})
    BY <2>1 DEF Pending, Inputs, External
  <2>4. visited' = Cardinality(Taken')
    <3>1. visited' = visited + 1 /\ visited = Cardinality(Taken)
      BY <1>1, Zenon DEF KahnVisit, KahnInv
    <3> QED
      BY <2>1, <2>2, <3>1, FiniteParts, FS_AddElement
  <2>5. WellOrdered(Taken \cup {n})
    <3>1. inDegree[n] = 0 /\ \A m \in Taken : inDegree[m] = 0
      BY <1>1, Zenon DEF KahnVisit, KahnInv, Taken
    <3>2. Deps(n) \subseteq Taken /\ \A m \in Taken : Deps(m) \subseteq Taken
      BY <2>2, <3>1, ReadyDeps
    <3> QED
      BY <2>1, <3>2, TakenOrdered DEF KahnInv
  <2>6. WellOrdered(Taken)'
    BY <2>1, <2>5, WiringFixed DEF WellOrdered
  <2> QED
    BY <2>1, <2>2, <2>3, <2>4, <2>6 DEF KahnInv
<1>2. ASSUME g' = g, inDegree' = inDegree, queue' = queue, visited' = visited
      PROVE  KahnInv'
  <2>1. Taken' = Taken /\ Nodes' = Nodes
    BY <1>2 DEF Taken, Nodes
  <2>2. \A m : Pending(m, Taken)' = Pending(m, Taken)
    BY <1>2, <2>1 DEF Pending, Inputs, External
  <2>3. WellOrdered(Taken)' = WellOrdered(Taken)
    BY <1>2, <2>1, WiringFixed DEF WellOrdered
  <2> QED
    BY <1>2, <2>1, <2>2, <2>3 DEF KahnInv
<1>3. CASE \/ KahnDone \/ AssignLevel \/ LevelsDone \/ AssignStreams
           \/ \E b \in g.bufs : ColorBuffer(b)
           \/ ColoringGuard \/ UNCHANGED planVars
  <2>1. g' = g /\ inDegree' = inDegree /\ queue' = queue /\ visited' = visited
    BY <1>3, Zenon DEF KahnDone, AssignLevel, LevelsDone, AssignStreams, ColorBuffer,
                       ColoringGuard, planVars, inputVars, kahnVars
  <2> QED
    BY <1>2, <2>1
<1> QED
  BY <1>1, <1>3, Zenon DEF PlanStep

\* With the queue empty, all nodes are taken exactly if there is no cycle.
LEMMA QueueEmpty ==
    ASSUME PlanTypeOK, KahnInv, queue = {}
    PROVE  visited = g.nodes <=> Acyclic
<1>1. IsWiring(g) /\ Taken \in SUBSET Nodes /\ g.nodes \in Nat
  BY DEF PlanTypeOK, Taken, IsWiring
<1>2. IsFiniteSet(Nodes) /\ Cardinality(Nodes) = g.nodes
  BY SMTT(60), <1>1, FS_Interval DEF Nodes
<1>3. visited = g.nodes <=> Taken = Nodes
  BY <1>1, <1>2, FS_Subset DEF KahnInv
<1>4. Taken = Nodes => Acyclic
  BY DEF KahnInv, WellOrdered, Acyclic
<1>5. ASSUME Taken # Nodes PROVE ~Acyclic
  <2>1. Nodes \ Taken \in (SUBSET Nodes) \ {{}}
    BY <1>1, <1>5
  <2>2. ASSUME NEW n \in Nodes \ Taken PROVE Deps(n) \cap (Nodes \ Taken) # {}
    <3>1. inDegree[n] # 0
      BY <2>2 DEF Taken
    <3>2. ~(Deps(n) \subseteq Taken) /\ Deps(n) \subseteq Nodes
      BY <1>1, <3>1, ReadyDeps, DepsAreNodes
    <3> QED
      BY <3>2
  <2> QED
    BY <2>1, <2>2 DEF Acyclic
<1> QED
  BY <1>3, <1>4, <1>5

\* finalize() rejects exactly the cyclic wirings, for any number of stages and
\* connections and whatever the order in which Kahn's loop takes ready nodes.
THEOREM CycleCheckCorrect == PlanSpec => []CycleCheckExact
<1>1. Init => PlanTypeOK /\ LevelInv /\ KahnInv /\ CycleCheckExact
  BY LevelInvInit, KahnInvInit DEF Init, CycleCheckExact
<1>2. ASSUME PlanTypeOK, LevelInv, KahnInv, CycleCheckExact, [PlanStep]_planVars
      PROVE  (PlanTypeOK /\ LevelInv /\ KahnInv /\ CycleCheckExact)'
  <2>1. (PlanTypeOK /\ LevelInv /\ KahnInv)'
    BY <1>2, TypeStep, LevelStep, KahnStep
  <2>2. g' = g
    BY <1>2, Zenon DEF PlanStep, KahnVisit, KahnDone, AssignLevel, LevelsDone,
                       AssignStreams, ColorBuffer, ColoringGuard, planVars, inputVars
  <2>3. Acyclic' = Acyclic
    BY <2>2, WiringFixed DEF Acyclic
  <2>4. CASE KahnDone
    <3>1. visited = g.nodes <=> Acyclic
      BY <1>2, <2>4, QueueEmpty DEF KahnDone
    <3>2. phase' = IF visited = g.nodes THEN "levels" ELSE "rejected"
      BY <2>4 DEF KahnDone
    <3> QED
      BY <2>1, <2>3, <3>1, <3>2 DEF CycleCheckExact
  <2>5. CASE ~KahnDone
    <3>1. \/ phase' = phase
          \/ /\ phase \in {"levels", "streams", "color"}
             /\ phase' \in {"streams", "color", "ready"}
      BY <1>2, <2>5 DEF PlanStep, KahnVisit, AssignLevel, LevelsDone,
                        AssignStreams, ColorBuffer, ColoringGuard, planVars
    <3> QED
      BY <1>2, <2>1, <2>3, <3>1 DEF CycleCheckExact
  <2> QED
    BY <2>4, <2>5
<1> QED
  BY <1>1, <1>2, PTL DEF PlanSpec
=============================================================================
