---------------------------- MODULE FusionProofs ----------------------------
(***************************************************************************)
(* What planAndInstallFusion() installs, for any wiring, access patterns   *)
(* and registry of kernels.                                                *)
(***************************************************************************)
EXTENDS FusionPlanner, SumLemmas, SequenceTheorems

-----------------------------------------------------------------------------
(***************************************************************************)
(* Linear edges.                                                           *)
(***************************************************************************)
LEMMA PlannedWiring ==
    ASSUME g \in Graphs, Planned
    PROVE  /\ IsWiring(g)
           /\ g.specs \subseteq FusionSpecs
           /\ \A b \in g.persistent : g.prod[b] = 0 \/ g.cons[b] = {}
  BY DagAssumption, FusionAssumption DEF Planned

\* Buffer b is all that p gives to others and all that n is given.
Connects(p, n, b) ==
    /\ g.prod[b] = p /\ n \in g.cons[b] /\ Producers(n) = {b}
    /\ \A x \in g.bufs : \A m \in g.cons[x] : g.prod[x] = p => x = b /\ m = n

\* The one connection that a linear edge is.
LEMMA EdgeConnection ==
    ASSUME g \in Graphs, Planned, NEW spec, NEW p \in Nodes, NEW n \in Nodes,
           linearFusableEdge(spec, p, n)
    PROVE  \E b \in g.bufs : Connects(p, n, b)
<1>1. IsWiring(g)
  BY PlannedWiring
<1>2. IsFiniteSet(g.bufs) /\ IsFiniteSet(Nodes)
  <2>1. IsFiniteSet(g.bufs) /\ g.nodes \in Int
    BY <1>1 DEF IsWiring
  <2> QED
    BY <2>1, FS_Interval DEF Nodes
<1>3. IsFiniteSet(Consumers(p))
  <2>1. IsFiniteSet(g.bufs \X Nodes)
    BY <1>2, FS_Product
  <2>2. Consumers(p) \in SUBSET (g.bufs \X Nodes)
    BY DEF Consumers
  <2> QED
    BY <2>1, <2>2, FS_Subset
<1>4. IsFiniteSet(Producers(n))
  <2>1. Producers(n) \in SUBSET g.bufs
    BY DEF Producers
  <2> QED
    BY <1>2, <2>1, FS_Subset
<1>5. PICK e : Consumers(p) = {e}
  BY <1>3, FS_Singleton DEF linearFusableEdge
<1>6. PICK b : Producers(n) = {b}
  BY <1>4, FS_Singleton DEF linearFusableEdge
<1>7. e \in g.bufs \X Nodes /\ g.prod[e[1]] = p /\ e[2] \in g.cons[e[1]] /\ e[2] = n
  BY <1>5 DEF linearFusableEdge, Consumers
<1>8. e[1] \in Producers(n)
  BY <1>1, <1>7 DEF Producers, Nodes, IsWiring
<1>9. e[1] = b /\ e = <<e[1], e[2]>>
  BY <1>6, <1>7, <1>8
<1>10. ASSUME NEW x \in g.bufs, NEW m \in g.cons[x], g.prod[x] = p
       PROVE  x = b /\ m = n
  <2>1. m \in Nodes
    BY <1>1 DEF IsWiring, Nodes
  <2>2. <<x, m>> \in Consumers(p)
    BY <1>10, <2>1 DEF Consumers
  <2> QED
    BY <1>5, <1>7, <1>9, <2>2
<1> QED
  BY <1>6, <1>7, <1>9, <1>10 DEF Connects

\* A linear edge is one to Dag; it determines both of its ends.
LEMMA EdgeFacts ==
    ASSUME g \in Graphs, Planned, NEW spec, NEW p \in Nodes, NEW n \in Nodes,
           linearFusableEdge(spec, p, n)
    PROVE  /\ LinearEdge(g, p, n)
           /\ ProducersFirst => p < n
           /\ \A q \in Nodes : linearFusableEdge(spec, q, n) => q = p
<1>1. IsWiring(g)
  BY PlannedWiring
<1>2. PICK b \in g.bufs : Connects(p, n, b)
  BY EdgeConnection
<1>3. g.prod[b] = p /\ n \in g.cons[b] /\ p # 0
  BY <1>2 DEF Nodes, Connects
<1>4. \A x \in g.bufs : \A m \in g.cons[x] : g.prod[x] = p => x = b /\ m = n
  BY <1>2 DEF Connects
<1>5. g.cons[b] = {n}
  BY <1>3, <1>4
<1>6. {x \in g.bufs : g.prod[x] = p /\ g.cons[x] # {}} = {b}
  BY <1>3, <1>4
<1>7. {x \in g.bufs : g.prod[x] # 0 /\ n \in g.cons[x]} = {b}
  BY <1>2 DEF Producers, Connects
<1>8. LinearEdge(g, p, n)
  BY Zenon, <1>5, <1>6, <1>7 DEF LinearEdge
<1>9. ProducersFirst => p < n
  <2>1. p \in Deps(n)
    BY <1>3 DEF Deps, Inputs, External
  <2> QED
    BY <2>1 DEF ProducersFirst
<1>10. ASSUME NEW q \in Nodes, linearFusableEdge(spec, q, n) PROVE q = p
  <2>1. PICK c \in g.bufs : Connects(q, n, c)
    BY <1>10, EdgeConnection
  <2> QED
    BY <1>2, <2>1 DEF Connects
<1> QED
  BY <1>8, <1>9, <1>10

-----------------------------------------------------------------------------
(***************************************************************************)
(* The walk from a head.                                                   *)
(***************************************************************************)
Geometries == [block : Nat, tile : Nat, unit : Nat]

\* The stages are linked one to the next.
Path(spec, s) ==
    /\ s \in Seq(Nodes) /\ Len(s) >= 1
    /\ \A i \in 1..(Len(s) - 1) : linearFusableEdge(spec, s[i], s[i + 1])

\* Stage n of a walk without a selector of tiles, whose block size is size.
Blockwise(spec, n, size) ==
    /\ spec[n].access # "TileAdaptive"
    /\ spec[n].access \in {"BlockLocal", "Cooperative"} => spec[n].block \in {0, size}

\* The selector is at t: behind it at most a coder of its unit, before it no
\* stage that has a block size.
Tiled(spec, s, unit, t) ==
    /\ spec[s[t]].access = "TileAdaptive" /\ spec[s[t]].unit = unit
    /\ t >= Len(s) - 1
    /\ t < Len(s) => spec[s[Len(s)]].access = "Cooperative" /\ spec[s[Len(s)]].block = unit
    /\ \A i \in 1..(t - 1) : Blockwise(spec, s[i], 0)

Agreeing(spec, s, geometry) ==
    /\ \A i \in 1..Len(s) : Fusable(spec[s[i]])
    /\ \A i \in 1..(Len(s) - 1) : spec[s[i]].access # "Cooperative"
    /\ geometry.tile = 0 => \A i \in 1..Len(s) : Blockwise(spec, s[i], geometry.block)
    /\ geometry.tile # 0 => \E t \in 1..Len(s) : Tiled(spec, s, geometry.unit, t)

Walks(spec, head) ==
    {w \in [stages : Seq(Nodes), geometry : Geometries] :
        /\ Path(spec, w.stages) /\ w.stages[1] = head
        /\ Agreeing(spec, w.stages, w.geometry)}

LEMMA GeometryType ==
    ASSUME NEW geometry \in Geometries, NEW next \in FusionSpecs
    PROVE  extendFusionGeometry(geometry, next) \in Geometries
  BY DEF extendFusionGeometry, Geometries, FusionSpecs

LEMMA WalkStarts ==
    ASSUME g \in Graphs, Planned, NEW spec \in [Nodes -> g.specs],
           NEW head \in Nodes, IsHead(spec, head)
    PROVE  StartWalk(spec, head) \in Walks(spec, head)
<1> DEFINE w == StartWalk(spec, head)
<1>1. spec[head] \in FusionSpecs
  BY PlannedWiring
<1>2. NoGeometry \in Geometries
  BY DEF NoGeometry, Geometries
<1>3. w.stages = <<head>> /\ w.geometry = extendFusionGeometry(NoGeometry, spec[head])
      /\ w \in [stages : Seq(Nodes), geometry : Geometries]
  BY <1>1, <1>2, GeometryType DEF StartWalk
<1>4. Len(<<head>>) = 1 /\ <<head>>[1] = head /\ <<head>> \in Seq(Nodes)
  OBVIOUS
<1>5. Path(spec, <<head>>)
  BY <1>4 DEF Path
<1>6. Agreeing(spec, <<head>>, w.geometry)
  <2>1. Fusable(spec[head]) /\ spec[head].access # "Cooperative"
    BY DEF IsHead
  <2>2. w.geometry.tile = 0 => Blockwise(spec, head, w.geometry.block)
    BY <1>1, <1>3 DEF extendFusionGeometry, NoGeometry, Blockwise, FusionSpecs, IsHead,
       FusionCompatible
  <2>3. w.geometry.tile # 0 => Tiled(spec, <<head>>, w.geometry.unit, 1)
    BY <1>1, <1>3, <1>4 DEF extendFusionGeometry, NoGeometry, Tiled, FusionSpecs
  <2> HIDE DEF w
  <2> QED
    BY <1>4, <2>1, <2>2, <2>3 DEF Agreeing
<1> QED
  BY <1>3, <1>4, <1>5, <1>6 DEF Walks

LEMMA WalkExtends ==
    ASSUME g \in Graphs, Planned, NEW spec \in [Nodes -> g.specs],
           NEW head, NEW w \in Walks(spec, head)
    PROVE  ExtendWalk(spec, w) \in Walks(spec, head)
<1> DEFINE s == w.stages
           geo == w.geometry
<1>1. /\ s \in Seq(Nodes) /\ geo \in Geometries /\ Path(spec, s) /\ s[1] = head
      /\ Agreeing(spec, s, geo) /\ Len(s) \in Nat \ {0}
  BY DEF Walks, Path
<1>2. CASE NextInWalk(spec, w) = {}
  BY <1>2 DEF ExtendWalk
<1>3. CASE NextInWalk(spec, w) # {}
  <2>1. PICK n \in NextInWalk(spec, w) :
           ExtendWalk(spec, w) = [stages |-> Append(s, n),
                                  geometry |-> extendFusionGeometry(geo, spec[n])]
    BY <1>3 DEF ExtendWalk
  <2>2. /\ n \in Nodes
        /\ spec[s[Len(s)]].access # "Cooperative"
        /\ linearFusableEdge(spec, s[Len(s)], n)
        /\ FusionCompatible(geo, spec[n])
    BY DEF NextInWalk, Last
  <2>3. spec[n] \in FusionSpecs /\ Fusable(spec[n])
    BY <2>2, PlannedWiring DEF FusionCompatible
  <2> DEFINE r == Append(s, n)
             new == extendFusionGeometry(geo, spec[n])
  <2>4. /\ r \in Seq(Nodes) /\ Len(r) = Len(s) + 1 /\ r[Len(s) + 1] = n
        /\ \A i \in 1..Len(s) : r[i] = s[i]
    BY <1>1, <2>2, AppendProperties
  <2>5. new \in Geometries
    BY <1>1, <2>3, GeometryType
  <2>6. Path(spec, r) /\ r[1] = head
    <3>1. \A i \in 1..Len(s) : linearFusableEdge(spec, r[i], r[i + 1])
      BY <1>1, <2>2, <2>4 DEF Path
    <3> HIDE DEF r
    <3> QED
      BY <1>1, <2>4, <3>1 DEF Path
  <2>7. Agreeing(spec, r, new)
    <3> HIDE DEF s, geo, r
    <3>1. \A i \in 1..Len(r) : Fusable(spec[r[i]])
      BY <1>1, <2>3, <2>4 DEF Agreeing
    <3>2. \A i \in 1..(Len(r) - 1) : spec[r[i]].access # "Cooperative"
      BY <1>1, <2>2, <2>4 DEF Agreeing
    <3>3. CASE geo.tile # 0
      <4>1. /\ spec[n].access = "Cooperative" /\ spec[n].block = geo.unit
            /\ new = geo
        BY <2>2, <2>3, <3>3 DEF FusionCompatible, extendFusionGeometry, FusionSpecs, Fusable
      <4>2. PICK t \in 1..Len(s) : Tiled(spec, s, geo.unit, t)
        BY <1>1, <3>3 DEF Agreeing
      <4>3. t = Len(s)
        BY <1>1, <2>2, <4>2 DEF Tiled
      <4>4. Tiled(spec, r, geo.unit, t)
        <5>1. r[t] = s[t] /\ r[Len(r)] = n /\ t = Len(r) - 1
          BY <1>1, <2>4, <4>3
        <5>2. \A i \in 1..(t - 1) : Blockwise(spec, r[i], 0)
          BY <1>1, <2>4, <4>2 DEF Tiled
        <5> HIDE DEF new
        <5> QED
          BY <1>1, <2>4, <4>1, <4>2, <5>1, <5>2 DEF Tiled
      <4>5. t \in 1..Len(r)
        BY <1>1, <2>4
      <4> HIDE DEF new
      <4> QED
        BY <3>1, <3>2, <3>3, <4>1, <4>4, <4>5 DEF Agreeing
    <3>4. CASE geo.tile = 0 /\ spec[n].access = "TileAdaptive"
      <4>1. geo.block = 0 /\ new.tile # 0 /\ new.unit = spec[n].unit
        BY <1>1, <2>2, <2>3, <3>4 DEF FusionCompatible, extendFusionGeometry, Geometries
      <4>2. \A i \in 1..Len(s) : Blockwise(spec, s[i], 0)
        BY <1>1, <3>4, <4>1 DEF Agreeing
      <4>3. Tiled(spec, r, new.unit, Len(r))
        <5> HIDE DEF new
        <5> QED
          BY <1>1, <2>4, <3>4, <4>1, <4>2 DEF Tiled
      <4>4. Len(r) \in 1..Len(r)
        BY <1>1, <2>4
      <4> HIDE DEF new
      <4> QED
        BY <3>1, <3>2, <4>1, <4>3, <4>4 DEF Agreeing
    <3>5. CASE geo.tile = 0 /\ spec[n].access # "TileAdaptive"
      <4>1. new.tile = 0 /\ Blockwise(spec, n, new.block)
            /\ (geo.block = 0 \/ new.block = geo.block)
        <5>1. CASE spec[n].access = "Map" \/ spec[n].block = 0
          BY <1>1, <2>3, <3>5, <5>1 DEF extendFusionGeometry, Geometries, FusionSpecs, Blockwise
        <5>2. CASE spec[n].access # "Map" /\ spec[n].block # 0
          <6>1. new = [geo EXCEPT !.block = spec[n].block]
            BY <3>5, <5>2 DEF extendFusionGeometry
          <6>2. spec[n].access \in {"BlockLocal", "Cooperative"}
            BY <2>3, <3>5, <5>2 DEF FusionSpecs, Fusable
          <6>3. geo.block \in {0, spec[n].block}
            BY <2>2, <3>5, <5>2, <6>2 DEF FusionCompatible
          <6>4. new.block = spec[n].block /\ new.tile = geo.tile
            BY <1>1, <6>1 DEF Geometries
          <6> HIDE DEF new
          <6> QED
            BY <3>5, <6>3, <6>4 DEF Blockwise
        <5> QED
          BY <5>1, <5>2
      <4>2. \A i \in 1..Len(s) : Blockwise(spec, s[i], geo.block)
        BY <1>1, <3>5 DEF Agreeing
      <4>3. \A i \in 1..Len(s) : Blockwise(spec, s[i], new.block)
        <5> HIDE DEF new
        <5> QED
          BY <4>1, <4>2 DEF Blockwise
      <4> HIDE DEF new
      <4>4. \A i \in 1..Len(r) : Blockwise(spec, r[i], new.block)
        BY <1>1, <2>4, <4>1, <4>3
      <4> QED
        BY <3>1, <3>2, <4>1, <4>4 DEF Agreeing
    <3> QED
      BY <3>3, <3>4, <3>5
  <2> HIDE DEF r, new
  <2>8. ExtendWalk(spec, w) = [stages |-> r, geometry |-> new]
    BY <2>1 DEF r, new
  <2> QED
    BY <2>4, <2>5, <2>6, <2>7, <2>8 DEF Walks
<1> QED
  BY <1>2, <1>3

\* What the planner finds from a head is a path whose stages agree.
LEMMA GroupIsWalk ==
    ASSUME g \in Graphs, Planned, NEW spec \in [Nodes -> g.specs],
           NEW head \in Nodes, IsHead(spec, head)
    PROVE  \E w \in Walks(spec, head) : GroupFrom(spec, head) = w.stages
<1> DEFINE n == g.nodes - 1
           base == StartWalk(spec, head)
           F == [p \in (1..n) \X Walks(spec, head) |-> ExtendWalk(spec, p[2])]
           St == [k \in 0..n |-> Walks(spec, head)]
           Solution(it) == it = [k \in 0..n |-> IF k = 0 THEN base ELSE ExtendWalk(spec, it[k - 1])]
           walk == CHOOSE it : Solution(it)
<1>1. n \in Nat
  BY PlannedWiring DEF IsWiring
<1>2. GroupFrom(spec, head) = walk[n].stages
  BY Zenon DEF GroupFrom
<1>3. StepsWithin(base, F, n, St)
  <2>1. base \in Walks(spec, head)
    BY WalkStarts
  <2>2. \A w \in Walks(spec, head) : ExtendWalk(spec, w) \in Walks(spec, head)
    BY WalkExtends
  <2> HIDE DEF base, n
  <2> QED
    BY <1>1, <2>1, <2>2 DEF StepsWithin
<1> HIDE DEF n, base
<1>4. PICK it : Iterates(it, base, F, n)
  <2> HIDE DEF F
  <2> QED
    BY <1>1, IterationExists
<1>5. \A k \in 0..n : it[k] \in St[k]
  <2> HIDE DEF F, St
  <2>1. it[0] = base
    BY <1>1, <1>4 DEF Iterates
  <2>2. \A k \in 1..n : it[k] = F[<<k, it[k - 1]>>]
    BY <1>1, <1>4 DEF Iterates
  <2> QED
    BY <1>1, <1>3, <2>1, <2>2, IterationStays
<1>6. Solution(it)
  <2>1. ASSUME NEW k \in 1..n PROVE F[<<k, it[k - 1]>>] = ExtendWalk(spec, it[k - 1])
    <3>1. it[k - 1] \in Walks(spec, head)
      BY <1>1, <1>5
    <3> QED
      BY <3>1
  <2>2. \A k \in 0..n : (IF k = 0 THEN base ELSE F[<<k, it[k - 1]>>])
                        = IF k = 0 THEN base ELSE ExtendWalk(spec, it[k - 1])
    <3> HIDE DEF F, St
    <3> QED
      BY <1>1, <2>1
  <2>3. it = [k \in 0..n |-> IF k = 0 THEN base ELSE F[<<k, it[k - 1]>>]]
    BY <1>4 DEF Iterates
  <2> HIDE DEF F, St
  <2> QED
    BY <2>2, <2>3
<1>7. Solution(walk)
  <2> HIDE DEF Solution
  <2> QED
    BY <1>6
<1>8. \A k \in 0..n : walk[k] \in St[k]
  <2> HIDE DEF walk
  <2>1. walk[0] = base
    BY <1>1, <1>7
  <2>2. ASSUME NEW k \in 1..n, walk[k - 1] \in St[k - 1] PROVE walk[k] = F[<<k, walk[k - 1]>>]
    <3>1. walk[k] = ExtendWalk(spec, walk[k - 1])
      BY <1>1, <1>7
    <3>2. walk[k - 1] \in Walks(spec, head)
      BY <1>1, <2>2
    <3> QED
      BY <3>1, <3>2
  <2> HIDE DEF F, St
  <2> QED
    BY <1>1, <1>3, <2>1, <2>2, IterationStays
<1>9. walk[n] \in Walks(spec, head)
  <2> HIDE DEF walk
  <2> QED
    BY <1>1, <1>8
<1> HIDE DEF walk
<1> QED
  BY <1>2, <1>9

-----------------------------------------------------------------------------
(***************************************************************************)
(* Legal groups and their spans.                                           *)
(***************************************************************************)

\* s is what the planner found from head.
LegalFrom(spec, head, s) ==
    /\ head \in Nodes /\ IsHead(spec, head) /\ s = GroupFrom(spec, head)
    /\ Path(spec, s) /\ s[1] = head
    /\ \E geometry \in Geometries : Agreeing(spec, s, geometry)

LEMMA LegalGroups ==
    ASSUME g \in Graphs, Planned, NEW spec \in [Nodes -> g.specs],
           NEW s \in planFusionGroups(spec)
    PROVE  \E head \in Nodes : LegalFrom(spec, head, s)
<1>1. PICK head \in Nodes : IsHead(spec, head) /\ s = GroupFrom(spec, head)
  BY DEF planFusionGroups
<1>2. PICK w \in Walks(spec, head) : GroupFrom(spec, head) = w.stages
  BY <1>1, GroupIsWalk
<1> QED
  BY <1>1, <1>2 DEF LegalFrom, Walks

\* Two walks that meet started at the same head: the way back is determined.
LEMMA GroupsApart ==
    ASSUME g \in Graphs, Planned, NEW spec, NEW h, NEW k, NEW s, NEW t,
           LegalFrom(spec, h, s), LegalFrom(spec, k, t),
           NEW i \in 1..Len(s), NEW j \in 1..Len(t), s[i] = t[j]
    PROVE  s = t
<1>1. /\ s \in Seq(Nodes) /\ t \in Seq(Nodes) /\ Len(s) \in Nat /\ Len(t) \in Nat
      /\ \A m \in 1..(Len(s) - 1) : linearFusableEdge(spec, s[m], s[m + 1])
      /\ \A m \in 1..(Len(t) - 1) : linearFusableEdge(spec, t[m], t[m + 1])
      /\ s[1] = h /\ t[1] = k
  BY DEF LegalFrom, Path
<1>2. /\ \A p \in Nodes : ~linearFusableEdge(spec, p, h)
      /\ \A p \in Nodes : ~linearFusableEdge(spec, p, k)
  BY DEF LegalFrom, IsHead
<1> DEFINE T == {m \in 1..Len(s) : \E n \in 1..Len(t) : s[m] = t[n]}
<1>3. PICK m \in T : \A x \in T : m <= x
  <2>1. T \subseteq Nat /\ i \in T
    BY <1>1
  <2> HIDE DEF T
  <2> QED
    BY <2>1, LeastCount
<1>4. PICK n \in 1..Len(t) : s[m] = t[n]
  OBVIOUS
<1>5. m = 1
  <2> SUFFICES ASSUME m # 1 PROVE FALSE
    OBVIOUS
  <2>1. m - 1 \in 1..(Len(s) - 1) /\ s[m - 1] \in Nodes /\ s[m] \in Nodes
    BY <1>1
  <2>2. linearFusableEdge(spec, s[m - 1], s[m])
    BY <1>1, <2>1
  <2>3. n # 1
    BY <1>1, <1>2, <1>4, <2>1, <2>2
  <2>4. n - 1 \in 1..(Len(t) - 1) /\ t[n - 1] \in Nodes
    BY <1>1, <2>3
  <2>5. linearFusableEdge(spec, t[n - 1], s[m])
    BY <1>1, <1>4, <2>4
  <2>6. s[m - 1] = t[n - 1]
    BY <2>1, <2>2, <2>4, <2>5, EdgeFacts
  <2>7. m - 1 \in T
    BY <1>1, <2>1, <2>4, <2>6
  <2>8. m \in Int
    BY <1>1
  <2> HIDE DEF T
  <2> QED
    BY <1>3, <2>7, <2>8
<1>6. n = 1
  <2> SUFFICES ASSUME n # 1 PROVE FALSE
    OBVIOUS
  <2>1. n - 1 \in 1..(Len(t) - 1) /\ t[n - 1] \in Nodes
    BY <1>1
  <2> QED
    BY <1>1, <1>2, <1>4, <1>5, <2>1
<1>7. h = k
  BY <1>1, <1>4, <1>5, <1>6
<1> QED
  BY <1>7 DEF LegalFrom

LEMMA PathType ==
    ASSUME g \in Graphs, Planned, NEW spec, NEW s, Path(spec, s)
    PROVE  s \in Seq(Nodes) /\ Len(s) \in Nat /\ \A m \in 1..Len(s) : s[m] \in Nodes /\ s[m] \in Int
<1>1. s \in Seq(Nodes)
  BY DEF Path
<1>2. Nodes \subseteq Int
  BY PlannedWiring DEF Nodes, IsWiring
<1> QED
  BY <1>1, <1>2, ElementOfSeq, LenProperties

\* With producers first, the stages of a path are in the order of insertion.
LEMMA PathIncreases ==
    ASSUME g \in Graphs, Planned, ProducersFirst, NEW spec, NEW s, Path(spec, s),
           NEW i \in 1..Len(s), NEW j \in 1..Len(s), i < j
    PROVE  s[i] < s[j]
<1>1. s \in Seq(Nodes) /\ Len(s) \in Nat /\ \A m \in 1..Len(s) : s[m] \in Nodes /\ s[m] \in Int
  BY PathType
<1> DEFINE T == {m \in 1..Len(s) : i < m /\ ~(s[i] < s[m])}
<1> SUFFICES ASSUME T # {} PROVE FALSE
  OBVIOUS
<1>2. PICK m \in T : \A x \in T : m <= x
  <2>1. T \subseteq Nat
    BY <1>1
  <2> HIDE DEF T
  <2> QED
    BY <2>1, LeastCount
<1>3. m - 1 \in 1..(Len(s) - 1) /\ m - 1 \notin T
  BY <1>1, <1>2
<1>4. s[m - 1] < s[m]
  <2>1. linearFusableEdge(spec, s[m - 1], s[m])
    BY <1>1, <1>3 DEF Path
  <2> QED
    BY <1>1, <1>3, <2>1, EdgeFacts
<1>5. s[i] <= s[m - 1]
  BY <1>1, <1>3
<1> QED
  BY <1>1, <1>3, <1>4, <1>5

\* The span of s from position i to position e.
LEMMA SpanFacts ==
    ASSUME NEW S, NEW s \in Seq(S), NEW i \in 1..Len(s), NEW e \in i..Len(s)
    PROVE  /\ SubSeq(s, i, e) \in Seq(S)
           /\ Len(SubSeq(s, i, e)) = (e - i) + 1
           /\ \A k \in 1..((e - i) + 1) : SubSeq(s, i, e)[k] = s[(i + k) - 1]
           /\ ToSet(SubSeq(s, i, e)) = {s[k] : k \in i..e}
<1>1. Len(s) \in Nat /\ \A k \in i..e : s[k] \in S
  OBVIOUS
<1> DEFINE x == SubSeq(s, i, e)
<1>2. /\ x \in Seq(S) /\ Len(x) = (e - i) + 1
      /\ \A k \in 1..((e - i) + 1) : x[k] = s[(i + k) - 1]
  BY <1>1, SubSeqProperties
<1>3. DOMAIN x = 1..((e - i) + 1)
  BY <1>2, LenProperties
<1> HIDE DEF x
<1>4. ToSet(x) = {s[k] : k \in i..e}
  <2>1. ASSUME NEW k \in 1..((e - i) + 1) PROVE x[k] \in {s[m] : m \in i..e}
    <3>1. (i + k) - 1 \in i..e
      OBVIOUS
    <3> QED
      BY <1>2, <3>1
  <2>2. ASSUME NEW m \in i..e PROVE \E k \in 1..((e - i) + 1) : s[m] = x[k]
    <3>1. (m - i) + 1 \in 1..((e - i) + 1) /\ (i + ((m - i) + 1)) - 1 = m
      OBVIOUS
    <3> QED
      BY <1>2, <3>1
  <2> QED
    BY <1>3, <2>1, <2>2 DEF ToSet
<1> QED
  BY <1>2, <1>4 DEF x

LEMMA SpanIsChain ==
    ASSUME g \in Graphs, Planned, ProducersFirst, NEW spec, NEW s, Path(spec, s),
           NEW i \in 1..Len(s), NEW e \in i..Len(s)
    PROVE  IsChain(g, ToSet(SubSeq(s, i, e)))
<1>1. s \in Seq(Nodes) /\ Len(s) \in Nat /\ \A m \in 1..Len(s) : s[m] \in Nodes /\ s[m] \in Int
  BY PathType
<1> DEFINE M == ToSet(SubSeq(s, i, e))
<1>2. M = {s[k] : k \in i..e}
  BY <1>1, SpanFacts
<1> HIDE DEF M
<1>3. SUFFICES ASSUME NEW n \in M, \E m \in M : m < n
               PROVE  LinearEdge(g, Max({m \in M : m < n}), n)
  BY DEF IsChain, M
<1>4. PICK k \in i..e : n = s[k]
  BY <1>2
<1>5. \A a, b \in i..e : a < b => s[a] < s[b]
  BY <1>1, PathIncreases
<1>6. k # i
  <2>1. PICK a \in i..e : s[a] < s[k]
    BY <1>2, <1>3, <1>4
  <2>2. ~(i < a) => a = i
    BY <1>1
  <2> QED
    BY <1>1, <1>5, <2>1, <2>2
<1>7. k - 1 \in i..e /\ k - 1 \in 1..(Len(s) - 1)
  BY <1>1, <1>6
<1>8. ASSUME NEW m \in M, m < n PROVE m <= s[k - 1]
  <2>1. PICK a \in i..e : m = s[a]
    BY <1>2
  <2>2. a <= k - 1
    <3> SUFFICES ASSUME a >= k PROVE FALSE
      BY <1>1
    <3> QED
      BY <1>1, <1>4, <1>5, <1>8, <2>1
  <2>3. a = k - 1 \/ a < k - 1
    BY <1>1, <2>2
  <2>4. CASE a = k - 1
    BY <1>1, <1>7, <2>1, <2>4
  <2>5. CASE a < k - 1
    BY <1>1, <1>5, <1>7, <2>1, <2>5
  <2> QED
    BY <2>3, <2>4, <2>5
<1>9. s[k - 1] \in {m \in M : m < n} /\ \A m \in M : m \in Int
  BY <1>1, <1>2, <1>4, <1>5, <1>7
<1>10. Max({m \in M : m < n}) = s[k - 1]
  <2> DEFINE Below == {m \in M : m < n}
  <2>1. s[k - 1] \in Below /\ \A m \in Below : m \in Int /\ m <= s[k - 1]
    BY <1>8, <1>9
  <2> HIDE DEF Below
  <2>2. \A m \in Below : (\A y \in Below : m >= y) => m = s[k - 1]
    BY <2>1
  <2>3. \A y \in Below : s[k - 1] >= y
    BY <2>1
  <2>4. Max(Below) = s[k - 1]
    BY <2>1, <2>2, <2>3 DEF Max
  <2> QED
    BY <2>4 DEF Below
<1>11. linearFusableEdge(spec, s[k - 1], s[k])
  BY <1>1, <1>7 DEF Path
<1> QED
  BY <1>1, <1>4, <1>7, <1>10, <1>11, EdgeFacts

LEMMA SpanGeometry ==
    ASSUME g \in Graphs, Planned, NEW spec \in [Nodes -> g.specs], NEW s, Path(spec, s),
           NEW geometry \in Geometries, Agreeing(spec, s, geometry),
           NEW i \in 1..Len(s), NEW e \in i..Len(s)
    PROVE  OneGeometry(spec, SubSeq(s, i, e))
<1> DEFINE x == SubSeq(s, i, e)
           access(k) == spec[x[k]].access
           blocks == {k \in DOMAIN x : access(k) \in {"BlockLocal", "Cooperative"}}
           tiles == {k \in DOMAIN x : access(k) = "TileAdaptive"}
           sizes == {spec[x[k]].block : k \in blocks} \ {0}
<1>1. s \in Seq(Nodes) /\ Len(s) \in Nat
  BY PathType
<1>2. /\ Len(x) = (e - i) + 1 /\ DOMAIN x = 1..Len(x)
      /\ \A k \in 1..Len(x) : x[k] = s[(i + k) - 1] /\ (i + k) - 1 \in 1..Len(s)
  <2>1. /\ x \in Seq(Nodes) /\ Len(x) = (e - i) + 1
        /\ \A k \in 1..((e - i) + 1) : x[k] = s[(i + k) - 1]
    BY <1>1, SpanFacts
  <2> HIDE DEF x
  <2> QED
    BY <1>1, <2>1
<1> HIDE DEF x
<1>3. \A k \in 1..Len(x) : Fusable(spec[x[k]])
  BY <1>2 DEF Agreeing
<1>4. \A k \in 1..Len(x) : access(k) = "Cooperative" => k = Len(x)
  <2> SUFFICES ASSUME NEW k \in 1..Len(x), access(k) = "Cooperative", k # Len(x) PROVE FALSE
    OBVIOUS
  <2>1. (i + k) - 1 \in 1..(Len(s) - 1) /\ x[k] = s[(i + k) - 1]
    BY <1>1, <1>2
  <2> QED
    BY <2>1 DEF Agreeing
<1>5. tiles = {} => Cardinality(sizes) <= 1
  <2> SUFFICES ASSUME tiles = {} PROVE \E c : sizes \in SUBSET {c}
    <3>1. \A c : IsFiniteSet({c}) /\ Cardinality({c}) = 1
      BY FS_Singleton
    <3>2. ASSUME NEW c, sizes \in SUBSET {c} PROVE Cardinality(sizes) <= 1
      <4> HIDE DEF sizes
      <4>1. Cardinality(sizes) <= Cardinality({c})
        BY <3>1, <3>2, FS_Subset
      <4> QED
        BY <3>1, <4>1
    <3> QED
      BY <3>2
  <2>1. CASE geometry.tile = 0
    <3>1. \A k \in blocks : spec[x[k]].block \in {0, geometry.block}
      <4> SUFFICES ASSUME NEW k \in blocks PROVE spec[x[k]].block \in {0, geometry.block}
        OBVIOUS
      <4>1. k \in 1..Len(x) /\ spec[x[k]].access \in {"BlockLocal", "Cooperative"}
        BY <1>2
      <4>2. x[k] = s[(i + k) - 1] /\ (i + k) - 1 \in 1..Len(s)
        BY <1>2, <4>1
      <4>3. Blockwise(spec, x[k], geometry.block)
        BY <2>1, <4>2 DEF Agreeing
      <4> QED
        BY <4>1, <4>3 DEF Blockwise
    <3> QED
      BY <3>1
  <2>2. CASE geometry.tile # 0
    <3>1. PICK t \in 1..Len(s) : Tiled(spec, s, geometry.unit, t)
      BY <2>2 DEF Agreeing
    <3>2. ASSUME NEW k \in blocks PROVE spec[x[k]].block \in {0, geometry.unit}
      <4>1. x[k] = s[(i + k) - 1] /\ (i + k) - 1 \in 1..Len(s)
        BY <1>2
      <4>2. CASE (i + k) - 1 < t
        <5>1. (i + k) - 1 \in 1..(t - 1)
          BY <1>1, <4>1, <4>2
        <5> QED
          BY <3>1, <4>1, <5>1 DEF Tiled, Blockwise
      <4>3. CASE (i + k) - 1 = t
        BY <3>1, <4>1, <4>3 DEF Tiled
      <4>4. CASE (i + k) - 1 > t
        <5>1. (i + k) - 1 = Len(s) /\ t < Len(s)
          BY <1>1, <3>1, <4>1, <4>4 DEF Tiled
        <5> QED
          BY <3>1, <4>1, <5>1 DEF Tiled
      <4> QED
        BY <1>1, <4>1, <4>2, <4>3, <4>4
    <3> QED
      BY <3>2
  <2> QED
    BY <2>1, <2>2
<1>6. ASSUME NEW k \in tiles
      PROVE  /\ k >= Len(x) - 1
             /\ k < Len(x) => /\ access(k + 1) = "Cooperative"
                              /\ spec[x[k + 1]].block = spec[x[k]].unit
  <2>1. x[k] = s[(i + k) - 1] /\ (i + k) - 1 \in 1..Len(s) /\ k \in 1..Len(x)
    BY <1>2
  <2>2. geometry.tile # 0
    BY <2>1 DEF Agreeing, Blockwise
  <2>3. PICK t \in 1..Len(s) : Tiled(spec, s, geometry.unit, t)
    BY <2>2 DEF Agreeing
  <2>4. (i + k) - 1 = t
    <3>1. ~((i + k) - 1 < t)
      <4> SUFFICES ASSUME (i + k) - 1 < t PROVE FALSE
        OBVIOUS
      <4>1. (i + k) - 1 \in 1..(t - 1)
        BY <1>1, <2>1
      <4> QED
        BY <2>1, <2>3, <4>1 DEF Tiled, Blockwise
    <3>2. ~((i + k) - 1 > t)
      <4> SUFFICES ASSUME (i + k) - 1 > t PROVE FALSE
        OBVIOUS
      <4>1. (i + k) - 1 = Len(s) /\ t < Len(s)
        BY <1>1, <2>1, <2>3 DEF Tiled
      <4> QED
        BY <2>1, <2>3, <4>1 DEF Tiled
    <3> QED
      BY <1>1, <2>1, <3>1, <3>2
  <2>5. k >= Len(x) - 1
    BY <1>1, <1>2, <2>1, <2>3, <2>4 DEF Tiled
  <2>6. ASSUME k < Len(x)
        PROVE  access(k + 1) = "Cooperative" /\ spec[x[k + 1]].block = spec[x[k]].unit
    <3>1. k + 1 \in 1..Len(x) /\ (i + (k + 1)) - 1 = t + 1
      <4>1. k \in Int /\ i \in Int /\ t \in Int /\ Len(x) \in Int /\ k >= 1
        BY <1>1, <1>2, <2>1
      <4> QED
        BY <2>4, <2>6, <4>1
    <3>2. x[k + 1] = s[t + 1] /\ t + 1 \in 1..Len(s)
      <4>1. x[k + 1] = s[(i + (k + 1)) - 1] /\ (i + (k + 1)) - 1 \in 1..Len(s)
        BY <1>2, <3>1
      <4> QED
        BY <3>1, <4>1
    <3>3. t + 1 = Len(s) /\ t < Len(s)
      BY <1>1, <2>3, <3>2 DEF Tiled
    <3> QED
      BY <2>1, <2>3, <2>4, <3>2, <3>3 DEF Tiled
  <2> QED
    BY <2>5, <2>6
<1>7. OneGeometry(spec, x)
  BY <1>2, <1>3, <1>4, <1>5, <1>6 DEF OneGeometry
<1> QED
  BY <1>7 DEF x

\* The memory withheld from a group is that of buffers read inside it.
LEMMA InternalNotKept ==
    ASSUME g \in Graphs, Planned, NEW members \in SUBSET Nodes
    PROVE  InternalBuffers(members) \cap g.persistent = {}
  BY PlannedWiring DEF InternalBuffers, Nodes

-----------------------------------------------------------------------------
(***************************************************************************)
(* The choice of spans: best is the value of a best choice behind each     *)
(* position, from the last position to the first.                          *)
(***************************************************************************)
Options(b, s, K, i) ==
    {b[i + 1]} \cup {(e - i) + b[e + 1] : e \in CandidateEnds(s, K, i)}

\* b solves the recursion for best at the last k positions.
BestUpto(b, s, K, k) ==
    b = [i \in (Len(s) + 1 - k)..(Len(s) + 1) |->
            IF i = Len(s) + 1 THEN 0 ELSE Max(Options(b, s, K, i))]

LEMMA OptionsLater ==
    ASSUME NEW s, Len(s) \in Nat, NEW K, NEW i \in 1..Len(s), NEW a, NEW b,
           \A j \in (i + 1)..(Len(s) + 1) : a[j] = b[j]
    PROVE  Options(a, s, K, i) = Options(b, s, K, i)
<1>1. \A e \in CandidateEnds(s, K, i) : a[e + 1] = b[e + 1]
  BY DEF CandidateEnds
<1>2. a[i + 1] = b[i + 1]
  OBVIOUS
<1> QED
  BY <1>1, <1>2 DEF Options

LEMMA BestExists ==
    ASSUME NEW s, Len(s) \in Nat, NEW K
    PROVE  \E b : BestUpto(b, s, K, Len(s))
<1> DEFINE n == Len(s)
           T == {k \in 0..n : \E b : BestUpto(b, s, K, k)}
<1>1. 0 \in T
  <2> DEFINE b == [i \in (n + 1 - 0)..(n + 1) |-> 0]
  <2>1. BestUpto(b, s, K, 0)
    BY DEF BestUpto
  <2> QED
    BY <2>1
<1>2. ASSUME NEW k \in 1..n, k - 1 \in T PROVE k \in T
  <2>1. PICK old : BestUpto(old, s, K, k - 1)
    BY <1>2
  <2> DEFINE p == n + 1 - k
             new == [i \in p..(n + 1) |-> IF i = p THEN Max(Options(old, s, K, p)) ELSE old[i]]
  <2>2. p \in 1..n /\ n + 1 - (k - 1) = p + 1
    OBVIOUS
  <2>3. \A j \in (p + 1)..(n + 1) : new[j] = old[j]
    BY <2>2
  <2>4. ASSUME NEW i \in p..(n + 1)
        PROVE  new[i] = IF i = n + 1 THEN 0 ELSE Max(Options(new, s, K, i))
    <3>1. CASE i = p
      <4>1. new[i] = Max(Options(old, s, K, p)) /\ i # n + 1
        BY <2>2, <3>1
      <4>2. Options(new, s, K, p) = Options(old, s, K, p)
        <5> HIDE DEF new, p
        <5> QED
          BY <2>2, <2>3, OptionsLater
      <4> HIDE DEF new, p
      <4> QED
        BY <3>1, <4>1, <4>2
    <3>2. CASE i # p
      <4>1. i \in (p + 1)..(n + 1) /\ new[i] = old[i]
        BY <2>2, <2>3, <3>2
      <4> HIDE DEF new, p
      <4>2. old[i] = IF i = n + 1 THEN 0 ELSE Max(Options(old, s, K, i))
        BY <2>1, <2>2, <4>1 DEF BestUpto
      <4>3. ASSUME i # n + 1 PROVE Options(new, s, K, i) = Options(old, s, K, i)
        <5>1. i \in 1..n /\ \A j \in (i + 1)..(n + 1) : new[j] = old[j]
          BY <2>2, <2>3, <4>1, <4>3
        <5> QED
          BY <5>1, OptionsLater
      <4> QED
        BY <4>1, <4>2, <4>3
    <3> QED
      BY <3>1, <3>2
  <2>5. BestUpto(new, s, K, k)
    <3>1. new = [i \in p..(n + 1) |-> new[i]]
      OBVIOUS
    <3> HIDE DEF new
    <3>2. new = [i \in p..(n + 1) |-> IF i = n + 1 THEN 0 ELSE Max(Options(new, s, K, i))]
      BY <2>4, <3>1
    <3> QED
      BY <3>2 DEF BestUpto
  <2> QED
    BY <2>5
<1>3. n \in Nat
  OBVIOUS
<1> HIDE DEF T, n
<1>4. \A k \in 0..n : k \in T
  BY <1>1, <1>2, <1>3, CountUp
<1>5. n \in T
  BY <1>3, <1>4
<1> QED
  BY <1>5 DEF T, n

LEMMA BestSolves ==
    ASSUME NEW s, Len(s) \in Nat, NEW K
    PROVE  BestUpto(BestFrom(s, K), s, K, Len(s))
<1> DEFINE Solution(b) == b = [i \in 1..(Len(s) + 1) |->
                                  IF i = Len(s) + 1 THEN 0 ELSE Max(Options(b, s, K, i))]
<1>1. BestFrom(s, K) = CHOOSE b : Solution(b)
  BY Zenon DEF BestFrom, Options
<1>2. \A b : Solution(b) <=> BestUpto(b, s, K, Len(s))
  <2>1. Len(s) + 1 - Len(s) = 1
    OBVIOUS
  <2> QED
    BY Zenon, <2>1 DEF BestUpto
<1>3. \E b : Solution(b)
  BY <1>2, BestExists
<1> HIDE DEF Solution
<1> QED
  BY <1>1, <1>2, <1>3

\* b[i] is the value of a best choice from position i on, step by step.
BestAt(b, s, K, i) ==
    /\ b[i] >= b[i + 1]
    /\ \A e \in CandidateEnds(s, K, i) : b[i] >= (e - i) + b[e + 1]
    /\ b[i] = b[i + 1] \/ \E e \in CandidateEnds(s, K, i) : b[i] = (e - i) + b[e + 1]

IsBest(b, s, K) ==
    /\ b[Len(s) + 1] = 0
    /\ \A i \in 1..(Len(s) + 1) : b[i] \in Nat
    /\ \A i \in 1..Len(s) : BestAt(b, s, K, i)

LEMMA BestFacts ==
    ASSUME NEW s, Len(s) \in Nat, NEW K
    PROVE  IsBest(BestFrom(s, K), s, K)
<1> DEFINE n == Len(s)
           b == BestFrom(s, K)
<1>1. n \in Nat /\ \A i \in 1..(n + 1) : b[i] = IF i = n + 1 THEN 0 ELSE Max(Options(b, s, K, i))
  <2>1. BestUpto(b, s, K, n)
    BY BestSolves
  <2> HIDE DEF b
  <2>2. b = [i \in 1..(n + 1) |-> IF i = n + 1 THEN 0 ELSE Max(Options(b, s, K, i))]
    <3>1. n + 1 - n = 1
      OBVIOUS
    <3> QED
      BY Zenon, <2>1, <3>1 DEF BestUpto
  <2> QED
    BY <2>2
<1> DEFINE T == {k \in 0..n : \A j \in 0..k : b[n + 1 - j] \in 0..j}
<1>2. \A i \in 1..n : \A e \in CandidateEnds(s, K, i) : e \in (i + 1)..n
  BY DEF CandidateEnds
<1> HIDE DEF b, n
<1>3. ASSUME NEW k \in 1..n, \A j \in 0..(k - 1) : b[n + 1 - j] \in 0..j
      PROVE  /\ Options(b, s, K, n + 1 - k) \subseteq 0..k
             /\ n + 1 - k \in 1..n
             /\ Options(b, s, K, n + 1 - k) # {}
  <2> DEFINE i == n + 1 - k
  <2>1. i \in 1..n /\ k - 1 \in 0..(k - 1) /\ n + 1 - (k - 1) = i + 1
    BY <1>1
  <2>2. b[i + 1] \in 0..k
    <3>1. b[n + 1 - (k - 1)] \in 0..(k - 1)
      BY <1>3, <2>1
    <3> QED
      BY <2>1, <3>1
  <2>3. ASSUME NEW e \in CandidateEnds(s, K, i) PROVE (e - i) + b[e + 1] \in 0..k
    <3>1. e \in (i + 1)..n
      BY <1>2, <2>1
    <3>2. n - e \in 0..(k - 1) /\ n + 1 - (n - e) = e + 1
      BY <1>1, <3>1
    <3>3. b[e + 1] \in 0..(n - e)
      <4>1. b[n + 1 - (n - e)] \in 0..(n - e)
        BY <1>3, <3>2
      <4> QED
        BY <3>2, <4>1
    <3> QED
      BY <1>1, <2>1, <3>1, <3>3
  <2> HIDE DEF i
  <2>4. Options(b, s, K, i) \subseteq 0..k /\ Options(b, s, K, i) # {}
    BY <2>2, <2>3 DEF Options
  <2> QED
    BY <2>1, <2>4 DEF i
<1>4. 0 \in T
  <2>1. b[n + 1] = 0 /\ n + 1 - 0 = n + 1
    BY <1>1
  <2> QED
    BY <1>1, <2>1
<1>5. ASSUME NEW k \in 1..n, k - 1 \in T PROVE k \in T
  <2>1. \A j \in 0..(k - 1) : b[n + 1 - j] \in 0..j
    BY <1>5
  <2>2. /\ Options(b, s, K, n + 1 - k) \subseteq 0..k
        /\ n + 1 - k \in 1..n
        /\ Options(b, s, K, n + 1 - k) # {}
    BY <1>3, <2>1
  <2>3. b[n + 1 - k] = Max(Options(b, s, K, n + 1 - k))
    <3> DEFINE i == n + 1 - k
    <3>1. i \in 1..(n + 1) /\ i # n + 1
      BY <1>1, <2>2
    <3> HIDE DEF i
    <3>2. b[i] = Max(Options(b, s, K, i))
      BY <1>1, <3>1
    <3> QED
      BY <3>2 DEF i
  <2>4. b[n + 1 - k] \in 0..k
    <3>1. k \in Nat
      BY <1>1
    <3>2. Max(Options(b, s, K, n + 1 - k)) \in Options(b, s, K, n + 1 - k)
      BY <2>2, <3>1, MaxOfBounded
    <3> QED
      BY <2>2, <2>3, <3>2
  <2>5. ASSUME NEW j \in 0..k PROVE b[n + 1 - j] \in 0..j
    <3>1. j = k \/ j \in 0..(k - 1)
      BY <1>1
    <3> QED
      BY <2>1, <2>4, <3>1
  <2> QED
    BY <1>1, <2>5
<1>6. \A k \in 0..n : \A j \in 0..k : b[n + 1 - j] \in 0..j
  <2> HIDE DEF T
  <2>1. \A k \in 0..n : k \in T
    BY <1>1, <1>4, <1>5, CountUp
  <2> QED
    BY <2>1 DEF T
<1>7. \A i \in 1..(n + 1) : b[i] \in Nat
  <2>1. ASSUME NEW i \in 1..(n + 1) PROVE b[i] \in Nat
    <3>1. n + 1 - i \in 0..n /\ n + 1 - (n + 1 - i) = i /\ n \in 0..n
      BY <1>1
    <3>2. b[n + 1 - (n + 1 - i)] \in 0..(n + 1 - i)
      BY <1>6, <3>1
    <3> QED
      BY <3>1, <3>2
  <2> QED
    BY <2>1
<1>8. ASSUME NEW i \in 1..n PROVE BestAt(b, s, K, i)
  <2> DEFINE k == n + 1 - i
  <2>1. k \in 1..n /\ n + 1 - k = i /\ k - 1 \in 0..n /\ k \in Nat
    BY <1>1
  <2>2. Options(b, s, K, i) \subseteq 0..k /\ Options(b, s, K, i) # {}
    <3> HIDE DEF k
    <3>1. \A j \in 0..(k - 1) : b[n + 1 - j] \in 0..j
      BY <1>6, <2>1
    <3> QED
      BY <1>3, <2>1, <3>1
  <2>3. b[i] = Max(Options(b, s, K, i))
    BY <1>1
  <2> HIDE DEF k
  <2>4. b[i] \in Options(b, s, K, i) /\ \A x \in Options(b, s, K, i) : x <= b[i]
    BY <2>1, <2>2, <2>3, MaxOfBounded
  <2>5. \A x \in Options(b, s, K, i) : x \in Int
    BY <2>1, <2>2
  <2> QED
    BY <2>4, <2>5 DEF Options, BestAt
<1>9. IsBest(b, s, K)
  BY <1>1, <1>7, <1>8 DEF IsBest, n
<1> QED
  BY <1>9 DEF b

\* The spans of s with a kernel that begin at position i or later.
SpansFrom(s, K, i) ==
    {x \in K : \E j \in i..Len(s) : \E e \in (j + 1)..Len(s) : x = SubSeq(s, j, e)}

\* No stage is in two of them.
Apart(O) == \A x, y \in O : x # y => ToSet(x) \cap ToSet(y) = {}

\* A kernel for k stages saves k - 1 launches.
Saves(saved, K) == \A x \in K : saved[x] \in Int /\ saved[x] >= 0 /\ saved[x] = Len(x) - 1

LEMMA SpanSaves ==
    ASSUME NEW S, NEW s \in Seq(S), NEW K, NEW saved, Saves(saved, K),
           NEW i \in 1..Len(s), NEW e \in (i + 1)..Len(s), SubSeq(s, i, e) \in K
    PROVE  saved[SubSeq(s, i, e)] = e - i
<1>1. e \in i..Len(s) /\ e \in Int /\ i \in Int
  BY LenProperties
<1>2. Len(SubSeq(s, i, e)) = (e - i) + 1
  BY <1>1, SpanFacts
<1>3. saved[SubSeq(s, i, e)] = Len(SubSeq(s, i, e)) - 1
  BY DEF Saves
<1> QED
  BY <1>1, <1>2, <1>3

\* No disjoint choice of spans saves more than best says.
LEMMA BestIsBound ==
    ASSUME NEW S, NEW s \in Seq(S), NEW K, IsFiniteSet(K), NEW saved, Saves(saved, K),
           NEW b, IsBest(b, s, K), NEW O \in SUBSET SpansFrom(s, K, 1), Apart(O)
    PROVE  Total(saved, O) <= b[1]
<1> DEFINE n == Len(s)
           Bounded(i) == \A P \in SUBSET SpansFrom(s, K, i) : Apart(P) => Total(saved, P) <= b[i]
           T == {k \in 0..n : \A j \in 0..k : Bounded(n + 1 - j)}
<1>1. n \in Nat /\ n \in Int /\ b[n + 1] = 0
      /\ (\A i \in 1..(n + 1) : b[i] \in Nat) /\ \A i \in 1..n : BestAt(b, s, K, i)
  BY LenProperties DEF IsBest
<1>2. ASSUME NEW i, NEW P \in SUBSET SpansFrom(s, K, i)
      PROVE  /\ IsFiniteSet(P) /\ Total(saved, P) \in Int
             /\ \A x \in P : saved[x] \in Int /\ x \in K
  <2>1. P \in SUBSET K
    BY DEF SpansFrom
  <2>2. IsFiniteSet(P)
    BY <2>1, FS_Subset
  <2>3. \A x \in P : saved[x] \in Int /\ x \in K
    BY <2>1 DEF Saves
  <2> QED
    BY <2>2, <2>3, TotalInt
<1>3. Bounded(n + 1)
  <2>1. SpansFrom(s, K, n + 1) = {}
    BY <1>1 DEF SpansFrom
  <2>2. ASSUME NEW P \in SUBSET SpansFrom(s, K, n + 1) PROVE Total(saved, P) <= b[n + 1]
    <3>1. P = {}
      BY <2>1
    <3>2. Total(saved, P) = 0
      BY <3>1, TotalEmpty
    <3> QED
      BY <1>1, <3>2
  <2> QED
    BY <2>2
<1>4. ASSUME NEW i \in 1..n, \A j \in (i + 1)..(n + 1) : Bounded(j)
      PROVE  Bounded(i)
  <2> SUFFICES ASSUME NEW P \in SUBSET SpansFrom(s, K, i), Apart(P)
               PROVE  Total(saved, P) <= b[i]
    OBVIOUS
  <2>1. /\ b[i] \in Int /\ i + 1 \in (i + 1)..(n + 1) /\ b[i + 1] \in Int
        /\ BestAt(b, s, K, i)
    BY <1>1
  <2>2. IsFiniteSet(P) /\ Total(saved, P) \in Int
        /\ \A x \in P : saved[x] \in Int /\ x \in K
    BY <1>2
  <2>3. CASE P \subseteq SpansFrom(s, K, i + 1)
    <3>1. Bounded(i + 1)
      BY <1>4, <2>1
    <3>2. Total(saved, P) <= b[i + 1]
      BY <2>3, <3>1
    <3> QED
      BY <2>1, <2>2, <3>2 DEF BestAt
  <2>4. CASE ~(P \subseteq SpansFrom(s, K, i + 1))
    <3>1. PICK x \in P : x \notin SpansFrom(s, K, i + 1)
      BY <2>4
    <3>1a. PICK j \in i..n : \E m \in (j + 1)..n : x = SubSeq(s, j, m)
      BY DEF SpansFrom
    <3>2. PICK e \in (j + 1)..n : x = SubSeq(s, j, e)
      BY <3>1a
    <3>3. j = i
      <4> SUFFICES ASSUME j # i PROVE FALSE
        OBVIOUS
      <4>1. j \in (i + 1)..n
        BY <1>1
      <4> QED
        BY <2>2, <3>1, <3>2, <4>1 DEF SpansFrom
    <3>4. /\ e \in (i + 1)..n /\ x = SubSeq(s, i, e) /\ x \in K /\ e \in Int /\ i \in Int
          /\ e \in i..n /\ e + 1 \in (i + 1)..(n + 1)
      BY <1>1, <2>2, <3>2, <3>3
    <3>5. e \in CandidateEnds(s, K, i)
      BY <3>4 DEF CandidateEnds
    <3> DEFINE R == P \ {x}
    <3>6. ASSUME NEW y \in R PROVE y \in SpansFrom(s, K, e + 1)
      <4>1a. PICK j2 \in i..n : \E m \in (j2 + 1)..n : y = SubSeq(s, j2, m)
        BY DEF SpansFrom
      <4>1. PICK e2 \in (j2 + 1)..n : y = SubSeq(s, j2, e2)
        BY <4>1a
      <4>2. j2 \in 1..n /\ e2 \in j2..n /\ j2 \in Int /\ j2 \in j2..e2
        BY <1>1
      <4>3. ToSet(y) = {s[k] : k \in j2..e2} /\ ToSet(x) = {s[k] : k \in i..e}
        BY <3>4, <4>1, <4>2, SpanFacts
      <4>4. ToSet(x) \cap ToSet(y) = {}
        BY DEF Apart
      <4>5. ~(j2 \in i..e)
        <5>1. s[j2] \in ToSet(y)
          BY <4>2, <4>3
        <5>2. j2 \in i..e => s[j2] \in ToSet(x)
          BY <4>3
        <5> QED
          BY <4>4, <5>1, <5>2
      <4>6. j2 \in (e + 1)..n
        BY <1>1, <3>4, <4>2, <4>5
      <4> QED
        BY <2>2, <4>1, <4>6 DEF SpansFrom
    <3>7. R \in SUBSET SpansFrom(s, K, e + 1) /\ Apart(R)
      BY <3>6 DEF Apart
    <3>8. Total(saved, R) <= b[e + 1] /\ Total(saved, R) \in Int /\ b[e + 1] \in Int
      <4> HIDE DEF R
      <4>1. Total(saved, R) \in Int
        BY <1>2, <3>7
      <4>2. Bounded(e + 1)
        BY <1>4, <3>4
      <4>3. b[e + 1] \in Int
        BY <1>1, <3>4
      <4> QED
        BY <3>7, <4>1, <4>2, <4>3
    <3>9. Total(saved, P) = saved[x] + Total(saved, R)
      BY <2>2, TotalRemove
    <3>10. saved[x] = e - i
      BY <3>4, SpanSaves
    <3>11. b[i] >= (e - i) + b[e + 1]
      BY <2>1, <3>5 DEF BestAt
    <3> HIDE DEF R
    <3> QED
      BY SMTT(60), <2>1, <3>4, <3>8, <3>9, <3>10, <3>11
  <2> QED
    BY <2>3, <2>4
<1> HIDE DEF n, Bounded
<1>5. 0 \in T
  <2>1. \A j \in 0..0 : n + 1 - j = n + 1
    BY <1>1
  <2> QED
    BY <1>1, <1>3, <2>1
<1>6. ASSUME NEW k \in 1..n, k - 1 \in T PROVE k \in T
  <2> DEFINE i == n + 1 - k
  <2>1. i \in 1..n /\ k \in Int
    BY <1>1
  <2>2. ASSUME NEW j \in (i + 1)..(n + 1) PROVE Bounded(j)
    <3>1. n + 1 - j \in 0..(k - 1) /\ n + 1 - (n + 1 - j) = j
      BY <1>1, <2>1
    <3>2. Bounded(n + 1 - (n + 1 - j))
      BY <1>6, <3>1
    <3> QED
      BY <3>1, <3>2
  <2>3. Bounded(i)
    <3> HIDE DEF i
    <3> QED
      BY <1>4, <2>1, <2>2
  <2>4. ASSUME NEW j \in 0..k PROVE Bounded(n + 1 - j)
    <3>1. j = k \/ j \in 0..(k - 1)
      BY <2>1
    <3> QED
      BY <1>6, <2>3, <3>1
  <2> QED
    BY <1>1, <2>4
<1>7. Bounded(1)
  <2>1. \A k \in 0..n : k \in T
    <3> HIDE DEF T
    <3> QED
      BY <1>1, <1>5, <1>6, CountUp
  <2>2. n \in 0..n /\ n + 1 - n = 1
    BY <1>1
  <2>3. Bounded(n + 1 - n)
    BY <2>1, <2>2
  <2> QED
    BY <2>2, <2>3
<1> QED
  BY <1>7 DEF Bounded

-----------------------------------------------------------------------------
(***************************************************************************)
(* What is installed along one legal group.                                *)
(***************************************************************************)

\* The launches that are still to be saved behind position i: best is counted
\* from the end of the span chosen last if that is farther.
Ahead(acc, i) == IF acc.next > i THEN acc.next ELSE i + 1

InstallStates(s, K, b, saved, i) ==
    {acc \in [next : 1..(Len(s) + 1), groups : SUBSET K] :
        /\ \A x \in acc.groups : \E j \in 1..Len(s) : \E e \in (j + 1)..Len(s) :
              x = SubSeq(s, j, e) /\ e < acc.next
        /\ Apart(acc.groups)
        /\ Total(saved, acc.groups) + b[Ahead(acc, i)] = b[1]}

Distinct(s) == \A i, j \in 1..Len(s) : s[i] = s[j] => i = j

LEMMA InstallStarts ==
    ASSUME NEW s, Len(s) \in Nat, NEW K, NEW b, IsBest(b, s, K), NEW saved
    PROVE  [next |-> 1, groups |-> {}] \in InstallStates(s, K, b, saved, 0)
<1> DEFINE acc == [next |-> 1, groups |-> {}]
<1>1. acc \in [next : 1..(Len(s) + 1), groups : SUBSET K] /\ acc.groups = {} /\ Ahead(acc, 0) = 1
  BY DEF Ahead
<1>2. Total(saved, {}) = 0 /\ b[1] \in Nat
  BY TotalEmpty DEF IsBest
<1> HIDE DEF acc
<1>3. Total(saved, acc.groups) + b[Ahead(acc, 0)] = b[1]
  <2>1. Total(saved, acc.groups) = 0 /\ b[Ahead(acc, 0)] = b[1]
    BY <1>1, <1>2
  <2> QED
    BY <1>2, <2>1
<1>4. Apart(acc.groups) /\ \A x \in acc.groups : FALSE
  BY <1>1 DEF Apart
<1>5. acc \in InstallStates(s, K, b, saved, 0)
  BY <1>1, <1>3, <1>4 DEF InstallStates
<1> QED
  BY <1>5 DEF acc

LEMMA InstallStep ==
    ASSUME NEW S, NEW s \in Seq(S), Distinct(s), NEW K, IsFiniteSet(K),
           NEW saved, Saves(saved, K), NEW b, IsBest(b, s, K),
           NEW i \in 1..Len(s), NEW acc \in InstallStates(s, K, b, saved, i - 1)
    PROVE  InstallAt(s, K, b, acc, i) \in InstallStates(s, K, b, saved, i)
<1> DEFINE n == Len(s)
           ends == ChosenEnds(s, K, b, i)
<1>1. n \in Nat /\ n \in Int /\ i \in Int /\ b[i] \in Int /\ b[i + 1] \in Int /\ BestAt(b, s, K, i)
  BY LenProperties DEF IsBest
<1>2. /\ acc \in [next : 1..(n + 1), groups : SUBSET K] /\ acc.next \in Int /\ Apart(acc.groups)
      /\ Total(saved, acc.groups) + b[Ahead(acc, i - 1)] = b[1]
  BY <1>1 DEF InstallStates
<1>3. \A x \in acc.groups : \E j \in 1..n : \E e \in (j + 1)..n :
         x = SubSeq(s, j, e) /\ e < acc.next
  BY DEF InstallStates
<1>4. CASE i < acc.next
  <2>1. InstallAt(s, K, b, acc, i) = acc
    BY <1>4 DEF InstallAt
  <2>2. Ahead(acc, i) = Ahead(acc, i - 1)
    BY <1>1, <1>2, <1>4 DEF Ahead
  <2> QED
    BY <1>2, <1>3, <2>1, <2>2 DEF InstallStates
<1>5. ASSUME ~(i < acc.next) PROVE Ahead(acc, i - 1) = i /\ Ahead(acc, i) = i + 1
  BY <1>1, <1>2, <1>5 DEF Ahead
<1>6. CASE ~(i < acc.next) /\ ends = {}
  <2>1. InstallAt(s, K, b, acc, i) = acc
    BY <1>6 DEF InstallAt
  <2>2. b[i] = b[i + 1]
    BY <1>1, <1>6 DEF ChosenEnds, BestAt
  <2> QED
    BY <1>2, <1>3, <1>5, <1>6, <2>1, <2>2 DEF InstallStates
<1>7. CASE ~(i < acc.next) /\ ends # {}
  <2> DEFINE m == Max(ends)
             x == SubSeq(s, i, m)
             new == [next |-> m + 1, groups |-> acc.groups \cup {x}]
  <2>1. InstallAt(s, K, b, acc, i) = new
    BY <1>7 DEF InstallAt
  <2>2. m \in ends
    <3>1. ends \subseteq 0..n
      BY <1>1 DEF ChosenEnds, CandidateEnds
    <3> HIDE DEF ends, n
    <3> QED
      BY <1>1, <1>7, <3>1, MaxOfBounded
  <2>3. m \in (i + 1)..n /\ x \in K /\ (m - i) + b[m + 1] = b[i]
    BY <2>2 DEF ChosenEnds, CandidateEnds
  <2> HIDE DEF m, ends
  <2>4. m \in Int /\ m \in i..n /\ b[m + 1] \in Int /\ m + 1 \in 1..(n + 1) /\ m < m + 1
        /\ acc.next < m + 1
    BY <1>1, <1>2, <1>7, <2>3 DEF IsBest
  <2>5. ToSet(x) = {s[k] : k \in i..m}
    BY <2>4, SpanFacts
  <2>6. s[i] \in ToSet(x)
    BY <1>1, <2>4, <2>5
  <2>7. saved[x] = m - i
    BY <2>3, SpanSaves
  <2> HIDE DEF x
  <2>8. ASSUME NEW y \in acc.groups PROVE ToSet(y) \cap ToSet(x) = {}
    <3>1. PICK j \in 1..n : \E e \in (j + 1)..n : y = SubSeq(s, j, e) /\ e < acc.next
      BY <1>3
    <3>2. PICK e \in (j + 1)..n : y = SubSeq(s, j, e) /\ e < acc.next
      BY <3>1
    <3>3. e \in j..n /\ e \in Int /\ e < i
      BY <1>1, <1>2, <1>7, <3>2
    <3>4. ToSet(y) = {s[k] : k \in j..e}
      BY <3>2, <3>3, SpanFacts
    <3>5. \A k \in j..e : \A l \in i..m : s[k] # s[l]
      <4> SUFFICES ASSUME NEW k \in j..e, NEW l \in i..m PROVE s[k] # s[l]
        OBVIOUS
      <4>1. k \in 1..n /\ l \in 1..n /\ k # l
        BY <1>1, <2>4, <3>3
      <4> QED
        BY <4>1 DEF Distinct
    <3> QED
      BY <2>5, <3>4, <3>5
  <2>9. x \notin acc.groups
    BY <2>6, <2>8
  <2>10. /\ IsFiniteSet(acc.groups) /\ Total(saved, acc.groups) \in Int
         /\ \A y \in acc.groups \cup {x} : saved[y] \in Int
    <3>1. acc.groups \in SUBSET K
      BY <1>2
    <3>2. IsFiniteSet(acc.groups)
      BY <3>1, FS_Subset
    <3>3. \A y \in acc.groups \cup {x} : saved[y] \in Int
      BY <2>3, <3>1 DEF Saves
    <3> QED
      BY <3>2, <3>3, TotalInt
  <2>11. Total(saved, acc.groups \cup {x}) = saved[x] + Total(saved, acc.groups)
    BY <2>9, <2>10, TotalAdd
  <2>12. new.next = m + 1 /\ new.groups = acc.groups \cup {x}
         /\ new \in [next : 1..(n + 1), groups : SUBSET K]
    BY <1>2, <2>3, <2>4
  <2> HIDE DEF new
  <2>13. Apart(new.groups)
    BY <1>2, <2>8, <2>12 DEF Apart
  <2>14. \A y \in new.groups : \E j \in 1..n : \E e \in (j + 1)..n :
            y = SubSeq(s, j, e) /\ e < new.next
    <3>1. ASSUME NEW y \in acc.groups
          PROVE  \E j \in 1..n : \E e \in (j + 1)..n : y = SubSeq(s, j, e) /\ e < m + 1
      <4>1. PICK j \in 1..n : \E e \in (j + 1)..n : y = SubSeq(s, j, e) /\ e < acc.next
        BY <1>3
      <4>2. PICK e \in (j + 1)..n : y = SubSeq(s, j, e) /\ e < acc.next
        BY <4>1
      <4>3. e < m + 1
        BY <1>1, <1>2, <2>4, <4>2
      <4> QED
        BY <4>2, <4>3
    <3>2. \E j \in 1..n : \E e \in (j + 1)..n : x = SubSeq(s, j, e) /\ e < m + 1
      BY <2>3, <2>4 DEF x
    <3> QED
      BY <2>12, <3>1, <3>2
  <2>15. Ahead(new, i) = m + 1
    BY <1>1, <2>3, <2>4, <2>12 DEF Ahead
  <2>16. Total(saved, new.groups) + b[Ahead(new, i)] = b[1]
    <3>1. Total(saved, acc.groups) + b[i] = b[1]
      BY <1>2, <1>5, <1>7
    <3>2. Total(saved, new.groups) = (m - i) + Total(saved, acc.groups)
      BY <2>7, <2>11, <2>12
    <3> QED
      BY <1>1, <2>3, <2>4, <2>10, <2>15, <3>1, <3>2
  <2> QED
    BY <2>1, <2>12, <2>13, <2>14, <2>16 DEF InstallStates
<1> QED
  BY <1>4, <1>6, <1>7

\* What the planner installs of the legal group s.
InstalledWell(s, K, saved, best, spans) ==
    /\ spans \subseteq SpansFrom(s, K, 1)
    /\ Apart(spans)
    /\ Total(saved, spans) = best

LEMMA InstalledFacts ==
    ASSUME NEW S, NEW s \in Seq(S), Distinct(s), NEW K, IsFiniteSet(K),
           NEW saved, Saves(saved, K), NEW b, IsBest(b, s, K)
    PROVE  InstalledWell(s, K, saved, b[1], InstalledFrom(s, K, b))
<1> DEFINE n == Len(s)
           base == [next |-> 1, groups |-> {}]
           States(k) == InstallStates(s, K, b, saved, k)
           All == UNION {States(k) : k \in 0..n}
           F == [p \in (1..n) \X All |-> InstallAt(s, K, b, p[2], p[1])]
           St == [k \in 0..n |-> States(k)]
           Solution(it) == it = [k \in 0..n |->
                                    IF k = 0 THEN base ELSE InstallAt(s, K, b, it[k - 1], k)]
           at == CHOOSE it : Solution(it)
<1>1. n \in Nat
  BY LenProperties
<1>2. InstalledFrom(s, K, b) = at[n].groups
  BY Zenon DEF InstalledFrom
<1>3. base \in States(0) /\ \A k \in 1..n : \A x \in States(k - 1) : InstallAt(s, K, b, x, k) \in States(k)
  BY <1>1, InstallStarts, InstallStep
<1> HIDE DEF n, base, States
<1>4. ASSUME NEW k \in 1..n, NEW x \in States(k - 1)
      PROVE  F[<<k, x>>] = InstallAt(s, K, b, x, k)
  <2>1. k - 1 \in 0..n
    BY <1>1
  <2>2. x \in All
    BY <2>1
  <2> HIDE DEF All
  <2> QED
    BY <2>2
<1> HIDE DEF F
<1>5. StepsWithin(base, F, n, St)
  <2>1. \A k \in 0..n : St[k] = States(k)
    OBVIOUS
  <2>2. 0 \in 0..n /\ \A k \in 1..n : k - 1 \in 0..n /\ k \in 0..n
    BY <1>1
  <2> HIDE DEF St, All
  <2> QED
    BY <1>3, <1>4, <2>1, <2>2 DEF StepsWithin
<1>6. \A k \in 1..n : St[k - 1] = States(k - 1)
  BY <1>1
<1>7. \A k \in 0..n : St[k] = States(k)
  OBVIOUS
<1> HIDE DEF St, All
<1>8. PICK it : Iterates(it, base, F, n)
  BY <1>1, IterationExists
<1>9. \A k \in 0..n : it[k] \in St[k]
  <2>1. it[0] = base
    BY <1>1, <1>8 DEF Iterates
  <2>2. \A k \in 1..n : it[k] = F[<<k, it[k - 1]>>]
    BY <1>1, <1>8 DEF Iterates
  <2> QED
    BY <1>1, <1>5, <2>1, <2>2, IterationStays
<1>10. Solution(it)
  <2>1. ASSUME NEW k \in 1..n PROVE F[<<k, it[k - 1]>>] = InstallAt(s, K, b, it[k - 1], k)
    <3>1. k - 1 \in 0..n
      BY <1>1
    <3>2. it[k - 1] \in States(k - 1)
      BY <1>6, <1>9, <3>1
    <3> QED
      BY <1>4, <3>2
  <2>2. \A k \in 0..n : (IF k = 0 THEN base ELSE F[<<k, it[k - 1]>>])
                        = IF k = 0 THEN base ELSE InstallAt(s, K, b, it[k - 1], k)
    BY <1>1, <2>1
  <2>3. it = [k \in 0..n |-> IF k = 0 THEN base ELSE F[<<k, it[k - 1]>>]]
    BY <1>8 DEF Iterates
  <2> QED
    BY <2>2, <2>3
<1>11. Solution(at)
  <2> HIDE DEF Solution
  <2> QED
    BY <1>10
<1> HIDE DEF at
<1>12. \A k \in 0..n : at[k] \in St[k]
  <2>1. at[0] = base
    BY <1>1, <1>11
  <2>2. ASSUME NEW k \in 1..n, at[k - 1] \in St[k - 1] PROVE at[k] = F[<<k, at[k - 1]>>]
    <3>1. at[k] = InstallAt(s, K, b, at[k - 1], k)
      BY <1>1, <1>11
    <3>2. at[k - 1] \in States(k - 1)
      BY <1>6, <2>2
    <3> QED
      BY <1>4, <3>1, <3>2
  <2> HIDE DEF Solution
  <2> QED
    BY <1>1, <1>5, <2>1, <2>2, IterationStays
<1> HIDE DEF Solution
<1>13. at[n] \in States(n)
  <2>1. n \in 0..n
    BY <1>1
  <2> QED
    BY <1>7, <1>12, <2>1
<1> DEFINE acc == at[n]
<1>14. /\ acc \in [next : 1..(n + 1), groups : SUBSET K] /\ Apart(acc.groups)
       /\ Total(saved, acc.groups) + b[Ahead(acc, n)] = b[1]
  BY <1>13 DEF States, InstallStates, n
<1>15. \A x \in acc.groups : \E j \in 1..n : \E e \in (j + 1)..n : x = SubSeq(s, j, e)
  BY <1>13 DEF States, InstallStates, n
<1> HIDE DEF acc
<1>16. Ahead(acc, n) = n + 1
  BY <1>1, <1>14 DEF Ahead
<1>17. Total(saved, acc.groups) = b[1]
  <2>1. b[n + 1] = 0
    BY DEF IsBest, n
  <2>2. Total(saved, acc.groups) \in Int
    <3>1. acc.groups \in SUBSET K
      BY <1>14
    <3>2. IsFiniteSet(acc.groups) /\ \A x \in acc.groups : saved[x] \in Int
      BY <3>1, FS_Subset DEF Saves
    <3> QED
      BY <3>2, TotalInt
  <2> QED
    BY <1>14, <1>16, <2>1, <2>2
<1>18. acc.groups \subseteq SpansFrom(s, K, 1)
  BY <1>14, <1>15 DEF SpansFrom, n
<1>19. InstalledFrom(s, K, b) = acc.groups
  BY <1>2 DEF acc
<1> QED
  BY <1>14, <1>17, <1>18, <1>19 DEF InstalledWell

-----------------------------------------------------------------------------
(***************************************************************************)
(* All legal groups together.                                              *)
(***************************************************************************)
LEMMA FiniteImage ==
    ASSUME NEW D, IsFiniteSet(D), NEW f
    PROVE  IsFiniteSet({f[x] : x \in D})
<1> DEFINE R == {f[x] : x \in D}
           h == [x \in D |-> f[x]]
<1>1. h \in Surjection(D, R)
  BY DEF Surjection
<1> HIDE DEF R, h
<1>2. IsFiniteSet(R)
  BY <1>1, FS_Surjection
<1> QED
  BY <1>2 DEF R

Together(A, L) == UNION {A[s] : s \in L}

\* A does at most as well as B, group by group; no span is of two groups.
Groupwise(saved, K, L, A, B) ==
    /\ \A s \in L : A[s] \in SUBSET K /\ B[s] \in SUBSET K
    /\ \A s \in L : Total(saved, A[s]) <= Total(saved, B[s])
    /\ \A s, t \in L : s # t => A[s] \cap A[t] = {} /\ B[s] \cap B[t] = {}

\* Where each group does at least as well, all of them do.
LEMMA GroupsAddUp ==
    ASSUME NEW L, IsFiniteSet(L), NEW K, IsFiniteSet(K), NEW saved, Saves(saved, K),
           NEW A, NEW B, Groupwise(saved, K, L, A, B)
    PROVE  Total(saved, Together(A, L)) <= Total(saved, Together(B, L))
<1>0. /\ \A s \in L : A[s] \in SUBSET K /\ B[s] \in SUBSET K
      /\ \A s \in L : Total(saved, A[s]) <= Total(saved, B[s])
      /\ \A s, t \in L : s # t => A[s] \cap A[t] = {} /\ B[s] \cap B[t] = {}
  BY DEF Groupwise
<1> DEFINE UA(M) == UNION {A[s] : s \in M}
           UB(M) == UNION {B[s] : s \in M}
           F == {M \in SUBSET L : ~(Total(saved, UA(M)) <= Total(saved, UB(M)))}
<1>1. SUFFICES ASSUME F # {} PROVE FALSE
  BY DEF Together
<1>2. PICK M \in F : \A x \in M : M \ {x} \notin F
  <2>1. F \subseteq SUBSET L
    OBVIOUS
  <2> HIDE DEF F
  <2> QED
    BY <1>1, <2>1, SmallestMember
<1>3. M \in SUBSET L /\ ~(Total(saved, UA(M)) <= Total(saved, UB(M)))
  OBVIOUS
<1>4. ASSUME NEW x \in M
      PROVE  Total(saved, UA(M \ {x})) <= Total(saved, UB(M \ {x}))
  <2>1. M \ {x} \in SUBSET L
    BY <1>3
  <2> QED
    BY <1>2, <2>1
<1>5. \A N \in SUBSET L : UA(N) \in SUBSET K /\ UB(N) \in SUBSET K
  BY <1>0
<1> HIDE DEF F
<1>6. ASSUME NEW P \in SUBSET K
      PROVE  IsFiniteSet(P) /\ Total(saved, P) \in Int /\ \A x \in P : saved[x] \in Int
  <2>1. IsFiniteSet(P)
    BY FS_Subset
  <2>2. \A x \in P : saved[x] \in Int
    BY DEF Saves
  <2> QED
    BY <2>1, <2>2, TotalInt
<1>7. M # {}
  <2> SUFFICES ASSUME M = {} PROVE FALSE
    OBVIOUS
  <2>1. UA(M) = {} /\ UB(M) = {}
    OBVIOUS
  <2>2. Total(saved, {}) = 0
    BY TotalEmpty
  <2> HIDE DEF UA, UB
  <2> QED
    BY <1>3, <2>1, <2>2
<1>8. PICK x \in M : TRUE
  BY <1>7
<1> DEFINE R == M \ {x}
<1>9. R \in SUBSET L /\ x \in L
  BY <1>3
<1>10. /\ UA(M) = A[x] \cup UA(R) /\ A[x] \cap UA(R) = {}
       /\ UB(M) = B[x] \cup UB(R) /\ B[x] \cap UB(R) = {}
  BY <1>0, <1>3, <1>9
<1>11. Total(saved, UA(R)) <= Total(saved, UB(R))
  BY <1>4
<1>12. UA(R) \in SUBSET K /\ UB(R) \in SUBSET K /\ A[x] \in SUBSET K /\ B[x] \in SUBSET K
  BY <1>0, <1>5, <1>9
<1> HIDE DEF UA, UB, R
<1>13. Total(saved, UA(M)) = Total(saved, A[x]) + Total(saved, UA(R))
  <2>1. /\ IsFiniteSet(A[x]) /\ IsFiniteSet(UA(R))
        /\ \A y \in A[x] \cup UA(R) : saved[y] \in Int
    BY <1>6, <1>12
  <2> QED
    BY <1>10, <2>1, TotalUnion
<1>14. Total(saved, UB(M)) = Total(saved, B[x]) + Total(saved, UB(R))
  <2>1. /\ IsFiniteSet(B[x]) /\ IsFiniteSet(UB(R))
        /\ \A y \in B[x] \cup UB(R) : saved[y] \in Int
    BY <1>6, <1>12
  <2> QED
    BY <1>10, <2>1, TotalUnion
<1>15. /\ Total(saved, A[x]) \in Int /\ Total(saved, UA(R)) \in Int
       /\ Total(saved, B[x]) \in Int /\ Total(saved, UB(R)) \in Int
       /\ Total(saved, A[x]) <= Total(saved, B[x])
  BY <1>0, <1>6, <1>9, <1>12
<1> QED
  BY <1>3, <1>11, <1>13, <1>14, <1>15

LEMMA LegalFinite ==
    ASSUME g \in Graphs, Planned, NEW spec
    PROVE  IsFiniteSet(planFusionGroups(spec))
<1> DEFINE H == {n \in Nodes : IsHead(spec, n) /\ Len(GroupFrom(spec, n)) >= 2}
           f == [n \in H |-> GroupFrom(spec, n)]
<1>1. IsFiniteSet(Nodes)
  <2>1. g.nodes \in Int
    BY PlannedWiring DEF IsWiring
  <2> QED
    BY <2>1, FS_Interval DEF Nodes
<1>2. H \in SUBSET Nodes
  OBVIOUS
<1>3. planFusionGroups(spec) = {f[n] : n \in H}
  BY DEF planFusionGroups
<1> HIDE DEF H, f
<1>4. IsFiniteSet(H)
  BY <1>1, <1>2, FS_Subset
<1>5. IsFiniteSet({f[n] : n \in H})
  BY <1>4, FiniteImage
<1> QED
  BY <1>3, <1>5

LEMMA SpansFinite ==
    ASSUME NEW s, Len(s) \in Nat
    PROVE  IsFiniteSet(SpansOf(s))
<1> DEFINE D == {q \in (1..Len(s)) \X (1..Len(s)) : (q[2] + 1) - q[1] \in KernelLengths}
           f == [r \in D |-> SubSeq(s, r[1], r[2])]
<1>1. IsFiniteSet((1..Len(s)) \X (1..Len(s)))
  <2>1. IsFiniteSet(1..Len(s))
    BY FS_Interval
  <2> QED
    BY <2>1, FS_Product
<1>2. D \in SUBSET ((1..Len(s)) \X (1..Len(s)))
  OBVIOUS
<1>3. SpansOf(s) = {f[r] : r \in D}
  BY DEF SpansOf
<1> HIDE DEF D, f
<1>4. IsFiniteSet(D)
  BY <1>1, <1>2, FS_Subset
<1>5. IsFiniteSet({f[r] : r \in D})
  BY <1>4, FiniteImage
<1> QED
  BY <1>3, <1>5

LEMMA KernelsFinite ==
    ASSUME g \in Graphs, Planned, NEW spec \in [Nodes -> g.specs],
           NEW K \in SUBSET UNION {SpansOf(s) : s \in planFusionGroups(spec)}
    PROVE  IsFiniteSet(K)
<1> DEFINE L == planFusionGroups(spec)
           f == [s \in L |-> SpansOf(s)]
<1>1. \A s \in L : Len(s) \in Nat
  BY LegalGroups, PathType DEF LegalFrom
<1>2. \A s \in L : IsFiniteSet(f[s])
  BY <1>1, SpansFinite
<1>3. UNION {SpansOf(s) : s \in L} = UNION {f[s] : s \in L}
  OBVIOUS
<1>4. IsFiniteSet(L)
  BY LegalFinite
<1> HIDE DEF L, f
<1>5. IsFiniteSet({f[s] : s \in L})
  BY <1>4, FiniteImage
<1>6. IsFiniteSet(UNION {f[s] : s \in L})
  BY <1>2, <1>5, FS_UNION
<1>7. K \in SUBSET UNION {f[s] : s \in L}
  BY <1>3 DEF L
<1> QED
  BY <1>6, <1>7, FS_Subset
LEMMA PathDistinct ==
    ASSUME g \in Graphs, Planned, ProducersFirst, NEW spec, NEW s, Path(spec, s)
    PROVE  Distinct(s)
<1>1. Len(s) \in Nat /\ \A m \in 1..Len(s) : s[m] \in Int
  BY PathType
<1>2. SUFFICES ASSUME NEW i \in 1..Len(s), NEW j \in 1..Len(s), s[i] = s[j], i < j
               PROVE  FALSE
  BY <1>1 DEF Distinct
<1>3. s[i] < s[j]
  BY <1>2, PathIncreases
<1> QED
  BY <1>1, <1>2, <1>3

\* The spans of different legal groups have no stage in common.
LEMMA SpansOfTwoGroups ==
    ASSUME g \in Graphs, Planned, NEW spec \in [Nodes -> g.specs], NEW K,
           NEW s \in planFusionGroups(spec), NEW t \in planFusionGroups(spec), s # t,
           NEW x \in SpansFrom(s, K, 1), NEW y \in SpansFrom(t, K, 1)
    PROVE  ToSet(x) \cap ToSet(y) = {} /\ x # y
<1>1. PICK h \in Nodes : LegalFrom(spec, h, s)
  BY LegalGroups
<1>2. PICK k \in Nodes : LegalFrom(spec, k, t)
  BY LegalGroups
<1>3. s \in Seq(Nodes) /\ t \in Seq(Nodes) /\ Len(s) \in Nat /\ Len(t) \in Nat
  BY <1>1, <1>2, PathType DEF LegalFrom
<1>4. PICK i \in 1..Len(s) : \E e \in (i + 1)..Len(s) : x = SubSeq(s, i, e)
  BY DEF SpansFrom
<1>5. PICK e \in (i + 1)..Len(s) : x = SubSeq(s, i, e)
  BY <1>4
<1>6. PICK j \in 1..Len(t) : \E d \in (j + 1)..Len(t) : y = SubSeq(t, j, d)
  BY DEF SpansFrom
<1>7. PICK d \in (j + 1)..Len(t) : y = SubSeq(t, j, d)
  BY <1>6
<1>8. e \in i..Len(s) /\ d \in j..Len(t)
  BY <1>3
<1>9. ToSet(x) = {s[m] : m \in i..e} /\ ToSet(y) = {t[m] : m \in j..d}
  BY <1>3, <1>5, <1>7, <1>8, SpanFacts
<1>10. \A m \in i..e : \A n \in j..d : s[m] # t[n]
  <2> SUFFICES ASSUME NEW m \in i..e, NEW n \in j..d, s[m] = t[n] PROVE FALSE
    OBVIOUS
  <2>1. m \in 1..Len(s) /\ n \in 1..Len(t)
    BY <1>3, <1>8
  <2> QED
    BY <1>1, <1>2, <2>1, GroupsApart
<1>11. ToSet(x) \cap ToSet(y) = {}
  BY <1>9, <1>10
<1>12. i \in i..e /\ s[i] \in ToSet(x)
  BY <1>3, <1>8, <1>9
<1> QED
  BY <1>11, <1>12

\* A kernel of the registry is for a span of some legal group.
LEMMA KernelSpan ==
    ASSUME g \in Graphs, Planned, NEW spec \in [Nodes -> g.specs],
           NEW K \in SUBSET UNION {SpansOf(s) : s \in planFusionGroups(spec)}, NEW x \in K
    PROVE  \E s \in planFusionGroups(spec) : x \in SpansFrom(s, K, 1)
<1>1. PICK s \in planFusionGroups(spec) : x \in SpansOf(s)
  OBVIOUS
<1>2. Len(s) \in Nat
  BY LegalGroups, PathType DEF LegalFrom
<1>3. PICK r \in (1..Len(s)) \X (1..Len(s)) :
         (r[2] + 1) - r[1] \in KernelLengths /\ x = SubSeq(s, r[1], r[2])
  BY <1>1 DEF SpansOf
<1>4. r[1] \in 1..Len(s) /\ r[2] \in 1..Len(s) /\ (r[2] + 1) - r[1] \in Nat \ {0, 1}
  BY <1>3, FusionAssumption
<1>5. r[2] \in (r[1] + 1)..Len(s)
  BY <1>2, <1>4
<1> QED
  BY <1>3, <1>4, <1>5 DEF SpansFrom

\* What a kernel takes for granted, of any span of a legal group.
SpanSound(spec, x) ==
    /\ IsChain(g, ToSet(x))
    /\ OneGeometry(spec, x)
    /\ InternalBuffers(ToSet(x)) \cap g.persistent = {}

LEMMA LegalSpanSound ==
    ASSUME g \in Graphs, Planned, ProducersFirst, NEW spec \in [Nodes -> g.specs], NEW K,
           NEW s \in planFusionGroups(spec), NEW x \in SpansFrom(s, K, 1)
    PROVE  SpanSound(spec, x)
<1>1. PICK h \in Nodes : LegalFrom(spec, h, s)
  BY LegalGroups
<1>2. PICK geometry \in Geometries : Agreeing(spec, s, geometry)
  BY <1>1 DEF LegalFrom
<1>3. Path(spec, s) /\ s \in Seq(Nodes) /\ Len(s) \in Nat
  BY <1>1, PathType DEF LegalFrom
<1>4. PICK i \in 1..Len(s) : \E e \in (i + 1)..Len(s) : x = SubSeq(s, i, e)
  BY DEF SpansFrom
<1>5. PICK e \in (i + 1)..Len(s) : x = SubSeq(s, i, e)
  BY <1>4
<1>6. e \in i..Len(s)
  BY <1>3
<1>7. IsChain(g, ToSet(x))
  BY <1>3, <1>5, <1>6, SpanIsChain
<1>8. OneGeometry(spec, x)
  BY <1>2, <1>3, <1>5, <1>6, SpanGeometry
<1>9. ToSet(x) \in SUBSET Nodes
  <2>1. ToSet(SubSeq(s, i, e)) = {s[m] : m \in i..e}
    BY <1>3, <1>6, SpanFacts
  <2>2. \A m \in i..e : s[m] \in Nodes
    <3>1. \A m \in i..e : m \in 1..Len(s)
      BY <1>3, <1>6
    <3> QED
      BY <1>3, <3>1, ElementOfSeq
  <2> QED
    BY <1>5, <2>1, <2>2
<1>10. InternalBuffers(ToSet(x)) \cap g.persistent = {}
  BY <1>9, InternalNotKept
<1> QED
  BY <1>7, <1>8, <1>10 DEF SpanSound

\* No choice of disjoint spans saves more than the installed ones.
BestChoice(saved, K, installed) ==
    \A other \in SUBSET K : Apart(other) => Total(saved, other) <= Total(saved, installed)

LEMMA InstallationSound ==
    ASSUME g \in Graphs, Planned, ProducersFirst, NEW spec \in [Nodes -> g.specs],
           NEW K \in SUBSET UNION {SpansOf(s) : s \in planFusionGroups(spec)},
           NEW installed,
           installed = UNION {InstalledSpans(s, K) : s \in planFusionGroups(spec)},
           NEW saved, saved = [x \in K |-> Len(x) - 1]
    PROVE  /\ \A x \in installed : SpanSound(spec, x)
           /\ Apart(installed)
           /\ BestChoice(saved, K, installed)
<1> DEFINE L == planFusionGroups(spec)
           B == [s \in L |-> InstalledSpans(s, K)]
<1>1. IsFiniteSet(K) /\ IsFiniteSet(L)
  BY KernelsFinite, LegalFinite
<1>2. Saves(saved, K)
  <2>1. ASSUME NEW x \in K PROVE Len(x) \in Nat \ {0}
    <3>1. PICK s \in L : x \in SpansFrom(s, K, 1)
      BY KernelSpan
    <3>2. s \in Seq(Nodes) /\ Len(s) \in Nat
      BY LegalGroups, PathType DEF LegalFrom
    <3>3. PICK i \in 1..Len(s) : \E e \in (i + 1)..Len(s) : x = SubSeq(s, i, e)
      BY <3>1 DEF SpansFrom
    <3>4. PICK e \in (i + 1)..Len(s) : x = SubSeq(s, i, e)
      BY <3>3
    <3>5. e \in i..Len(s) /\ (e - i) + 1 \in Nat \ {0}
      BY <3>2
    <3> QED
      BY <3>2, <3>4, <3>5, SpanFacts
  <2> QED
    BY <2>1 DEF Saves
<1>3. \A s \in L : s \in Seq(Nodes) /\ Len(s) \in Nat /\ Distinct(s)
  BY LegalGroups, PathType, PathDistinct DEF LegalFrom
<1>4. ASSUME NEW s \in L
      PROVE  \E best : /\ InstalledWell(s, K, saved, best, B[s])
                       /\ \A O \in SUBSET SpansFrom(s, K, 1) : Apart(O) => Total(saved, O) <= best
  <2> DEFINE b == BestFrom(s, K)
  <2>1. IsBest(b, s, K)
    BY <1>3, BestFacts
  <2>2. B[s] = InstalledFrom(s, K, b)
    BY DEF InstalledSpans
  <2> HIDE DEF b, B
  <2>3. InstalledWell(s, K, saved, b[1], B[s])
    BY <1>1, <1>2, <1>3, <2>1, <2>2, InstalledFacts
  <2>4. \A O \in SUBSET SpansFrom(s, K, 1) : Apart(O) => Total(saved, O) <= b[1]
    BY <1>1, <1>2, <1>3, <2>1, BestIsBound
  <2> QED
    BY <2>3, <2>4
<1>5. installed = UNION {B[s] : s \in L}
  OBVIOUS
<1> HIDE DEF B
<1>6. \A s \in L : B[s] \subseteq SpansFrom(s, K, 1) /\ Apart(B[s])
  BY <1>4 DEF InstalledWell
<1>7. \A x \in installed : SpanSound(spec, x)
  BY <1>5, <1>6, LegalSpanSound
<1>8. Apart(installed)
  <2> SUFFICES ASSUME NEW x \in installed, NEW y \in installed, x # y
               PROVE  ToSet(x) \cap ToSet(y) = {}
    BY DEF Apart
  <2>1. PICK s \in L : x \in B[s]
    BY <1>5
  <2>2. PICK t \in L : y \in B[t]
    BY <1>5
  <2>3. CASE s = t
    BY <1>6, <2>1, <2>2, <2>3 DEF Apart
  <2>4. CASE s # t
    BY <1>6, <2>1, <2>2, <2>4, SpansOfTwoGroups
  <2> QED
    BY <2>3, <2>4
<1>9. BestChoice(saved, K, installed)
  <2> SUFFICES ASSUME NEW other \in SUBSET K, Apart(other)
               PROVE  Total(saved, other) <= Total(saved, installed)
    BY DEF BestChoice
  <2> DEFINE A == [s \in L |-> other \cap SpansFrom(s, K, 1)]
  <2>1. \A s \in L : A[s] = other \cap SpansFrom(s, K, 1)
    OBVIOUS
  <2> HIDE DEF A
  <2>2. other = UNION {A[s] : s \in L}
    <3>1. \A x \in other : \E s \in L : x \in A[s]
      BY <2>1, KernelSpan
    <3>2. \A s \in L : A[s] \subseteq other
      BY <2>1
    <3> HIDE DEF L
    <3> QED
      BY <3>1, <3>2
  <2>3. \A s \in L : A[s] \in SUBSET K /\ B[s] \in SUBSET K
    BY <1>6, <2>1 DEF SpansFrom
  <2>4. ASSUME NEW s \in L PROVE Total(saved, A[s]) <= Total(saved, B[s])
    <3>1. A[s] \in SUBSET SpansFrom(s, K, 1) /\ Apart(A[s])
      BY <2>1 DEF Apart
    <3> QED
      BY <1>4, <3>1 DEF InstalledWell
  <2>5. ASSUME NEW s \in L, NEW t \in L, s # t
        PROVE  A[s] \cap A[t] = {} /\ B[s] \cap B[t] = {}
    <3>1. \A x \in SpansFrom(s, K, 1) : \A y \in SpansFrom(t, K, 1) : x # y
      BY <2>5, SpansOfTwoGroups
    <3> QED
      BY <1>6, <2>1, <3>1
  <2> HIDE DEF L
  <2>6. Total(saved, Together(A, L)) <= Total(saved, Together(B, L))
    <3>1. Groupwise(saved, K, L, A, B)
      BY <2>3, <2>4, <2>5 DEF Groupwise
    <3> QED
      BY <1>1, <1>2, <3>1, GroupsAddUp
  <2>7. other = Together(A, L) /\ installed = Together(B, L)
    BY <1>5, <2>2 DEF Together
  <2> QED
    BY <2>6, <2>7
<1> QED
  BY <1>7, <1>8, <1>9

-----------------------------------------------------------------------------
FusionVars == <<planVars, invVars, fusion>>

FusionInv == g \in Graphs /\ FusionSound

\* Nothing that is planned with is written again.
LEMMA WiringStays == PlanStep => g' = g
  BY DEF PlanStep, KahnVisit, KahnDone, AssignLevel, LevelsDone, AssignStreams, ColorBuffer,
     ColoringGuard, inputVars

LEMMA LaunchesTotal ==
    ASSUME NEW K, NEW P
    PROVE  LaunchesSaved(K, P) = Total([s \in K |-> Len(s) - 1], P)
  BY Zenon DEF LaunchesSaved, Total

\* The property depends on the wiring and on what was installed only.
LEMMA FusionSoundKept ==
    ASSUME FusionSound, g' = g, fusion' = fusion
    PROVE  FusionSound'
<1>1. ProducersFirst' <=> ProducersFirst
  BY DEF ProducersFirst, Deps, Inputs, External, Nodes
<1>2. \A x : InternalBuffers(ToSet(x))' = InternalBuffers(ToSet(x))
  BY DEF InternalBuffers
<1> QED
  BY <1>1, <1>2 DEF FusionSound

LEMMA InstallStepSound ==
    ASSUME g \in Graphs, planAndInstallFusion
    PROVE  FusionSound'
<1>1. Planned /\ g' = g
  BY DEF planAndInstallFusion, planVars
<1>2. PICK spec \in [Nodes -> g.specs] :
         \E K \in SUBSET UNION {SpansOf(s) : s \in planFusionGroups(spec)} :
            fusion' = [legal |-> planFusionGroups(spec),
                       installed |-> UNION {InstalledSpans(s, K) : s \in planFusionGroups(spec)},
                       spec |-> spec, kernels |-> K]
  BY DEF planAndInstallFusion
<1>3. PICK K \in SUBSET UNION {SpansOf(s) : s \in planFusionGroups(spec)} :
         fusion' = [legal |-> planFusionGroups(spec),
                    installed |-> UNION {InstalledSpans(s, K) : s \in planFusionGroups(spec)},
                    spec |-> spec, kernels |-> K]
  BY <1>2
<1> DEFINE installed == UNION {InstalledSpans(s, K) : s \in planFusionGroups(spec)}
           saved == [x \in K |-> Len(x) - 1]
<1>4. fusion'.installed = installed /\ fusion'.spec = spec /\ fusion'.kernels = K
  BY <1>3
<1>5. ProducersFirst' <=> ProducersFirst
  BY <1>1 DEF ProducersFirst, Deps, Inputs, External, Nodes
<1>6. SUFFICES ASSUME ProducersFirst
               PROVE  /\ \A x \in installed : SpanSound(spec, x)
                      /\ Apart(installed)
                      /\ BestChoice(saved, K, installed)
  <2>1. \A x : InternalBuffers(ToSet(x))' = InternalBuffers(ToSet(x))
    BY <1>1 DEF InternalBuffers
  <2>2. \A P : LaunchesSaved(K, P) = Total(saved, P)
    BY LaunchesTotal
  <2> HIDE DEF installed, saved
  <2> QED
    BY <1>1, <1>4, <1>5, <2>1, <2>2 DEF FusionSound, SpanSound, Apart, BestChoice
<1> HIDE DEF installed, saved
<1>7. /\ installed = UNION {InstalledSpans(s, K) : s \in planFusionGroups(spec)}
      /\ saved = [x \in K |-> Len(x) - 1]
  BY DEF installed, saved
<1> QED
  BY <1>1, <1>6, <1>7, InstallationSound

\* planAndInstallFusion() (compressor.cpp): for every wiring added producers
\* first, every assignment of access patterns and every registry, the groups
\* installed are chains that no buffer outside is cut from, agree on their
\* geometry, are disjoint, and no other choice saves more launches.
THEOREM FusionSoundCorrect == FusionSpecification => []FusionSound
<1>1. FusionInit => FusionInv
  <2> SUFFICES ASSUME FusionInit PROVE FusionInv
    OBVIOUS
  <2>1. g \in Graphs /\ fusion = NoFusion
    BY DEF FusionInit, InverseInit, Init
  <2>2. fusion.installed = {} /\ fusion.kernels = {}
    BY <2>1 DEF NoFusion
  <2>3. \A other \in SUBSET {} : other = {}
    OBVIOUS
  <2>4. LaunchesSaved({}, {}) = 0
    BY LaunchesTotal, TotalEmpty
  <2> QED
    BY <2>1, <2>2, <2>3, <2>4 DEF FusionInv, FusionSound
<1>2. FusionInv /\ [FusionNext]_FusionVars => FusionInv'
  <2> SUFFICES ASSUME FusionInv, [FusionNext]_FusionVars PROVE FusionInv'
    OBVIOUS
  <2>1. CASE InverseNext /\ UNCHANGED fusion
    <3>1. g' = g /\ fusion' = fusion
      BY <2>1, WiringStays DEF InverseNext, planVars
    <3> QED
      BY <3>1, FusionSoundKept DEF FusionInv
  <2>2. CASE planAndInstallFusion
    <3>1. g' = g
      BY <2>2 DEF planAndInstallFusion, planVars
    <3> QED
      BY <2>2, <3>1, InstallStepSound DEF FusionInv
  <2>3. CASE UNCHANGED FusionVars
    <3>1. g' = g /\ fusion' = fusion
      BY <2>3 DEF FusionVars, planVars
    <3> QED
      BY <3>1, FusionSoundKept DEF FusionInv
  <2> QED
    BY <2>1, <2>2, <2>3 DEF FusionNext
<1>3. FusionInv => FusionSound
  BY DEF FusionInv
<1> QED
  BY <1>1, <1>2, <1>3, PTL DEF FusionSpecification, FusionVars
=============================================================================
