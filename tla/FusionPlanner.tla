--------------------------- MODULE FusionPlanner ---------------------------
(***************************************************************************)
(* planFusionGroups() and Pipeline::planAndInstallFusion(): which stages   *)
(* of a finalized DAG run as one kernel.  The planner walks the linear     *)
(* chains of stages whose access patterns and block sizes agree; the spans *)
(* of a chain that have a kernel in the registry compete, and those that   *)
(* remove most launches are installed.  Dag and DagExec take an installed  *)
(* group as given and assume that it is a chain.                           *)
(*                                                                         *)
(* A FusionSpec is [access, block, unit]; a wiring with the field `specs`  *)
(* is planned with every assignment of these specs to its nodes.  The      *)
(* registry is the set of spans, sequences of nodes, that it has a kernel  *)
(* for.                                                                    *)
(***************************************************************************)
EXTENDS InverseDag

CONSTANT KernelLengths    \* the lengths of the spans a registry has kernels for

FusionSpecs ==
    [access : {"Unfusable", "Map", "BlockLocal", "TileAdaptive", "Cooperative"},
     block : Nat, unit : Nat]

\* A fused kernel stands for two stages or more; what finalize() keeps is what
\* nobody reads (compressor.cpp:791-798), and the inputs are the caller's.
ASSUME FusionAssumption ==
    /\ KernelLengths \subseteq Nat \ {0, 1}
    /\ \A h \in Graphs : "specs" \in DOMAIN h =>
          /\ h.specs \subseteq FusionSpecs
          /\ \A b \in h.persistent : h.prod[b] = 0 \/ h.cons[b] = {}

VARIABLE fusion    \* what was planned: see planAndInstallFusion

NoFusion == [legal |-> {}, installed |-> {}, spec |-> <<>>, kernels |-> {}]

-----------------------------------------------------------------------------
\* DAGNode::dependents and dependencies: one entry per connection.
Consumers(p) ==
    {e \in g.bufs \X Nodes : g.prod[e[1]] = p /\ e[2] \in g.cons[e[1]]}
Producers(n) == {b \in g.bufs : g.prod[b] # 0 /\ n \in g.cons[b]}

Fusable(spec) == spec.access # "Unfusable"

\* Mutant of linearFusableEdge: the producer may feed other stages too.
linearFusableEdgeFanOut(spec, p, n) ==
    /\ Fusable(spec[p]) /\ Fusable(spec[n])
    /\ Cardinality(Producers(n)) = 1
    /\ \E e \in Consumers(p) : e[2] = n

\* The producer feeds this stage only and the stage is fed by it only, over
\* one connection.
linearFusableEdge(spec, p, n) ==
    /\ Fusable(spec[p]) /\ Fusable(spec[n])
    /\ Cardinality(Consumers(p)) = 1
    /\ Cardinality(Producers(n)) = 1
    /\ \A e \in Consumers(p) : e[2] = n

NoGeometry == [block |-> 0, tile |-> 0, unit |-> 0]

\* The result of extendFusionGeometry() is Compatible.
FusionCompatible(geometry, next) ==
    /\ Fusable(next)
    /\ next.access = "Map" => geometry.tile = 0
    /\ next.access = "TileAdaptive" =>
          /\ next.block # 0 /\ next.unit # 0
          /\ next.block % next.unit = 0
          /\ geometry.block = 0 /\ geometry.tile = 0
    /\ next.access \in {"BlockLocal", "Cooperative"} =>
          IF geometry.tile # 0
          THEN next.access = "Cooperative" /\ next.block = geometry.unit
          ELSE next.block = 0 \/ geometry.block \in {0, next.block}

extendFusionGeometry(geometry, next) ==
    IF next.access = "TileAdaptive"
    THEN [geometry EXCEPT !.tile = next.block, !.unit = next.unit]
    ELSE IF next.access = "Map" \/ geometry.tile # 0 \/ next.block = 0 THEN geometry
    ELSE [geometry EXCEPT !.block = next.block]

\* The stage the walk goes on to: behind a coder, a branch or a geometry that
\* does not agree there is none.
NextInWalk(spec, walk) ==
    LET cur == Last(walk.stages)
    IN {n \in Nodes : /\ spec[cur].access # "Cooperative"
                      /\ linearFusableEdge(spec, cur, n)
                      /\ FusionCompatible(walk.geometry, spec[n])}

ExtendWalk(spec, walk) ==
    IF NextInWalk(spec, walk) = {} THEN walk
    ELSE LET n == CHOOSE m \in NextInWalk(spec, walk) : TRUE
         IN [stages |-> Append(walk.stages, n),
             geometry |-> extendFusionGeometry(walk.geometry, spec[n])]

StartWalk(spec, head) ==
    [stages |-> <<head>>, geometry |-> extendFusionGeometry(NoGeometry, spec[head])]

GroupFrom(spec, head) ==
    LET walk[k \in 0..(g.nodes - 1)] ==
            IF k = 0 THEN StartWalk(spec, head) ELSE ExtendWalk(spec, walk[k - 1])
    IN walk[g.nodes - 1].stages

\* A stage behind a linear fusable edge never starts a chain, not even where
\* the walk of its predecessor stopped short of it.
IsHead(spec, n) ==
    /\ Fusable(spec[n])
    /\ ~\E p \in Nodes : linearFusableEdge(spec, p, n)
    /\ spec[n].access # "Cooperative"
    /\ FusionCompatible(NoGeometry, spec[n])

planFusionGroups(spec) ==
    {s \in {GroupFrom(spec, n) : n \in {m \in Nodes : IsHead(spec, m)}} : Len(s) >= 2}

-----------------------------------------------------------------------------
\* The last positions of the candidates that begin at position i.
CandidateEnds(stages, kernels, i) ==
    {e \in (i + 1)..Len(stages) : SubSeq(stages, i, e) \in kernels}

\* best: the launches that can be removed from position i on.
BestFrom(stages, kernels) ==
    LET n == Len(stages)
        best[i \in 1..(n + 1)] ==
            IF i = n + 1 THEN 0
            ELSE Max({best[i + 1]}
                     \cup {(e - i) + best[e + 1] : e \in CandidateEnds(stages, kernels, i)})
    IN best

\* choice: of the candidates that do better than none, the longest of the best.
ChosenEnds(stages, kernels, best, i) ==
    {e \in CandidateEnds(stages, kernels, i) :
        (e - i) + best[e + 1] = best[i] /\ best[i] > best[i + 1]}

\* Position i is behind the span chosen last, or one more span is chosen.
InstallAt(stages, kernels, best, acc, i) ==
    LET ends == ChosenEnds(stages, kernels, best, i)
    IN IF i < acc.next \/ ends = {} THEN acc
       ELSE [next |-> Max(ends) + 1,
             groups |-> acc.groups \cup {SubSeq(stages, i, Max(ends))}]

InstalledFrom(stages, kernels, best) ==
    LET at[i \in 0..Len(stages)] ==
            IF i = 0 THEN [next |-> 1, groups |-> {}]
            ELSE InstallAt(stages, kernels, best, at[i - 1], i)
    IN at[Len(stages)].groups

InstalledSpans(stages, kernels) ==
    InstalledFrom(stages, kernels, BestFrom(stages, kernels))

\* setFusedGroups(): the buffers of a group that get no memory.
InternalBuffers(members) ==
    {b \in g.bufs : g.prod[b] \in members /\ g.cons[b] # {} /\ g.cons[b] \subseteq members}

-----------------------------------------------------------------------------
\* The spans of a legal group that the registry might have kernels for.
SpansOf(stages) ==
    {SubSeq(stages, r[1], r[2]) : r \in
        {q \in (1..Len(stages)) \X (1..Len(stages)) : (q[2] + 1) - q[1] \in KernelLengths}}

Planned == "specs" \in DOMAIN g

\* Behind finalize().  Nothing that is read here changes from then on, so the
\* model takes this step last; that a group shapes the colouring is in Dag.
planAndInstallFusion ==
    /\ Planned
    /\ fusion = NoFusion
    /\ phase = "ready"
    /\ \E spec \in [Nodes -> g.specs] : \E legal \in {planFusionGroups(spec)} :
       \E kernels \in SUBSET UNION {SpansOf(s) : s \in legal} :
          fusion' = [legal |-> legal,
                     installed |-> UNION {InstalledSpans(s, kernels) : s \in legal},
                     spec |-> spec, kernels |-> kernels]
    /\ UNCHANGED <<planVars, invVars>>

FusionInit == InverseInit /\ fusion = NoFusion

FusionNext ==
    \/ InverseNext /\ UNCHANGED fusion
    \/ planAndInstallFusion

FusionSpecification ==
    /\ FusionInit
    /\ [][FusionNext]_<<planVars, invVars, fusion>>
    /\ WF_planVars(PlanStep)

-----------------------------------------------------------------------------
\* What the kernels of the registry take for granted of their stages: all are
\* fusable, a coder comes last, block sizes agree (include/stage/fusion.h:56),
\* and behind the selector of a tile there is at most a coder of its unit.
OneGeometry(spec, stages) ==
    LET blocks == {i \in DOMAIN stages : spec[stages[i]].access \in {"BlockLocal", "Cooperative"}}
        tiles == {i \in DOMAIN stages : spec[stages[i]].access = "TileAdaptive"}
        sizes == {spec[stages[i]].block : i \in blocks} \ {0}
    IN /\ \A i \in DOMAIN stages : Fusable(spec[stages[i]])
       /\ \A i \in DOMAIN stages :
              spec[stages[i]].access = "Cooperative" => i = Len(stages)
       /\ tiles = {} => Cardinality(sizes) <= 1
       /\ \A i \in tiles :
              /\ i >= Len(stages) - 1
              /\ i < Len(stages) =>
                    /\ spec[stages[i + 1]].access = "Cooperative"
                    /\ spec[stages[i + 1]].block = spec[stages[i]].unit

\* The launches that a set of fused kernels saves.
LaunchesSaved(kernels, spans) ==
    LET saved == [s \in kernels |-> Len(s) - 1]
    IN MapThenSumSet(LAMBDA s : saved[s], spans)

\* Whatever the wiring (producers first), the access patterns and the kernels
\* there are: the installed groups are what Dag and DagExec assume (chains, no
\* stage in two of them, no memory withheld from a buffer that a stage outside
\* the group or the caller reads), what the kernels assume, and no other choice
\* of kernels for disjoint spans of the legal groups removes more launches.
FusionSound ==
    ProducersFirst =>
        /\ \A s \in fusion.installed :
              /\ IsChain(g, ToSet(s))
              /\ OneGeometry(fusion.spec, s)
              /\ InternalBuffers(ToSet(s)) \cap g.persistent = {}
        /\ \A s, t \in fusion.installed : s # t => ToSet(s) \cap ToSet(t) = {}
        /\ \A other \in SUBSET fusion.kernels :
              (\A s, t \in other : s # t => ToSet(s) \cap ToSet(t) = {})
              => LaunchesSaved(fusion.kernels, other)
                 <= LaunchesSaved(fusion.kernels, fusion.installed)
=============================================================================
