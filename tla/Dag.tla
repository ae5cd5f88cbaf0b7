-------------------------------- MODULE Dag --------------------------------
(***************************************************************************)
(* CompressionDAG::finalize() and colorBuffers() (src/pipeline/dag.cpp,    *)
(* dag_coloring.cpp): from a wired graph of stages to an execution plan.   *)
(*                                                                         *)
(* The wiring is a record g; finalize() runs Kahn's cycle check, assigns   *)
(* levels in one pass over the nodes in insertion order, assigns streams   *)
(* round robin inside each level and, for PREALLOCATE, colours the buffers *)
(* greedily.  Each loop iteration of those passes is a step, so that what  *)
(* a pass establishes can be proved by induction on its steps.             *)
(***************************************************************************)
EXTENDS Integers, FiniteSets, FiniteSetsExt

CONSTANTS
    Graphs,            \* the wirings considered, see IsWiring
    Strategies,        \* subset of {"MINIMAL", "PREALLOCATE"}
    StreamConfigs,     \* arguments of configureStreams; 0: never called
    ColoringOptions    \* arguments of setColoringEnabled

(***************************************************************************)
(* A wiring: nodes 1..nodes in the order of addStage; bufs the buffers;    *)
(* prod the producing node, 0 for an external input (setInputBuffer);      *)
(* cons the consuming nodes; persistent the pipeline inputs and outputs    *)
(* (setBufferPersistent); size the propagated byte sizes; group the nodes  *)
(* of an installed fused group, a chain (setFusedGroups), or {}.           *)
(***************************************************************************)
LinearEdge(h, p, n) ==
    \E b \in h.bufs :
        /\ {x \in h.bufs : h.prod[x] = p /\ h.cons[x] # {}} = {b}
        /\ {x \in h.bufs : h.prod[x] # 0 /\ n \in h.cons[x]} = {b}
        /\ h.cons[b] = {n}

\* Every member but the first is fed by the member before it and by no other
\* stage, and feeds no stage but the next (linearFusableEdge).
IsChain(h, members) ==
    \A n \in members : (\E m \in members : m < n) =>
        LinearEdge(h, Max({m \in members : m < n}), n)

IsWiring(h) ==
    /\ h.nodes \in Nat \ {0}
    /\ IsFiniteSet(h.bufs)
    /\ h.prod \in [h.bufs -> 0..h.nodes]
    /\ h.cons \in [h.bufs -> SUBSET (1..h.nodes)]
    /\ h.persistent \subseteq h.bufs
    /\ h.size \in [h.bufs -> Nat]
    /\ h.group \subseteq 1..h.nodes
    /\ IsChain(h, h.group)

ASSUME DagAssumption ==
    /\ \A h \in Graphs : IsWiring(h)
    /\ Strategies \subseteq {"MINIMAL", "PREALLOCATE"}
    /\ StreamConfigs \subseteq Nat
    /\ ColoringOptions \subseteq BOOLEAN

VARIABLES
    g,                \* the wiring
    strategy,         \* strategy_
    configured,       \* number of streams given to configureStreams, or 0
    coloringEnabled,  \* ~coloring_disabled_
    phase,            \* how far finalize() and preallocateBuffers() are
    inDegree,         \* in_degree of Kahn's algorithm
    queue,            \* q: ids whose in-degree is 0 and that are not visited
    visited,          \* number of ids taken from q
    level,            \* DAGNode::level, -1 until assigned
    cursor,           \* loop index of assignLevels
    streamCount,      \* streams_.size()
    streamOf,         \* DAGNode::stream; 0 is the null (caller's) stream
    color,            \* buffer_color_: -1 until coloured
    regionSize,       \* color_region_sizes_
    coloringApplied   \* coloring_applied_

planVars == <<g, strategy, configured, coloringEnabled, phase, inDegree, queue,
              visited, level, cursor, streamCount, streamOf, color, regionSize,
              coloringApplied>>

Phases == {"kahn", "rejected", "levels", "streams", "color", "ready"}

-----------------------------------------------------------------------------
(***************************************************************************)
(* The wiring, read.                                                       *)
(***************************************************************************)
Nodes == 1..g.nodes
External == {b \in g.bufs : g.prod[b] = 0}
Inputs(n) == {b \in g.bufs : n \in g.cons[b]}
Outputs(n) == {b \in g.bufs : g.prod[b] = n}

\* DAGNode::dependencies, as a set.
Deps(n) == {g.prod[b] : b \in Inputs(n) \ External}

\* Each connection adds one entry to DAGNode::dependents, so a node that reads
\* two buffers of one producer appears twice.
EdgeCount(d, n) == Cardinality(Inputs(n) \cap Outputs(d))

\* No set of nodes in which every node waits for another one of the set.
Acyclic ==
    \A S \in (SUBSET Nodes) \ {{}} : \E n \in S : Deps(n) \cap S = {}

\* Every stage was added after the stages it reads from.
ProducersFirst == \A n \in Nodes : \A d \in Deps(n) : d < n

\* The head of the fused group: its first node in the chain.
FusedHead == Min(g.group)

\* fused_internal_buffers_: produced and consumed entirely inside the group.
FusedInternal ==
    {b \in g.bufs : /\ g.prod[b] \in g.group
                    /\ g.cons[b] # {}
                    /\ g.cons[b] \subseteq g.group}

-----------------------------------------------------------------------------
Init ==
    /\ g \in Graphs
    /\ strategy \in Strategies
    /\ configured \in StreamConfigs
    /\ coloringEnabled \in ColoringOptions
    /\ phase = "kahn"
    /\ inDegree = [n \in Nodes |-> Cardinality(Inputs(n) \ External)]
    /\ queue = {n \in Nodes : Inputs(n) \subseteq External}
    /\ visited = 0
    /\ level = [n \in Nodes |-> -1]
    /\ cursor = 1
    /\ streamCount = 0
    /\ streamOf = [n \in Nodes |-> 0]
    /\ color = [b \in g.bufs |-> -1]
    /\ regionSize = [c \in 0..(Cardinality(g.bufs) - 1) |-> 0]
    /\ coloringApplied = FALSE

kahnVars == <<inDegree, queue, visited>>
levelVars == <<level, cursor>>
streamVars == <<streamCount, streamOf>>
colorVars == <<color, regionSize, coloringApplied>>
inputVars == <<g, strategy, configured, coloringEnabled>>

\* Mutant of KahnVisit: a dependent reached by several edges is decremented once.
KahnVisitOnce(n) ==
    /\ phase = "kahn"
    /\ n \in queue
    /\ inDegree' = [m \in Nodes |-> inDegree[m] - IF EdgeCount(n, m) > 0 THEN 1 ELSE 0]
    /\ queue' = (queue \ {n})
                  \cup {m \in Nodes : EdgeCount(n, m) > 0 /\ inDegree'[m] = 0}
    /\ visited' = visited + 1
    /\ UNCHANGED <<inputVars, phase, levelVars, streamVars, colorVars>>

\* One turn of the while loop: take an id from the queue (the queue is filled
\* in hash-map order, so any id may come first) and drop its outgoing edges.
KahnVisit(n) ==
    /\ phase = "kahn"
    /\ n \in queue
    /\ inDegree' = [m \in Nodes |-> inDegree[m] - EdgeCount(n, m)]
    /\ queue' = (queue \ {n})
                  \cup {m \in Nodes : EdgeCount(n, m) > 0 /\ inDegree'[m] = 0}
    /\ visited' = visited + 1
    /\ UNCHANGED <<inputVars, phase, levelVars, streamVars, colorVars>>

\* Mutant of KahnDone: no cycle is reported, the loop waits for the other nodes.
KahnDoneWaits ==
    /\ phase = "kahn"
    /\ queue = {}
    /\ visited = g.nodes
    /\ phase' = "levels"
    /\ UNCHANGED <<inputVars, kahnVars, levelVars, streamVars, colorVars>>

\* The queue is empty: fewer visits than nodes means a cycle, and finalize()
\* throws.
KahnDone ==
    /\ phase = "kahn"
    /\ queue = {}
    /\ phase' = IF visited = g.nodes THEN "levels" ELSE "rejected"
    /\ UNCHANGED <<inputVars, kahnVars, levelVars, streamVars, colorVars>>

\* Mutant of AssignLevel: the level of the deepest dependency, not one more.
AssignLevelFlat ==
    /\ phase = "levels"
    /\ cursor <= g.nodes
    /\ level' = [level EXCEPT ![cursor] =
                    IF Deps(cursor) = {} THEN 0
                    ELSE Max({level[d] : d \in Deps(cursor)} \cup {0})]
    /\ cursor' = cursor + 1
    /\ UNCHANGED <<inputVars, phase, kahnVars, streamVars, colorVars>>

\* One iteration of assignLevels(): the level of the next node in insertion
\* order is one more than the highest level of its dependencies AS ASSIGNED SO
\* FAR; a dependency that comes later in the order still has level -1.
AssignLevel ==
    /\ phase = "levels"
    /\ cursor <= g.nodes
    /\ level' = [level EXCEPT ![cursor] =
                    IF Deps(cursor) = {} THEN 0
                    ELSE Max({level[d] : d \in Deps(cursor)} \cup {-1}) + 1]
    /\ cursor' = cursor + 1
    /\ UNCHANGED <<inputVars, phase, kahnVars, streamVars, colorVars>>

LevelsDone ==
    /\ phase = "levels"
    /\ cursor > g.nodes
    /\ phase' = "streams"
    /\ UNCHANGED <<inputVars, kahnVars, levelVars, streamVars, colorVars>>

-----------------------------------------------------------------------------
MaxLevel == Max({level[n] : n \in Nodes})
AtLevel(l) == {n \in Nodes : level[n] = l}

\* getMaxParallelism(): the widest level.
MaxParallelism == Max({Cardinality(AtLevel(l)) : l \in 0..MaxLevel})

\* Mutant of RoundRobin: the level picks the stream, not the place in it.
RoundRobinByLevel(n, k) == 1 + (level[n] % k)

\* level_stream_counter[level] % streams_.size(): the position of the node
\* among the nodes of its level, in insertion order.
RoundRobin(n, k) ==
    1 + (Cardinality({m \in AtLevel(level[n]) : m < n}) % k)

\* The rest of finalize(): the configured streams, or one internal stream per
\* node of the widest level, or just the default stream; then assignStreams().
AssignStreams ==
    /\ phase = "streams"
    /\ streamCount' = IF configured > 0 THEN configured ELSE MaxParallelism
    /\ streamOf' = [n \in Nodes |->
                      IF configured = 0 /\ MaxParallelism = 1 THEN 0
                      ELSE RoundRobin(n, streamCount')]
    /\ phase' = IF strategy = "PREALLOCATE" /\ coloringEnabled
                       /\ (g.group = {} \/ streamCount' = 1)
                  THEN "color" ELSE "ready"
    /\ UNCHANGED <<inputVars, kahnVars, levelVars, colorVars>>

-----------------------------------------------------------------------------
(***************************************************************************)
(* Buffer colouring (PREALLOCATE only).                                    *)
(***************************************************************************)
\* A fused group is one operation at the level of its head.
NodeLevel(n) == IF n \in g.group THEN level[FusedHead] ELSE level[n]

Colorable == (g.bufs \ External) \ FusedInternal

Born(b) == NodeLevel(g.prod[b])
Dies(b) == IF g.cons[b] = {} THEN MaxLevel
           ELSE Max({NodeLevel(n) : n \in g.cons[b]} \cup {0})

\* Mutant of Interfere: a buffer that dies at a level may share with one born
\* there, so a kernel's input and output may be the same memory.
InterfereStrict(a, b) == a # b /\ Born(a) < Dies(b) /\ Born(b) < Dies(a)

Interfere(a, b) == a # b /\ Born(a) <= Dies(b) /\ Born(b) <= Dies(a)

Uncolored == {b \in Colorable : color[b] = -1}

\* The colours a buffer may not take.
UsedColors(b) == {color[a] : a \in {x \in Colorable : Interfere(x, b)}}

\* One iteration of the greedy pass.  Buffers are taken by decreasing length
\* of live range; std::sort leaves the order of equal lengths open.  The buffer
\* takes the lowest colour no interfering buffer has.
ColorBuffer(b) ==
    /\ phase = "color"
    /\ b \in Uncolored
    /\ \A a \in Uncolored : Dies(a) - Born(a) <= Dies(b) - Born(b)
    /\ \E c \in 0..(Cardinality(g.bufs) - 1) :
         /\ c \notin UsedColors(b)
         /\ \A e \in 0..(c - 1) : e \in UsedColors(b)
         /\ color' = [color EXCEPT ![b] = c]
         /\ regionSize' = [regionSize EXCEPT ![c] = Max({@, g.size[b]})]
    /\ UNCHANGED <<inputVars, phase, kahnVars, levelVars, streamVars,
                   coloringApplied>>

\* The producers of the buffers of one colour, on one stream?
OneProducerStream(c) ==
    \A a, b \in {x \in Colorable : color[x] = c} :
        streamOf[g.prod[a]] = streamOf[g.prod[b]]

\* Mutant of ColoringGuard: the colouring is discarded but reported as applied.
ColoringGuardNoReturn ==
    /\ phase = "color"
    /\ Uncolored = {}
    /\ phase' = "ready"
    /\ coloringApplied' = TRUE
    /\ LET keep == streamCount > 1 =>
                     \A c \in DOMAIN regionSize : OneProducerStream(c)
       IN /\ color' = IF keep THEN color ELSE [b \in g.bufs |-> -1]
          /\ regionSize' = IF keep THEN regionSize
                           ELSE [c \in DOMAIN regionSize |-> 0]
    /\ UNCHANGED <<inputVars, kahnVars, levelVars, streamVars>>

\* The guard after the pass: with several streams, a colour whose PRODUCERS
\* are on distinct streams discards the whole colouring.
ColoringGuard ==
    /\ phase = "color"
    /\ Uncolored = {}
    /\ phase' = "ready"
    /\ LET keep == streamCount > 1 =>
                     \A c \in DOMAIN regionSize : OneProducerStream(c)
       IN /\ coloringApplied' = keep
          /\ color' = IF keep THEN color ELSE [b \in g.bufs |-> -1]
          /\ regionSize' = IF keep THEN regionSize
                           ELSE [c \in DOMAIN regionSize |-> 0]
    /\ UNCHANGED <<inputVars, kahnVars, levelVars, streamVars>>

PlanStep ==
    \/ \E n \in Nodes : KahnVisit(n)
    \/ KahnDone
    \/ AssignLevel
    \/ LevelsDone
    \/ AssignStreams
    \/ \E b \in g.bufs : ColorBuffer(b)
    \/ ColoringGuard

PlanSpec == Init /\ [][PlanStep]_planVars /\ WF_planVars(PlanStep)

-----------------------------------------------------------------------------
Colors == -1..(Cardinality(g.bufs) - 1)

PlanTypeOK ==
    /\ IsWiring(g)
    /\ strategy \in Strategies
    /\ configured \in StreamConfigs
    /\ coloringEnabled \in ColoringOptions
    /\ phase \in Phases
    /\ inDegree \in [Nodes -> Int]
    /\ queue \subseteq Nodes
    /\ visited \in Nat
    /\ level \in [Nodes -> Int]
    /\ cursor \in 1..(g.nodes + 1)
    /\ streamCount \in Nat
    /\ streamOf \in [Nodes -> 0..streamCount]
    /\ color \in [g.bufs -> Colors]
    /\ regionSize \in [0..(Cardinality(g.bufs) - 1) -> Nat]
    /\ coloringApplied \in BOOLEAN

\* Kahn's loop in finalize() rejects exactly the cyclic wirings, whatever the
\* order in which ready nodes are taken from the queue ("a cycle is always a
\* programming error", dag.cpp:298).
CycleCheckExact ==
    /\ phase = "rejected" => ~Acyclic
    /\ phase \notin {"kahn", "rejected"} => Acyclic

\* "nodes at the same level have no data dependency on each other"
\* (docs/architecture.md:84-85), and a node's level is above those of the
\* nodes it depends on: execute() dispatches level by level.
LevelsTopological ==
    phase \in {"streams", "color", "ready"} =>
        \A n \in Nodes : \A d \in Deps(n) : level[d] < level[n]

\* The same, for wirings whose stages were added producers first.
LevelsTopologicalInOrder == ProducersFirst => LevelsTopological

\* With the automatically created streams, two nodes of one level never share
\* a stream: "all nodes in a level launch concurrently on their assigned
\* streams" (docs/architecture.md:87).
SameLevelDistinctStreams ==
    phase \in {"color", "ready"} /\ configured = 0 =>
        \A m, n \in Nodes :
            m # n /\ level[m] = level[n] => streamOf[m] # streamOf[n]

\* Buffers that share a region are never live at the same level, and each one
\* fits in the region: aliasing happens "without affecting correctness"
\* (docs/architecture.md:107-109).
ColoringSound ==
    \A a \in Colorable : color[a] # -1 =>
        /\ g.size[a] <= regionSize[color[a]]
        /\ \A b \in Colorable :
              a # b /\ color[a] = color[b] =>
                  Dies(a) < Born(b) \/ Dies(b) < Born(a)

\* A coloured plan gives every materialised buffer a region: preallocateBuffers
\* leaves a buffer without a colour unallocated.
ColoringTotal ==
    coloringApplied => \A b \in Colorable : color[b] # -1

\* finalize() terminates: the plan becomes ready or the cycle is reported.
PlanTerminates == <>(phase \in {"ready", "rejected"})
=============================================================================
