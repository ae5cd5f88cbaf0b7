----------------------------- MODULE InverseDag -----------------------------
(***************************************************************************)
(* From a planned pipeline to its archive and back (compressor.cpp,        *)
(* compressor_io.cpp, compressor_exec.cpp, compressor_inverse_dag.cpp):    *)
(* which outputs an archive holds and where, what a file header says of    *)
(* the topology, the inverse DAG built from either, and what it decodes.   *)
(*                                                                         *)
(* The contents of a forward buffer are the buffer's name.  A stage's      *)
(* inverse restores the stage's inputs when it is given exactly the        *)
(* stage's outputs, in the order of its ports, and Garbage otherwise: how  *)
(* a stage computes is the subject of the codec modules.                   *)
(***************************************************************************)
EXTENDS Dag, SequencesExt

CONSTANTS
    SegmentSizes,      \* actual sizes of the outputs of a compress() call
    MaxStageInputs,    \* FZM_MAX_STAGE_INPUTS
    MaxStageOutputs,   \* FZM_MAX_STAGE_OUTPUTS
    MaxBuffers         \* FZM_MAX_BUFFERS

(***************************************************************************)
(* A wiring is decoded here when it also says:                             *)
(*   ports    the inputs of each node in the order of its connect() and    *)
(*            bindExternalInput() calls;                                   *)
(*   bound    the nodes given to bindExternalInput(), in that order;       *)
(*   primary  the node given to setPrimarySource(), or 0;                  *)
(*   fusable  the spans of nodes findFusedImpl() has an inverse kernel for.*)
(* Buffer ids of outputs ascend with the node and the port (addRawStage).  *)
(* Only stages without producers and bound ones read an external input     *)
(* (setupInputBuffers), bound ones at their first port; the stages with an *)
(* inverse kernel have one input (matchesWarpRegisterInverse,              *)
(* matchesChunkCooperativeInverse).                                        *)
(***************************************************************************)
IsPorted(h) ==
    /\ h.bufs \subseteq Nat
    /\ h.ports \in [1..h.nodes -> Seq(h.bufs)]
    /\ h.bound \in Seq(1..h.nodes)
    /\ \A n \in 1..h.nodes :
          /\ Len(h.ports[n]) >= 1
          /\ \A b \in h.bufs : n \in h.cons[b] <=> Contains(h.ports[n], b)
    /\ \A b, c \in h.bufs : h.prod[b] # 0 /\ b < c /\ h.prod[c] # 0 => h.prod[b] <= h.prod[c]
    /\ \A n \in ToSet(h.bound) : h.prod[h.ports[n][1]] = 0
    /\ \A n \in 1..h.nodes :
          h.prod[h.ports[n][1]] = 0 =>
              \/ Contains(h.bound, n)
              \/ \A j \in 1..Len(h.ports[n]) : h.prod[h.ports[n][j]] = 0
    /\ h.primary \in 0..h.nodes
    /\ \A span \in h.fusable : \A i \in 1..Len(span) : Len(h.ports[span[i]]) = 1

ASSUME InverseDagAssumption ==
    /\ \A h \in Graphs : "ports" \in DOMAIN h => IsPorted(h)
    /\ SegmentSizes \subseteq Nat
    /\ {MaxStageInputs, MaxStageOutputs, MaxBuffers} \subseteq Nat \ {0}

VARIABLES
    arPhase,   \* how far the archive is
    arSize,    \* actual_size of each pipeline output, until the archive is opened
    arKind,    \* how the archive is decoded
    arDesc,    \* the FwdStageDesc list handed to buildInverseDAG
    arStore,   \* PipelineOutputMap: what is found for each pipeline output
    arSource,  \* the stages of source_sizes, in the order of arDesc
    inv,       \* the inverse DAG
    invValue   \* what the buffers of the inverse DAG hold

invVars == <<arPhase, arSize, arKind, arDesc, arStore, arSource, inv, invValue>>

Garbage == -1
NoInverse == [order |-> <<>>]

-----------------------------------------------------------------------------
(***************************************************************************)
(* The topology, read (identifyTopology, setupInputBuffers,                *)
(* autoDetectUnconnectedOutputs, getLevels).                               *)
(***************************************************************************)
\* The elements of S in the order that the set of pairs `before` is.
Arranged(S, before) ==
    [i \in 1..Cardinality(S) |->
        CHOOSE x \in S : Cardinality({y \in S : <<y, x>> \in before}) = i - 1]

Ascending(S) == Arranged(S, {p \in S \X S : p[1] < p[2]})

OutputIds(n) == Ascending(Outputs(n))

\* input_nodes_: the stages without producers, in insertion order, then the
\* ones bound explicitly, which may read other stages too.
InputNodes ==
    Ascending({n \in Nodes : Deps(n) = {} /\ ~Contains(g.bound, n)}) \o g.bound

PrimarySource == IF g.primary # 0 THEN g.primary ELSE InputNodes[1]

\* output_buffer_ids_: the unconnected outputs, by node and port.
OutputBufferIds == Ascending({b \in g.bufs \ External : g.cons[b] = {}})

\* Level by level, and the nodes of a level in insertion order.
LevelOrder ==
    Arranged(Nodes, {p \in Nodes \X Nodes :
                        \/ level[p[1]] < level[p[2]]
                        \/ level[p[1]] = level[p[2]] /\ p[1] < p[2]})

ForwardTopology ==
    [i \in 1..Len(LevelOrder) |->
        [stage |-> LevelOrder[i], ins |-> g.ports[LevelOrder[i]],
         outs |-> OutputIds(LevelOrder[i])]]

-----------------------------------------------------------------------------
(***************************************************************************)
(* Layout.  Slots of 16 bytes behind a header of a count and the sizes, in *)
(* memory; the same slots without that header in a file.                   *)
(***************************************************************************)
align16(x) == ((x + 15) \div 16) * 16
headerSize(n) == align16(4 + (8 * n))

\* Mutant of SlotOffset: segments packed without padding.
SlotOffsetPacked(base, sizes, i) ==
    base + FoldLeft(LAMBDA acc, s : acc + s, 0, SubSeq(sizes, 1, i - 1))

\* Where the reader looks for segment i, given the sizes it was told.
SlotOffset(base, sizes, i) ==
    base + FoldLeft(LAMBDA acc, s : acc + align16(s), 0, SubSeq(sizes, 1, i - 1))

\* writeConcatBuffer() and writeToFile(): where segment i was put.
WrittenAt(base, sizes, i) ==
    base + FoldLeft(LAMBDA acc, s : acc + align16(s), 0, SubSeq(sizes, 1, i - 1))

SegmentBytes == [i \in 1..Len(OutputBufferIds) |-> arSize[OutputBufferIds[i]]]

\* The segment a reader finds at an offset: itself when it is where it looks.
FoundAt(base, i) ==
    IF SegmentBytes[i] = 0 \/ SlotOffset(base, SegmentBytes, i) = WrittenAt(base, SegmentBytes, i)
    THEN OutputBufferIds[i] ELSE Garbage

\* What is found for each pipeline output when the slots begin at base.
StoreFrom(base) ==
    [b \in ToSet(OutputBufferIds) |->
        FoundAt(base, CHOOSE i \in 1..Len(OutputBufferIds) : OutputBufferIds[i] = b)]

-----------------------------------------------------------------------------
InverseInit ==
    /\ Init
    /\ arPhase = "idle"
    /\ arSize = <<>>
    /\ arKind = "none"
    /\ arDesc = <<>>
    /\ arStore = <<>>
    /\ arSource = <<>>
    /\ inv = NoInverse
    /\ invValue = <<>>

\* compress() on the ready plan: every pipeline output has some actual size.
CompressPlanned ==
    /\ arPhase = "idle"
    /\ phase = "ready"
    /\ "ports" \in DOMAIN g
    /\ arSize' \in [ToSet(OutputBufferIds) -> SegmentSizes]
    /\ arPhase' = "compressed"
    /\ UNCHANGED <<arKind, arDesc, arStore, arSource, inv, invValue>>

\* decompress() of the live buffers or of the returned blob.  One output is
\* its own blob, several are concatenated; the answer is the primary source's,
\* which has to be a source (resolvePrimarySource).
OpenLive ==
    /\ arPhase = "compressed"
    /\ arKind' \in {"live", "blob"}
    /\ arPhase' = IF Contains(InputNodes, PrimarySource) THEN "open" ELSE "refused"
    /\ arDesc' = ForwardTopology
    /\ arStore' = IF arKind' = "live" \/ Len(OutputBufferIds) = 1
                  THEN [b \in ToSet(OutputBufferIds) |-> b]
                  ELSE StoreFrom(headerSize(Len(OutputBufferIds)))
    /\ arSource' = <<PrimarySource>>
    /\ arSize' = <<>>
    /\ UNCHANGED <<inv, invValue>>

Upto(s, max) == SubSeq(s, 1, Min({Len(s), max}))

\* Mutant of HeaderStages: the reader drops one input id too many.
HeaderStagesShort ==
    [i \in 1..Len(ForwardTopology) |->
        [stage |-> ForwardTopology[i].stage,
         ins |-> Upto(ForwardTopology[i].ins, MaxStageInputs - 1),
         outs |-> Upto(ForwardTopology[i].outs, MaxStageOutputs)]]

\* buildHeader() and reconstructForwardTopology(): the level order, with as
\* many input and output ids as a stage entry has room for.
HeaderStages ==
    [i \in 1..Len(ForwardTopology) |->
        [stage |-> ForwardTopology[i].stage,
         ins |-> Upto(ForwardTopology[i].ins, MaxStageInputs),
         outs |-> Upto(ForwardTopology[i].outs, MaxStageOutputs)]]

\* buildSourceSizesFromHeader() without the flag: every stage that reads no
\* stage's output.
TopologySources(desc) ==
    LET produced == UNION {ToSet(desc[i].outs) : i \in 1..Len(desc)}
        sources == Ascending({i \in 1..Len(desc) : ToSet(desc[i].ins) \cap produced = {}})
    IN [k \in 1..Len(sources) |-> desc[sources[k]].stage]

\* readHeader(): more stages or buffers than the format has are refused.
HeaderRefused == g.nodes > MaxBuffers \/ Len(OutputBufferIds) > MaxBuffers

\* writeToFile() and decompressFromFile(), as far as buildInverseDAG: the
\* header flags the primary source; a file written before that flag existed
\* does not.
OpenFile ==
    /\ arPhase = "compressed"
    /\ arKind' \in {"file", "preflag"}
    /\ arDesc' = HeaderStages
    /\ arStore' = StoreFrom(0)
    /\ arSource' = IF arKind' = "file" THEN <<PrimarySource>> ELSE TopologySources(HeaderStages)
    /\ arPhase' = IF HeaderRefused \/ arSource' = <<>> THEN "refused" ELSE "open"
    /\ arSize' = <<>>
    /\ UNCHANGED <<inv, invValue>>

-----------------------------------------------------------------------------
(***************************************************************************)
(* buildInverseDAG.  A buffer of the inverse DAG is <<s, j>>, output j of  *)
(* the inverse of stage s, or <<0, b>>, the external input that holds the  *)
(* pipeline output b.                                                      *)
(***************************************************************************)
\* The entries written to buf_to_consumer[b].
ConsumersOf(b) ==
    {p \in UNION {{i} \X (1..Len(arDesc[i].ins)) : i \in 1..Len(arDesc)} :
        arDesc[p[1]].ins[p[2]] = b}

\* The entry that stays: the last one of the loop.
LastConsumer(b) ==
    CHOOSE p \in ConsumersOf(b) : \A q \in ConsumersOf(b) :
        \/ p[1] > q[1]
        \/ p[1] = q[1] /\ p[2] >= q[2]

\* Where the inverse of the producer of b reads b; <<>> when it is nowhere.
InverseInput(b) ==
    IF ConsumersOf(b) # {}
    THEN <<arDesc[LastConsumer(b)[1]].stage, LastConsumer(b)[2]>>
    ELSE IF b \in DOMAIN arStore THEN <<0, b>> ELSE <<>>

\* input_buffer_ids of every inverse node.
InverseInputs ==
    [s \in Nodes |->
        LET outs == arDesc[CHOOSE i \in 1..Len(arDesc) : arDesc[i].stage = s].outs
        IN [k \in 1..Len(outs) |-> InverseInput(outs[k])]]

\* dependencies and dependents: one entry per connected port.
Dependencies(ins, s) == {k \in 1..Len(ins[s]) : ins[s][k][1] # 0}
Dependents(ins, s) ==
    {p \in Nodes \X (1..Cardinality(g.bufs)) : p[2] <= Len(ins[p[1]]) /\ ins[p[1]][p[2]][1] = s}

\* assignLevels() over the inverse nodes in insertion order.
InverseLevel(ins, lv, s) ==
    IF Dependencies(ins, s) = {} THEN 0
    ELSE 1 + Max({lv[ins[s][k][1]] : k \in Dependencies(ins, s)})

InverseLevels(ins, order) ==
    LET at[i \in 0..Len(order)] ==
            IF i = 0 THEN [s \in Nodes |-> -1]
            ELSE [at[i - 1] EXCEPT ![order[i]] = InverseLevel(ins, at[i - 1], order[i])]
    IN at[Len(order)]

\* The chain that starts at a node without dependencies: as long as the last
\* node feeds one port only, of a node that reads no other stage.
ExtendChain(ins, chain) ==
    LET next == Dependents(ins, Last(chain))
    IN IF /\ Cardinality(next) = 1
          /\ \A d \in next : Cardinality(Dependencies(ins, d[1])) = 1
       THEN Append(chain, (CHOOSE d \in next : TRUE)[1])
       ELSE chain

ChainFrom(ins, start) ==
    LET chain[k \in 0..(g.nodes - 1)] ==
            IF k = 0 THEN <<start>> ELSE ExtendChain(ins, chain[k - 1])
    IN chain[g.nodes - 1]

\* The spans of a chain that get a fused kernel: at every position the longest
\* one there is, then on behind it.
FuseAt(chain, acc, i) ==
    LET ends == {e \in (i + 1)..Len(chain) : SubSeq(chain, i, e) \in g.fusable}
    IN IF i < acc.next \/ ends = {} THEN acc
       ELSE [next |-> Max(ends) + 1,
             spans |-> acc.spans \cup {SubSeq(chain, i, Max(ends))}]

FusedSpans(chain) ==
    LET at[i \in 0..Len(chain)] ==
            IF i = 0 THEN [next |-> 1, spans |-> {}] ELSE FuseAt(chain, at[i - 1], i)
    IN at[Len(chain)].spans

\* Inverse fusion is for live PREALLOCATE pipelines.
FusedInverseGroups(ins) ==
    IF arKind \in {"file", "preflag"} \/ strategy # "PREALLOCATE" THEN {}
    ELSE UNION {FusedSpans(ChainFrom(ins, s)) :
                    s \in {n \in Nodes : Dependencies(ins, n) = {}}}

\* Nodes are added from the last stage of the description to the first.  An
\* output that no stage reads and the archive does not hold is an error.
BuildInverse ==
    /\ arPhase = "open"
    /\ \E ins \in {InverseInputs}, order \in {Reverse([i \in 1..Len(arDesc) |-> arDesc[i].stage])} :
          IF \E s \in Nodes : Contains(ins[s], <<>>)
          THEN arPhase' = "refused" /\ UNCHANGED <<inv, invValue>>
          ELSE /\ arPhase' = "running"
               /\ inv' = [order |-> order, inputs |-> ins,
                          level |-> InverseLevels(ins, order),
                          groups |-> FusedInverseGroups(ins),
                          result |-> <<arSource[1], 1>>, ran |-> {}]
               /\ invValue' = [x \in ({0} \X DOMAIN arStore)
                                     \cup UNION {{<<s, j>> : j \in 1..Len(g.ports[s])} : s \in Nodes} |->
                                  IF x[1] = 0 THEN arStore[x[2]] ELSE Garbage]
    /\ UNCHANGED <<arSize, arKind, arDesc, arStore, arSource>>

-----------------------------------------------------------------------------
\* The inverse of stage s: it needs the outputs of s, in the order of ports.
StageInverse(values, s) ==
    IF [k \in 1..Len(inv.inputs[s]) |-> values[inv.inputs[s][k]]] = OutputIds(s)
    THEN g.ports[s] ELSE [j \in 1..Len(g.ports[s]) |-> Garbage]

WithOutputs(values, s) ==
    [x \in DOMAIN values |->
        IF x[1] = s THEN StageInverse(values, s)[x[2]] ELSE values[x]]

\* The stages that run when node s is dispatched: a fused group at its head.
Dispatched(s) ==
    IF \E span \in inv.groups : span[1] = s
    THEN CHOOSE span \in inv.groups : span[1] = s ELSE <<s>>

\* The values behind the stages of the span, one after the other.
RunSpan(values, span) ==
    LET at[i \in 0..Len(span)] ==
            IF i = 0 THEN values ELSE WithOutputs(at[i - 1], span[i])
    IN at[Len(span)]

FusedAway(s) == \E span \in inv.groups : Contains(Tail(span), s)

\* Level by level, nodes of a level in insertion order.  Buffers between the
\* members of a fused group are never written.
RunInverse(s) ==
    /\ arPhase = "running"
    /\ s \notin inv.ran
    /\ \A t \in Nodes \ (inv.ran \cup {s}) :
          \/ inv.level[t] > inv.level[s]
          \/ /\ inv.level[t] = inv.level[s]
             /\ \A i, k \in 1..Len(inv.order) : inv.order[i] = s /\ inv.order[k] = t => i < k
    /\ inv' = [inv EXCEPT !.ran = @ \cup {s}]
    /\ invValue' =
         IF FusedAway(s) THEN invValue
         ELSE LET after == RunSpan(invValue, Dispatched(s))
              IN [x \in DOMAIN invValue |->
                     IF x[1] = Last(Dispatched(s)) THEN after[x] ELSE invValue[x]]
    /\ arPhase' = IF inv'.ran = Nodes THEN "done" ELSE "running"
    /\ UNCHANGED <<arSize, arKind, arDesc, arStore, arSource>>

InverseStep ==
    \/ CompressPlanned
    \/ OpenLive
    \/ OpenFile
    \/ BuildInverse
    \/ \E s \in Nodes : RunInverse(s)

InverseNext ==
    \/ PlanStep /\ UNCHANGED invVars
    \/ InverseStep /\ UNCHANGED planVars

InverseSpec ==
    /\ InverseInit
    /\ [][InverseNext]_<<planVars, invVars>>
    /\ WF_planVars(PlanStep)

-----------------------------------------------------------------------------
\* Whatever the wiring, fan-out, order of ports, explicit bindings, archive
\* layout and inverse fusion, what decompress() and decompressFromFile()
\* return is the input of the primary source.  (A file without the flag has
\* no record of setPrimarySource(): it returns the first source's.  A file
\* lists no more outputs of a stage than an entry has room for, eight, and no
\* stage has more.)
InverseRestores ==
    arPhase = "done" /\ ProducersFirst /\ Contains(InputNodes, PrimarySource)
        /\ (arKind = "preflag" => Len(InputNodes) = 1)
        /\ (arKind \in {"file", "preflag"} =>
               \A n \in Nodes : Cardinality(Outputs(n)) <= MaxStageOutputs) =>
            invValue[inv.result] = g.ports[PrimarySource][1]

\* Every archive of a pipeline that compresses can be decoded by the pipeline
\* that wrote it, and its file by decompressFromFile(), unless the format has
\* no room for the topology.
DecodableWhenItFits ==
    arPhase = "refused" =>
        \/ g.primary # 0 /\ ~Contains(InputNodes, g.primary)
        \/ /\ arKind \in {"file", "preflag"}
           /\ \/ HeaderRefused
              \/ \E n \in Nodes : Len(g.ports[n]) > MaxStageInputs
              \/ \E n \in Nodes : Cardinality(Outputs(n)) > MaxStageOutputs
=============================================================================
