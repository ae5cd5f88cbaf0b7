----------------------------- MODULE MCDagExec -----------------------------
(***************************************************************************)
(* Bounded instances of DagExec.  Buffer 1 (and 2, with two sources) is    *)
(* the external input; buffers nobody consumes are the pipeline's outputs. *)
(***************************************************************************)
EXTENDS DagExec

Wiring(prod, cons, members) ==
    LET bufs == DOMAIN prod IN
    [nodes |-> Max({prod[b] : b \in bufs}), bufs |-> bufs, prod |-> prod,
     cons |-> cons, persistent |-> {b \in bufs : cons[b] = {}},
     size |-> [b \in bufs |-> 1 + (b % 3)], group |-> members]

\* Four stages in a row, the first one with a second output that is a pipeline
\* output or is read by later stages, plain or with a fused group.
ChainGraphs ==
    {h \in {Wiring(<<0, 1, 2, 3, 4, 1>>, <<{1}, {2}, {3}, {4}, {}, c>>, members) :
              c \in {{}, {2}, {4}, {2, 4}},
              members \in {{}, {2, 3}, {1, 2}, {1, 2, 3, 4}}} :
       IsChain(h, h.group)}

\* A source that forks into two branches, which a fourth stage may join.
BranchGraphs ==
    {h \in {Wiring(<<0, 1, 1, 2, 3, 4>>, <<{1}, c2, c3, c4, c5, {}>>, {}) :
              c2 \in {{2}, {2, 3}}, c3 \in {{}, {3}, {3, 4}},
              c4 \in {{}, {4}}, c5 \in {{}, {4}}} :
       \A n \in 1..4 : \E b \in h.bufs : n \in h.cons[b]}

\* Two sources joined by a third stage: the inverse of a two-segment pipeline.
TwoSourceGraphs ==
    {Wiring(<<0, 0, 1, 2, 3>>, <<{1}, {2}, {3}, {3}, {}>>, {}),
     Wiring(<<0, 0, 1, 2, 3, 4>>, <<{1}, {2, 4}, {3}, {3}, {4}, {}>>, {})}

\* One buffer read by two branches of one level.
SharedBufferGraph ==
    {Wiring(<<0, 1, 2, 3>>, <<{1}, {2, 3}, {}, {}>>, {})}

\* Two outputs of one stage, read on two streams; a later stage of the first
\* branch may take over the memory the second branch still reads.
AliasGraph ==
    {Wiring(<<0, 1, 1, 2, 3, 4>>, <<{1}, {2}, {3}, {4}, {}, {}>>, {})}

StreamGraphs == BranchGraphs \cup TwoSourceGraphs

-----------------------------------------------------------------------------
Calling(p, c, s) == [protocol |-> p, staged |-> c, stream |-> s]

\* One application at a time, for the runs about one way of calling.
CompressDefault == {Calling("compress", FALSE, "default")}

\* Every entry point on a stream the caller created.
AllCreated == {Calling("compress", TRUE, "created"),
               Calling("decompress", FALSE, "created"),
               Calling("decompressInto", FALSE, "created")}

\* The synchronizing entry points on the default stream; decompressInto() on a
\* created one, where nothing but its own synchronization orders the calls.
AllOnSeveralStreams == {Calling("compress", TRUE, "default"),
                        Calling("decompress", FALSE, "default"),
                        Calling("decompressInto", FALSE, "created")}

\* Chains run coloured on a stream the caller created, fused ones only under
\* PREALLOCATE: the code fuses under MINIMAL too, and the first kernel then writes
\* through pointers nobody has set (see FusionPreallocated).  With several streams,
\* what the runs that expect a violation show to go wrong is left out: colouring,
\* a buffer of MINIMAL with two consumers, and decompressInto() without the
\* read-back of a second segment's size.
ExecCallers == AllCreated \cup AllOnSeveralStreams
ExecGraphs == ChainGraphs \cup StreamGraphs

ExecCase ==
    /\ FusionPreallocated
    /\ g \in ChainGraphs => coloringEnabled /\ caller \in AllCreated /\ configured = 0
    /\ g \in StreamGraphs => ~coloringEnabled /\ caller \in AllOnSeveralStreams
    /\ g \in StreamGraphs /\ strategy = "MINIMAL" =>
          \A b \in g.bufs : Cardinality(g.cons[b]) <= 1
    /\ g \in StreamGraphs /\ Protocol = "decompressInto" => Cardinality(External) > 1
=============================================================================
