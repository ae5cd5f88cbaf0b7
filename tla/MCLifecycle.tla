---------------------------- MODULE MCLifecycle ----------------------------
(***************************************************************************)
(* Bounded instances of Lifecycle: inputs of 2, 3 and 4 bytes, alignment 2 *)
(* (3 bytes are padded to 4), pipelines with and without a size hint.      *)
(***************************************************************************)
EXTENDS Lifecycle

Pipeline(hint, align, strategy, graph, warm, learns) ==
    [hint |-> hint, align |-> align, strategy |-> strategy, graph |-> graph,
     warm |-> warm, concat |-> learns, learns |-> learns]

\* Padding with and without a hint, graph mode, one that finalize() refuses.
AllPipelines ==
    {Pipeline(0, 2, "MINIMAL", FALSE, FALSE, TRUE),
     Pipeline(3, 2, "PREALLOCATE", TRUE, TRUE, TRUE),
     Pipeline(3, 1, "PREALLOCATE", TRUE, FALSE, FALSE),
     Pipeline(4, 1, "MINIMAL", TRUE, FALSE, FALSE)}

\* Graph mode, with inputs shorter than the slot and nothing to pad.
GraphPipeline == {Pipeline(3, 1, "PREALLOCATE", TRUE, FALSE, FALSE)}

\* A pipeline with chunked stages and no size hint.
PaddingPipeline == {Pipeline(0, 2, "PREALLOCATE", FALSE, FALSE, FALSE)}
=============================================================================
