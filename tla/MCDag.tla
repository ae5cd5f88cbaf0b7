------------------------------- MODULE MCDag -------------------------------
(***************************************************************************)
(* Bounded instances of Dag, InverseDag and FusionPlanner.                 *)
(***************************************************************************)
EXTENDS FusionPlanner

\* Three nodes with one output each and a second output of node 1, consumed by
\* any nodes in any order of insertion: every wiring, cyclic ones included.
AnyOrderGraphs ==
    {[nodes |-> 3, bufs |-> 1..4, prod |-> <<1, 2, 3, 1>>, cons |-> c,
      persistent |-> {b \in 1..4 : c[b] = {}}, size |-> <<1, 2, 3, 2>>,
      group |-> {}] : c \in [1..4 -> SUBSET (1..3)]}

\* Four nodes added producers first, node 1 with two outputs, with or without
\* a fused group over two chained nodes.
InOrder(c) ==
    [nodes |-> 4, bufs |-> 1..5, prod |-> <<1, 2, 3, 4, 1>>, cons |-> c,
     persistent |-> {b \in 1..5 : c[b] = {}}, size |-> <<1, 2, 3, 1, 2>>,
     group |-> {}]

InOrderGraphs ==
    LET wirings == {InOrder(<<c1, c2, c3, {}, c5>>) :
                      c1 \in SUBSET (2..4), c2 \in SUBSET (3..4),
                      c3 \in SUBSET {4}, c5 \in SUBSET (2..4)}
    IN wirings \cup {h \in {[w EXCEPT !.group = p] :
                              w \in wirings, p \in {{1, 2}, {2, 3}, {2, 3, 4}}} :
                         IsChain(h, h.group)}

\* Three nodes with ports, node 1 with two outputs: every wiring in which
\* producers come first, and in it every order of the ports of node 3, its
\* external input bound to it or not, every primary source, and fused inverse
\* kernels for chains of stages with one input.
Wired(c, bound) ==
    LET sources == {n \in 1..3 : \A b \in 1..4 : n \notin c[b]} \cup bound
    IN [nodes |-> 3, bufs |-> (1..4) \cup {4 + n : n \in sources},
        prod |-> [b \in (1..4) \cup {4 + n : n \in sources} |->
                     IF b <= 4 THEN <<1, 1, 2, 3>>[b] ELSE 0],
        cons |-> [b \in (1..4) \cup {4 + n : n \in sources} |->
                     IF b <= 4 THEN c[b] ELSE {b - 4}],
        persistent |-> {b \in 1..4 : c[b] = {}} \cup {4 + n : n \in sources},
        size |-> [b \in (1..4) \cup {4 + n : n \in sources} |-> 1],
        group |-> {}]

\* The orders of the inputs of node n, an external one first.
PortOrders(h, n) ==
    {s \in SetToSeqs({b \in h.bufs : n \in h.cons[b]}) :
        \A i \in 2..Len(s) : h.prod[s[i]] # 0}

WithPorts(h, bound) ==
    {h @@ [ports |-> <<p1, p2, p3>>, bound |-> SetToSeq(bound), primary |-> m, fusable |-> f] :
        p1 \in PortOrders(h, 1), p2 \in PortOrders(h, 2), p3 \in PortOrders(h, 3),
        m \in {0, 3},
        f \in {{}} \cup {x \in {{<<3, 2, 1>>, <<3, 2>>}, {<<2, 1>>}} :
                           \A s \in x : \A i \in 1..Len(s) :
                               Cardinality({b \in h.bufs : s[i] \in h.cons[b]}) = 1}}

PortedGraphs ==
    UNION {WithPorts(Wired(<<c1, c2, c3, {}>>, bound), bound) :
              c1 \in SUBSET (2..3), c2 \in SUBSET (2..3), c3 \in SUBSET {3},
              bound \in {{}, {3}}}

\* Four nodes to be fused, node 1 with two outputs: a chain, with stages of
\* every access pattern and of block sizes that agree or not, and wirings in
\* which an edge is not linear or starts a second chain.
StageSpec(access, block, unit) == [access |-> access, block |-> block, unit |-> unit]
EverySpec ==
    {StageSpec("Unfusable", 0, 0), StageSpec("Map", 0, 0), StageSpec("BlockLocal", 4, 0),
     StageSpec("BlockLocal", 8, 0), StageSpec("TileAdaptive", 8, 4), StageSpec("Cooperative", 4, 0)}
FewSpecs == {StageSpec("Map", 0, 0), StageSpec("BlockLocal", 4, 0), StageSpec("Cooperative", 4, 0)}

FusionGraphs ==
    {InOrder(<<{2}, {3}, {4}, {}, {}>>) @@ [specs |-> EverySpec]}
    \cup {InOrder(c) @@ [specs |-> FewSpecs] :
            c \in {<<{2}, {3}, {4}, {}, {n}>> : n \in 2..4}
                  \cup {<<{2, 3}, {4}, {4}, {}, {}>>, <<{2}, {3, 4}, {}, {}, {}>>,
                        <<{2}, {}, {4}, {}, {}>>, <<{}, {3}, {4}, {}, {2}>>,
                        <<{3}, {4}, {}, {}, {}>>}}

\* All four families; the streams and the colouring make no difference to an
\* archive, nor to the choice of kernels.
PlanGraphs == AnyOrderGraphs \cup InOrderGraphs \cup PortedGraphs \cup FusionGraphs
PlanCase == {"ports", "specs"} \cap DOMAIN g # {} => configured = 0 /\ coloringEnabled
=============================================================================
