---------------------------- MODULE TiledLorenzo ----------------------------
(* TiledLorenzoStage: the array is rewritten tile by tile, edge tiles padded *)
(* with zeros, each element less its predecessor in x, or in y at the start  *)
(* of a row, or in z at the start of a plane.  The inverse restores one row  *)
(* of a tile per thread from the seeds along z and y.                        *)
(* stConf: [kind |-> "tiled", size, bits, dims, tile, predict]; tile <<>> is *)
(* the default of the dimensionality.                                        *)
EXTENDS Lorenzo

effectiveTile ==
    IF stConf.tile # <<>> THEN [k \in 1..3 |-> Max({1, stConf.tile[k]})]
    ELSE CASE Ndim = 3 -> <<4, 4, 4>>
           [] Ndim = 2 -> <<8, 8, 1>>
           [] Ndim = 1 -> <<64, 1, 1>>
\* The geometry of a call on n elements: extents, tiles, elements of a tile.
Geometry(n) ==
    LET d == IF stConf.dims[1] = 0 THEN <<n, 1, 1>> ELSE stConf.dims
        t == effectiveTile
    IN  [d |-> d, t |-> t, nt |-> [k \in 1..3 |-> DivUp(d[k], t[k])], te |-> t[1] * t[2] * t[3]]
paddedElems(g) == g.nt[1] * g.nt[2] * g.nt[3] * g.te

\* Coordinates, from 0, of a linear index in a box.
Coord(i, box) == <<i % box[1], (i \div box[1]) % box[2], i \div (box[1] * box[2])>>
Linear(c, box) == (c[3] * box[2] + c[2]) * box[1] + c[1]
InArray(c, g) == \A k \in 1..3 : c[k] < g.d[k]
\* Position in the array of element `local` of tile t.
Global(g, t, local) ==
    LET tile == Coord(t, g.nt) l == Coord(local, g.t) IN [k \in 1..3 |-> tile[k] * g.t[k] + l[k]]

TilePredecessor(x, g, l, at) ==
    CASE l[1] > 0 -> x[at]
      [] l[1] = 0 /\ l[2] > 0 -> x[at - g.d[1] + 1]
      [] l[1] = 0 /\ l[2] = 0 /\ l[3] > 0 -> x[at - g.d[1] * g.d[2] + 1]
      [] OTHER -> 0
tiled_lorenzo_delta_kernel(x, g) ==
    [o \in 1..paddedElems(g) |->
        LET local == (o - 1) % g.te
            c == Global(g, (o - 1) \div g.te, local)
            at == Linear(c, g.d)
        IN  IF ~InArray(c, g) THEN 0
            ELSE Wrap(x[at + 1] - (IF stConf.predict THEN TilePredecessor(x, g, Coord(local, g.t), at)
                                                     ELSE 0))]

\* Row (ly, lz) of tile t: its seed, then running sums along x.
RowSeed(v, g, base, ly, lz) ==
    Wrap(SumSeq([k \in 1..lz+1 |-> v[base + (k - 1) * g.t[2] * g.t[1] + 1]])
         + SumSeq([k \in 1..ly |-> v[base + (lz * g.t[2] + k) * g.t[1] + 1]]))
tiled_lorenzo_scan_kernel_rows(v, g) ==
    [i \in 1..g.d[1] * g.d[2] * g.d[3] |->
        LET c == Coord(i - 1, g.d)
            t == Linear([k \in 1..3 |-> c[k] \div g.t[k]], g.nt)
            l == [k \in 1..3 |-> c[k] % g.t[k]]
            base == t * g.te
            row == base + (l[3] * g.t[2] + l[2]) * g.t[1]
        IN  IF ~stConf.predict THEN v[row + l[1] + 1]
            ELSE Wrap(RowSeed(v, g, base, l[2], l[3]) + SumSeq([k \in 1..l[1] |-> v[row + k + 1]]))]

TiledLorenzoForward ==
    /\ StageReady("tiled")
    /\ \E x \in StageInputs[stConf.data] \ {<<>>} : \E g \in {Geometry(Len(x))} :
        ExecutedSized(x, [n |-> 0], "output" :> tiled_lorenzo_delta_kernel(x, g),
                      paddedElems(g) * stConf.size, paddedElems(g) * stConf.size)
TiledLorenzoForwardEmpty ==
    /\ StageReady("tiled")
    /\ ExecutedSized(<<>>, [n |-> 0], "output" :> <<>>,
                     (IF stConf.dims[1] = 0 THEN 0 ELSE paddedElems(Geometry(0))) * stConf.size, 0)
\* Without dimensions the inverse knows only the padded length.
TiledLorenzoInverse ==
    /\ CanDecode("tiled")
    /\ LET v == Section(stArchive, "output")
           g == Geometry(Len(v))
       IN  IF v = <<>> THEN DecodedAs(<<>>, 0)
           ELSE DecodedAs(tiled_lorenzo_scan_kernel_rows(v, g), g.d[1] * g.d[2] * g.d[3])

TiledLorenzoNext == TiledLorenzoForward \/ TiledLorenzoForwardEmpty \/ TiledLorenzoInverse
=============================================================================
