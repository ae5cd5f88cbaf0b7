---------------------------- MODULE LorenzoQuant ----------------------------
(* LorenzoQuantStage: quantisation fused with Lorenzo prediction inside the  *)
(* tiles of a one-, two- or three-dimensional array.  A difference below the *)
(* radius becomes a code; another one becomes an outlier, in a slot claimed  *)
(* with an atomic counter, and its code is 0.                                *)
(* stConf: [kind |-> "lquant", data, size, eb, errorBound, den, ebMode,      *)
(* base, epsInv, radius, codeSize, codeBits, zigzag, centering, cap, capDen, *)
(* dims, tile, seq, lanes, bits]: the error bound is errorBound / den, base  *)
(* the precomputed value base or 0, 1 / epsInv the type's epsilon, capacity  *)
(* cap / capDen, `tile` the tile of each dimensionality, seq elements a      *)
(* thread, lanes a warp, bits the accumulator (wide enough to be exact).     *)
(* stMem: computed_abs_eb_ as [num, den] and the outlier counters.           *)
EXTENDS TiledLorenzo

\* round(a / b), halves away from zero.
RoundDiv(a, b) == IF a >= 0 THEN (2 * a + b) \div (2 * b) ELSE -((b - 2 * a) \div (2 * b))

getMaxOutlierCount(n) == DivUp(n * stConf.cap, stConf.capDen)
computeValueBase(x) ==
    IF stConf.ebMode = "NOA" THEN Max(ToSet(x)) - Min(ToSet(x))
    ELSE Max({AbsOf(x[i]) : i \in DOMAIN x})
\* The value base, and whether this call scanned the data for it.
ValueBase(x) == IF stConf.base > 0 THEN stConf.base ELSE computeValueBase(x)
AbsNumerator(x) ==
    IF stConf.ebMode = "ABS" \/ ValueBase(x) <= 0 THEN stConf.errorBound
    ELSE stConf.errorBound * ValueBase(x)
\* epsilon * max(|data|) exceeds the bound.
BelowSpacing(x) ==
    /\ stConf.ebMode # "ABS"
    /\ stConf.base <= 0
    /\ AbsNumerator(x) > 0
    /\ Max({AbsOf(x[i]) : i \in DOMAIN x}) * stConf.den > AbsNumerator(x) * stConf.epsInv
LqRefuses(x) == x # <<>> /\ (BelowSpacing(x) \/ (stConf.centering /\ Ndim # 1))

\* The array as a box, and the tiles of its dimensionality.
LqBox(n) == IF stConf.dims[1] > 0 THEN stConf.dims
            ELSE <<n \div (stConf.dims[2] * stConf.dims[3]), stConf.dims[2], stConf.dims[3]>>
LqGeometry(n) ==
    CASE Ndim = 1 -> [d |-> <<n, 1, 1>>, t |-> <<stConf.tile[1], 1, 1>>]
      [] Ndim = 2 -> [d |-> LqBox(n), t |-> <<stConf.tile[2], stConf.tile[2], 1>>]
      [] Ndim = 3 -> [d |-> LqBox(n), t |-> <<stConf.tile[3], stConf.tile[3], stConf.tile[3]>>]
StrideOf(g, k) == <<1, g.d[1], g.d[1] * g.d[2]>>[k]
\* Coordinate of element i along k, in the array and in its tile.
AxisAt(g, i, k) == Coord(i - 1, g.d)[k]
InTileAt(g, i, k) == AxisAt(g, i, k) % g.t[k]

\* Difference along one axis of every tile.
TileDelta(v, g, k) ==
    [i \in DOMAIN v |-> v[i] - (IF InTileAt(g, i, k) > 0 THEN v[i - StrideOf(g, k)] ELSE 0)]
lorenzo_quantize_2d_kernel(q, g) == TileDelta(TileDelta(q, g, 2), g, 1)
lorenzo_quantize_3d_kernel(q, g) == TileDelta(TileDelta(TileDelta(q, g, 3), g, 1), g, 2)

\* Rounded mean of a tile: every thread sums its strided elements, then a tree.
TileMean(v, tile) ==
    LET threads == tile \div stConf.seq
        own(t) == SumSeq([i \in 1..stConf.seq |-> Padded(v, tile)[t + (i - 1) * threads]])
    IN  RoundDiv(TreeSum([t \in 1..threads |-> own(t)]), Len(v))
LqMeans(q, tile) == [c \in 1..DivUp(Len(q), tile) |-> TileMean(PieceOf(q, tile, c), tile)]
lorenzo_quantize_1d_kernel(q, tile, means) ==
    [i \in DOMAIN q |-> q[i] - (IF (i - 1) % tile > 0 THEN q[i - 1]
                                ELSE MeanOf(means, (i - 1) \div tile + 1))]

\* The radius is passed as TCode.
LqRadius == stConf.radius % 2^stConf.codeBits
Quantizable(delta) == AbsOf(delta) < LqRadius
LqCode(delta) ==
    IF ~Quantizable(delta) THEN 0
    ELSE IF stConf.zigzag THEN ZigzagOf(Signed(delta, stConf.codeBits), stConf.codeBits)
    ELSE Unsigned(delta, stConf.codeBits)
LqDecode(code) ==
    IF stConf.zigzag THEN UnZigzag(code, stConf.codeBits) ELSE Signed(code, stConf.codeBits)

launchLorenzoKernel(q, means) ==
    CASE Ndim = 1 -> lorenzo_quantize_1d_kernel(q, stConf.tile[1], means)
      [] Ndim = 2 -> lorenzo_quantize_2d_kernel(q, LqGeometry(Len(q)))
      [] Ndim = 3 -> lorenzo_quantize_3d_kernel(q, LqGeometry(Len(q)))
\* The threads claim the slots in an order of their own: two of the orders.
OutlierOrders(delta) ==
    LET ascending == SelectSeq(Indices(Len(delta)), LAMBDA i : ~Quantizable(delta[i]))
    IN  {ascending, Reverse(ascending)}
LqBytes(n, outliers) ==
    n * stConf.codeSize + outliers * (stConf.size + 4)
    + (IF stConf.centering THEN DivUp(n, stConf.tile[1]) * stConf.size ELSE 0)

\* Outliers whose slot is past the capacity are lost.
LqExecuted(x, delta, means, num, order) ==
    LET kept == Min({Len(order), getMaxOutlierCount(Len(x))})
    IN  ExecutedAs(x, [num |-> num, count |-> Len(order)],
                   ("codes" :> [i \in DOMAIN delta |-> LqCode(delta[i])])
                   @@ ("outlier_errors" :> [s \in 1..kept |-> delta[order[s]]])
                   @@ ("outlier_indices" :> SubSeq(order, 1, kept)) @@ ("means" :> means),
                   LqBytes(Len(x), getMaxOutlierCount(Len(x))))
LorenzoQuantForward ==
    /\ StageReady("lquant")
    /\ \E x \in StageInputs[stConf.data] \ {<<>>} :
        /\ ~LqRefuses(x)
        /\ \E num \in {AbsNumerator(x)} :
           \E q \in {[i \in DOMAIN x |-> RoundDiv(x[i] * stConf.den, 2 * num)]} :
           \E means \in {IF stConf.centering THEN LqMeans(q, stConf.tile[1]) ELSE <<>>} :
           \E delta \in {launchLorenzoKernel(q, means)} :
           \E order \in OutlierOrders(delta) : LqExecuted(x, delta, means, num, order)
\* Nothing is launched: the device counter keeps the last call's count.
LorenzoQuantForwardEmpty ==
    /\ StageReady("lquant")
    /\ <<>> \in StageInputs[stConf.data]
    /\ ExecutedAs(<<>>, [num |-> 0, count |-> IF stCall = 0 THEN 0 ELSE stMem.count],
                  ("codes" :> <<>>) @@ ("means" :> <<>>), 0)
LorenzoQuantRefused ==
    /\ StageReady("lquant")
    /\ \E x \in StageInputs[stConf.data] : LqRefuses(x) /\ Refused(x)

\* Outliers were lost, and that was not asked for.
LqOverflow == stMem.count > getMaxOutlierCount(Len(stIn)) /\ stConf.cap > 0
LorenzoQuantPostStreamSync ==
    /\ Awaited("lquant")
    /\ ~LqOverflow
    /\ SizedAs("lquant", <<>>,
               LqBytes(Len(stIn), Min({stMem.count, getMaxOutlierCount(Len(stIn))})))
LorenzoQuantOverflow == Awaited("lquant") /\ LqOverflow /\ SyncRefused("lquant")

\* The line of i's tile along axis k, dead threads holding 0.
TileLine(v, g, i, k) ==
    LET first == AxisAt(g, i, k) - InTileAt(g, i, k)
        origin == i - InTileAt(g, i, k) * StrideOf(g, k)
    IN  [j \in 1..g.t[k] |->
            IF first + j <= g.d[k] THEN v[origin + (j - 1) * StrideOf(g, k)] ELSE 0]
\* Running sums of a line, `seq` elements a warp, then the warps before.
WarpLineSum(line, p, seq) ==
    LET w == (p - 1) \div seq
    IN  SumSeq(SubSeq(line, w * seq + 1, p)) + SumSeq([u \in 1..w |-> SumSeq(PieceOf(line, seq, u))])
AlongY(v, g, seq) ==
    [i \in DOMAIN v |-> WarpLineSum(TileLine(v, g, i, 2), InTileAt(g, i, 2) + 1, seq)]
AlongLanes(v, g, k) ==
    [i \in DOMAIN v |-> StrideScan(TileLine(v, g, i, k))[InTileAt(g, i, k) + 1]]
lorenzo_dequantize_2d_kernel(v, g) == AlongLanes(AlongY(v, g, stConf.seq), g, 1)
lorenzo_dequantize_3d_kernel(v, g) == AlongLanes(AlongLanes(AlongY(v, g, g.t[2]), g, 1), g, 3)
lorenzo_dequantize_1d_kernel(v, tile, means) ==
    LET seeded(c) == LET piece == PieceOf(v, tile, c)
                     IN  Padded([piece EXCEPT ![1] = @ + MeanOf(means, c)], tile)
        scanned == [c \in 1..DivUp(Len(v), tile) |-> SegmentPass(seeded(c), stConf.seq)]
    IN  [i \in DOMAIN v |-> scanned[(i - 1) \div tile + 1][((i - 1) % tile) + 1]]

scatter_outliers_kernel(errors, indices, n) ==
    [i \in 1..n |-> LET slot == {s \in DOMAIN indices : indices[s] = i}
                    IN  IF slot = {} THEN 0 ELSE errors[CHOOSE s \in slot : TRUE]]
launchLorenzoInverseKernel(v, means) ==
    CASE Ndim = 1 -> lorenzo_dequantize_1d_kernel(v, stConf.tile[1], means)
      [] Ndim = 2 -> lorenzo_dequantize_2d_kernel(v, LqGeometry(Len(v)))
      [] Ndim = 3 -> lorenzo_dequantize_3d_kernel(v, LqGeometry(Len(v)))
\* The header carries the bound, the radius, the count and the dimensions.
LorenzoQuantInverse ==
    /\ CanDecode("lquant")
    /\ \E codes \in {Section(stArchive, "codes")} :
       LET count == Min({stMem.count, getMaxOutlierCount(Len(codes))})
       IN  \E outliers \in {scatter_outliers_kernel(
                                SubSeq(Section(stArchive, "outlier_errors"), 1, count),
                                SubSeq(Section(stArchive, "outlier_indices"), 1, count), Len(codes))} :
           \E v \in {[i \in DOMAIN codes |-> LqDecode(codes[i]) + outliers[i]]} :
           \E q \in {launchLorenzoInverseKernel(v, Section(stArchive, "means"))} :
           DecodedAs([i \in DOMAIN q |-> (q[i] * 2 * stMem.num) \div stConf.den], Len(codes))

LorenzoQuantNext ==
    \/ LorenzoQuantForward \/ LorenzoQuantForwardEmpty \/ LorenzoQuantRefused
    \/ LorenzoQuantPostStreamSync \/ LorenzoQuantOverflow \/ LorenzoQuantInverse
=============================================================================
